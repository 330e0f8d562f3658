----------------------------- MODULE ReorgObserver -----------------------------
(***************************************************************************)
(* The reorganization-safe observer of the client (observer.ts) and the    *)
(* chain it reads through one provider.                                    *)
(*                                                                         *)
(* Each awaited provider read is one action: it sees the canonical chain   *)
(* of that moment and runs the code up to the next await.  The chain may   *)
(* change between any two reads.  Of a block only its place in the tree    *)
(* and whether it carries logs of the contract matter: a header is its     *)
(* block, since the hash commits to number and parent, and a block in a    *)
(* set of logs stands for the logs it carries.                             *)
(***************************************************************************)
EXTENDS Integers, FiniteSets

CONSTANTS
    Blocks,             \* every block that some branch of the chain may have
    Number,             \* the height of each block
    Branch,             \* each block together with all its ancestors
    Carries,            \* the blocks that carry logs of the contract
    DeploymentBlock, MaxBlockSpan, MaxReorgDepth, MaxRetainedHeaders,
    MaxLogsPerSync, MaxRetainedLogs,
    Returns,            \* may a block come back to the chain that it left
                        \* during one and the same operation?
    None                \* null

ASSUME TreeAssumption ==
    /\ IsFiniteSet(Blocks)
    /\ Number \in [Blocks -> Nat]
    /\ Branch \in [Blocks -> SUBSET Blocks]
    /\ Carries \subseteq Blocks
    /\ None \notin Blocks
    /\ \A b \in Blocks :
         /\ b \in Branch[b]
         /\ \A c \in Branch[b] : Branch[c] = {d \in Branch[b] : Number[d] <= Number[c]}
         /\ \A c, d \in Branch[b] : Number[c] = Number[d] => c = d
         /\ \A n \in 0..Number[b] : \E c \in Branch[b] : Number[c] = n

(* What the constructor demands of the limits, and a contract that is not  *)
(* deployed by the genesis block.                                          *)
ASSUME LimitsAssumption ==
    /\ DeploymentBlock \in Nat \ {0}
    /\ MaxBlockSpan \in Nat \ {0}
    /\ MaxReorgDepth \in Nat \ {0}
    /\ MaxRetainedHeaders \in Nat
    /\ MaxRetainedHeaders > MaxReorgDepth
    /\ MaxLogsPerSync \in Nat \ {0}
    /\ MaxRetainedLogs \in Nat \ {0}
    /\ Returns \in BOOLEAN

VARIABLES
    chain,      \* the last block of the provider's canonical chain
    gone,       \* blocks that left it during the operations in progress, or
                \* were off it already when a reconciliation froze them
    headers,    \* #headers
    logs,       \* #logs
    head,       \* #head
    sync,       \* the synchronization in flight, at the read it awaits
    reading     \* the reconciliation in flight, or the last one's result

observed == <<headers, logs, head>>
vars == <<chain, gone, observed, sync, reading>>

Idle == [at |-> "idle"]

Init ==
    /\ chain \in Blocks
    /\ gone = {}
    /\ headers = {}
    /\ logs = {}
    /\ head = None
    /\ sync = Idle
    /\ reading = Idle

Quiet == sync = Idle /\ reading.at \in {"idle", "done"}

(* The canonical chain is extended, shortened or replaced. *)
ChangeChain(b) ==
    /\ b # chain
    /\ Branch[b] \cap gone = {}
    /\ chain' = b
    /\ gone' = IF Quiet \/ Returns THEN {} ELSE gone \cup (Branch[chain] \ Branch[b])
    /\ UNCHANGED <<observed, sync, reading>>

(* getBlockByNumber answers b; a height beyond the chain has no answer.    *)
IsCanonical(b, n) == b \in Branch[chain] /\ Number[b] = n

Upto(S, n)  == {b \in S : Number[b] <= n}
Above(S, n) == {b \in S : Number[b] > n}

Extends(child, parent) == parent \in Branch[child] /\ Number[child] = Number[parent] + 1

-----------------------------------------------------------------------------
(* Synchronization *)

(* A plausible slip: a head that is lower than the accepted one is refused. *)
NeverLower(n) ==
    IF head = None
    THEN n - DeploymentBlock + 1 <= MaxBlockSpan
    ELSE n <= Number[head] + MaxBlockSpan /\ Number[head] <= n

SpanAllowed(n) ==
    IF head = None
    THEN n - DeploymentBlock + 1 <= MaxBlockSpan
    ELSE n <= Number[head] + MaxBlockSpan /\ Number[head] <= n + MaxReorgDepth

(* sync: a caller that finds one in flight shares it. *)
ReadBlockNumber ==
    LET n == Number[chain] IN
    /\ sync = Idle
    /\ n >= DeploymentBlock
    /\ SpanAllowed(n)
    /\ sync' = [at |-> "head", number |-> n]
    /\ UNCHANGED <<chain, observed, reading>>

BeforeDeployment == DeploymentBlock - 1

(* A plausible slip: the depth of the rollback is not looked at. *)
DepthUnchecked(retained) == TRUE

DepthAllowed(retained) == head = None \/ Number[head] - retained <= MaxReorgDepth

(* Everything up to the retained height is kept, the rest is loaded anew.  *)
Reload(latest, ancestor) ==
    LET retained == IF ancestor = None THEN BeforeDeployment ELSE Number[ancestor] IN
    IF ~DepthAllowed(retained) THEN Idle
    ELSE IF retained < Number[latest]
    THEN [at |-> "header", latest |-> latest, retained |-> retained,
          previous |-> ancestor, loaded |-> {}]
    ELSE [at |-> "anchor", latest |-> latest, retained |-> retained,
          loaded |-> {}, fetched |-> {}]

(* The loop of #findCommonAncestor, up to its next read. *)
Search(latest, candidate) ==
    IF candidate \in headers THEN Reload(latest, candidate)
    ELSE IF Number[candidate] = 0 \/ Number[candidate] < DeploymentBlock - 1
    THEN Reload(latest, None)
    ELSE IF Number[latest] - Number[candidate] + 1 > MaxBlockSpan + MaxReorgDepth THEN Idle
    ELSE [at |-> "ancestor", latest |-> latest, candidate |-> candidate]

ReadHead ==
    /\ sync.at = "head"
    /\ \E b \in Blocks :
         /\ IsCanonical(b, sync.number)
         /\ sync' = IF head = None THEN Reload(b, None) ELSE Search(b, b)
    /\ UNCHANGED <<chain, observed, reading>>

ReadAncestor ==
    /\ sync.at = "ancestor"
    /\ \E b \in Blocks :
         /\ IsCanonical(b, Number[sync.candidate] - 1)
         /\ Extends(sync.candidate, b)
         /\ sync' = Search(sync.latest, b)
    /\ UNCHANGED <<chain, observed, reading>>

LoadedHeight == IF sync.previous = None THEN BeforeDeployment ELSE Number[sync.previous]

(* The checks of #loadHeaders and, on its last header, of its caller. *)
Linked(b, latest, previous) ==
    /\ previous # None => Extends(b, previous)
    /\ Number[b] = Number[latest] => b = latest

ReadHeader ==
    /\ sync.at = "header"
    /\ \E b \in Blocks :
         /\ IsCanonical(b, LoadedHeight + 1)
         /\ Linked(b, sync.latest, sync.previous)
         /\ sync' = [sync EXCEPT !.at = IF b = sync.latest THEN "logs" ELSE "header",
                                 !.previous = b, !.loaded = @ \cup {b}]
    /\ UNCHANGED <<chain, observed, reading>>

Anchored(fetched, nextHeaders) == fetched \subseteq nextHeaders

(* A plausible slip: the headers of the replaced branch are not removed.   *)
NothingRemoved == headers \cup sync.loaded

NextHeaders == Upto(headers, sync.retained) \cup sync.loaded

ReadLogs ==
    LET fetched == Above(Upto(Branch[chain] \cap Carries, Number[sync.latest]), sync.retained)
    IN  /\ sync.at = "logs"
        /\ Cardinality(fetched) <= MaxLogsPerSync
        /\ Anchored(fetched, NextHeaders)
        /\ Cardinality(Upto(logs, sync.retained) \cup fetched) <= MaxRetainedLogs
        /\ sync' = [at |-> "anchor", latest |-> sync.latest, retained |-> sync.retained,
                    loaded |-> sync.loaded, fetched |-> fetched]
        /\ UNCHANGED <<chain, observed, reading>>

(* A plausible slip: the accepted head is not read again. *)
AnchorNotReread(b) == TRUE

(* The head block read again is the one already read. *)
StillCanonical(b) == b \in Branch[chain]

RetainedHeaders(nextHeaders, latest) ==
    Above(nextHeaders, Number[latest] - MaxRetainedHeaders)

(* The last read: everything is accepted at once or not at all. *)
ReadAnchorAndCommit ==
    /\ sync.at = "anchor"
    /\ StillCanonical(sync.latest)
    /\ headers' = RetainedHeaders(NextHeaders, sync.latest)
    /\ logs' = Upto(logs, sync.retained) \cup sync.fetched
    /\ head' = sync.latest
    /\ sync' = Idle
    /\ UNCHANGED <<chain, reading>>

(* A read is rejected, or one of the checks above fails: the caller gets   *)
(* an error and nothing else changes.                                      *)
SyncFails ==
    /\ sync # Idle
    /\ sync' = Idle
    /\ UNCHANGED <<chain, observed, reading>>

SyncProceeds == \/ ReadBlockNumber \/ ReadHead \/ ReadAncestor \/ ReadHeader
                \/ ReadLogs \/ ReadAnchorAndCommit

SyncStep == SyncProceeds \/ SyncFails

-----------------------------------------------------------------------------
(* Reconciliation *)

(* reconcile waits for a synchronization in flight, and starts the first   *)
(* one itself; then it freezes head and logs together.                     *)
FreezeSnapshot ==
    /\ reading.at \in {"idle", "done"}
    /\ sync = Idle
    /\ head # None
    /\ reading' = [at |-> "direct", head |-> head, logs |-> logs]
    /\ UNCHANGED <<chain, observed, sync>>

(* The caller's read of the contract's storage at the frozen height.       *)
ReadDirectState ==
    /\ reading.at = "direct"
    /\ \E b \in Blocks :
         /\ IsCanonical(b, Number[reading.head])
         /\ reading' = [at |-> "check", head |-> reading.head, logs |-> reading.logs,
                        state |-> b]
    /\ UNCHANGED <<chain, observed, sync>>

(* A plausible slip: the logs are copied when the result is put together.  *)
LogsAtReturn(snapshot) == logs

FrozenLogs(snapshot) == snapshot.logs

ReadAnchorAndReturn ==
    /\ reading.at = "check"
    /\ StillCanonical(reading.head)
    /\ reading' = [at |-> "done", head |-> reading.head, logs |-> FrozenLogs(reading),
                   state |-> reading.state]
    /\ UNCHANGED <<chain, observed, sync>>

ReconcileFails ==
    /\ reading.at \in {"direct", "check"}
    /\ reading' = Idle
    /\ UNCHANGED <<chain, observed, sync>>

ReconcileStep == ReadDirectState \/ ReadAnchorAndReturn \/ ReconcileFails

-----------------------------------------------------------------------------
Next ==
    \/ \E b \in Blocks : ChangeChain(b)
    \/ (SyncStep \/ ReconcileStep) /\ gone' = IF Quiet' THEN {} ELSE gone
    \/ FreezeSnapshot /\ gone' = IF Returns THEN {} ELSE Branch[head] \ Branch[chain]

Spec == Init /\ [][Next]_vars
=============================================================================
