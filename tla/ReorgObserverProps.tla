--------------------------- MODULE ReorgObserverProps ---------------------------
(***************************************************************************)
(* What makes the observer correct.                                        *)
(***************************************************************************)
EXTENDS ReorgObserver

LogsOn(b) == {c \in Branch[b] \cap Carries : Number[c] >= DeploymentBlock}

Sync ==
    {Idle}
    \cup [at: {"head"}, number: Nat]
    \cup [at: {"ancestor"}, latest: Blocks, candidate: Blocks]
    \cup [at: {"header", "logs"}, latest: Blocks, retained: Nat,
           previous: Blocks \cup {None}, loaded: SUBSET Blocks]
    \cup [at: {"anchor"}, latest: Blocks, retained: Nat, loaded: SUBSET Blocks,
           fetched: SUBSET Blocks]

Reading ==
    {Idle}
    \cup [at: {"direct"}, head: Blocks, logs: SUBSET Blocks]
    \cup [at: {"check", "done"}, head: Blocks, logs: SUBSET Blocks, state: Blocks]

(* Every height computed from the deployment block, the ancestor or the    *)
(* head is a block number, and each operation holds what its next read     *)
(* needs.                                                                  *)
TypeOK ==
    /\ chain \in Blocks
    /\ gone \subseteq Blocks
    /\ headers \subseteq Blocks
    /\ logs \subseteq Blocks
    /\ head \in Blocks \cup {None}
    /\ sync \in Sync
    /\ reading \in Reading

(* Whatever the chain did between the reads, the accepted headers are an   *)
(* unbroken run up to the head on one branch, and no log of a replaced     *)
(* branch is kept.                                                         *)
OneBranch ==
    IF head = None
    THEN headers = {} /\ logs = {}
    ELSE /\ head \in headers
         /\ headers \subseteq Above(Branch[head], DeploymentBlock - 1)
         /\ logs \subseteq LogsOn(head)
         /\ \A b \in Branch[head] \ headers, c \in headers : Number[b] < Number[c]

(* What has been loaded so far fits together: the retained part lies on    *)
(* the new head's branch, the new part is an unbroken run above it, and    *)
(* each log found belongs to one of these headers.  The accepted state is  *)
(* replaced by this at the last read.                                      *)
InFlight ==
    /\ sync.at = "head" => sync.number >= DeploymentBlock
    /\ sync.at = "ancestor" => /\ head # None
                               /\ Number[sync.latest] >= DeploymentBlock
                               /\ sync.candidate \in Branch[sync.latest]
    /\ sync.at \in {"header", "logs", "anchor"} =>
         /\ DeploymentBlock - 1 <= sync.retained
         /\ sync.retained <= Number[sync.latest]
         /\ sync.retained = Number[sync.latest] => sync.latest \in headers
    /\ sync.at = "header" =>
         /\ sync.retained <= LoadedHeight
         /\ LoadedHeight < Number[sync.latest]
         /\ IF sync.previous = None
            THEN sync.loaded = {} /\ sync.retained = DeploymentBlock - 1
            ELSE /\ sync.loaded = Above(Branch[sync.previous], sync.retained)
                 /\ Upto(headers, sync.retained) \subseteq Branch[sync.previous]
                 /\ Upto(logs, sync.retained) \subseteq Branch[sync.previous]
                 /\ sync.retained >= DeploymentBlock =>
                      /\ head # None
                      /\ Upto(Branch[sync.previous], sync.retained) \subseteq Branch[head]
    /\ sync.at \in {"logs", "anchor"} =>
         /\ sync.loaded = Above(Branch[sync.latest], sync.retained)
         /\ Upto(headers, sync.retained) \subseteq Branch[sync.latest]
         /\ Upto(logs, sync.retained) \subseteq Branch[sync.latest]
         /\ sync.retained >= DeploymentBlock =>
              /\ head # None
              /\ Upto(Branch[sync.latest], sync.retained) \subseteq Branch[head]
    /\ sync.at = "anchor" => sync.fetched \subseteq sync.loaded \cap Carries

(* What a synchronization accepts is not only on one branch but all of it: *)
(* no log of the head's branch is missing, rolled back and reloaded as it  *)
(* may have been.                                                          *)
LogsComplete == head # None => logs = LogsOn(head)

(* The direct state that reconcile returns was read from the returned      *)
(* head's branch, whatever the chain did before its head was read again.   *)
DirectStateOfHead == reading.at = "done" => reading.state = reading.head

(* What reconcile returns belongs together: the logs and the direct state  *)
(* are those of the returned head, although synchronizations may have      *)
(* replaced head and logs while the direct state was read.                 *)
ReconciledTogether ==
    /\ DirectStateOfHead
    /\ reading.at = "done" => reading.logs = LogsOn(reading.head)

(* No synchronization gives up more blocks that may carry logs than        *)
(* configured, whatever was retained of them.                              *)
RollbackBounded ==
    [][head # None /\ head' # head =>
          Cardinality(Above(Branch[head] \ Branch[head'], DeploymentBlock - 1))
              <= MaxReorgDepth]_vars

-----------------------------------------------------------------------------
(* Fairness: the caller keeps synchronizing and every read returns, with   *)
(* an answer or an error.  Nothing is assumed of the chain.                *)
FairSpec == Spec /\ WF_sync(SyncStep)

(* A read fails although its answer would have passed every check. *)
Outage == SyncFails /\ ENABLED SyncProceeds /\ ~SyncProceeds

Quiescent == <>[][UNCHANGED chain /\ ~Outage]_<<chain, sync>>

(* The chain has moved no farther than the observer is configured to       *)
(* follow: not too many blocks replaced, not too many new, not too many    *)
(* logs.                                                                   *)
WithinLimits ==
    /\ Cardinality(LogsOn(chain)) <= MaxRetainedLogs
    /\ IF head = None
       THEN /\ Number[chain] - DeploymentBlock + 1 <= MaxBlockSpan
            /\ Cardinality(LogsOn(chain)) <= MaxLogsPerSync
       ELSE /\ Cardinality(Branch[head] \ Branch[chain]) <= MaxReorgDepth
            /\ Number[chain] <= Number[head] + MaxBlockSpan
            /\ Cardinality(LogsOn(chain) \ Branch[head]) <= MaxLogsPerSync

(* The header of the last common block has not been dropped. *)
AncestorKept ==
    head # None =>
        \A b \in Branch[head] \cap Branch[chain] :
            \/ Number[b] < DeploymentBlock
            \/ b \in headers
            \/ \E c \in Branch[head] \cap Branch[chain] : Number[c] > Number[b]

Arrives == <>[](Number[chain] >= DeploymentBlock => head = chain)

(* Once the chain stands still and outages have ended, the observer        *)
(* arrives at the head of the chain, from whatever it had accepted before  *)
(* and whatever synchronization was under way, if the chain is within the  *)
(* limits and the last common header is still retained.                    *)
CatchesUp == Quiescent /\ <>[](WithinLimits /\ AncestorKept) => Arrives

(* The constructor demands that more headers are retained than blocks may  *)
(* be replaced ("retained headers must exceed the maximum reorg depth"),   *)
(* so that the limits alone decide.  They do not: after the head has moved *)
(* back, the dropped headers below it are missing.                         *)
LimitsDecide == Quiescent /\ <>[]WithinLimits => Arrives
=============================================================================
