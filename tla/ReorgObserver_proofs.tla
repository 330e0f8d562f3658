-------------------------- MODULE ReorgObserver_proofs --------------------------
(***************************************************************************)
(* Whatever the chain does between the reads, the observer's accepted      *)
(* state lies on one branch: for every block tree and every choice of the  *)
(* limits.                                                                 *)
(*                                                                         *)
(* OneBranch is not inductive: the last read replaces the accepted state   *)
(* by what earlier reads collected, so InFlight says what that is.  The    *)
(* two together with TypeOK are inductive.                                 *)
(*                                                                         *)
(* DepthKept adds that the depth compared when loading began is that of    *)
(* the head still accepted when it ends, which bounds a rollback; Tracked  *)
(* adds that what an operation follows is on the chain or gone, which,     *)
(* when no branch returns, makes logs complete and reads fit together.     *)
(***************************************************************************)
EXTENDS ReorgObserverProps, FiniteSetTheorems, TLAPS

IInv == TypeOK /\ OneBranch /\ InFlight

-----------------------------------------------------------------------------
(* The branch of an ancestor is the lower part of the branch. *)
LEMMA Ancestors ==
    ASSUME NEW b \in Blocks, NEW c \in Branch[b]
    PROVE  /\ c \in Blocks
           /\ b \in Branch[b]
           /\ Number[b] \in Nat /\ Number[c] \in Nat
           /\ Branch[c] \subseteq Branch[b]
           /\ Branch[c] = Upto(Branch[b], Number[c])
           /\ Number[c] <= Number[b]
           /\ \A d \in Branch[b] : Number[d] = Number[c] => d = c
<1>1. c \in Blocks /\ b \in Branch[b] /\ Number[b] \in Nat /\ Number[c] \in Nat
  BY TreeAssumption
<1>2. /\ Branch[c] = {d \in Branch[b] : Number[d] <= Number[c]}
      /\ Branch[b] = {d \in Branch[b] : Number[d] <= Number[b]}
  BY TreeAssumption
<1>3. \A d \in Branch[b] : Number[d] = Number[c] => d = c
  BY TreeAssumption
<1> QED
  BY <1>1, <1>2, <1>3 DEF Upto

(* A block on the branch of its child: one more header on an unbroken run. *)
LEMMA OneMore ==
    ASSUME NEW b \in Blocks, NEW p \in Blocks, Extends(b, p),
           NEW n \in Nat, n <= Number[p]
    PROVE  /\ Above(Branch[b], n) = Above(Branch[p], n) \cup {b}
           /\ Branch[p] \subseteq Branch[b]
           /\ Upto(Branch[b], n) = Upto(Branch[p], n)
<1>1. p \in Branch[b] /\ Number[b] = Number[p] + 1
  BY DEF Extends
<1>2. /\ b \in Branch[b] /\ Branch[p] \subseteq Branch[b]
      /\ Branch[p] = Upto(Branch[b], Number[p])
      /\ Number[b] \in Nat /\ Number[p] \in Nat
  BY <1>1, Ancestors
<1>3. \A d \in Branch[b] : /\ Number[d] \in Nat /\ Number[d] <= Number[b]
                           /\ Number[d] = Number[b] => d = b
  BY <1>2, Ancestors
<1>4. \A d \in Branch[b] : d \in Branch[p] \/ d = b
  BY <1>1, <1>2, <1>3 DEF Upto
<1> QED
  BY <1>1, <1>2, <1>3, <1>4 DEF Above, Upto

-----------------------------------------------------------------------------
(* Starting to load above an ancestor that is both accepted and new, or    *)
(* above nothing, establishes what InFlight says. *)
LEMMA ReloadInFlight ==
    ASSUME TypeOK, OneBranch,
           NEW latest \in Blocks, NEW ancestor \in Blocks \cup {None},
           Number[latest] >= DeploymentBlock,
           ancestor # None => ancestor \in headers /\ ancestor \in Branch[latest],
           sync' = Reload(latest, ancestor), UNCHANGED observed
    PROVE  sync' \in Sync /\ InFlight'
<1> DEFINE retained == IF ancestor = None THEN BeforeDeployment ELSE Number[ancestor]
<1>1. headers' = headers /\ logs' = logs /\ head' = head
  BY DEF observed
<1>2. /\ DeploymentBlock \in Nat \ {0} /\ None \notin Blocks
      /\ Number[latest] \in Nat
  BY LimitsAssumption, TreeAssumption
<1>3. ancestor # None =>
        /\ head # None /\ head \in Blocks
        /\ ancestor \in Above(Branch[head], DeploymentBlock - 1)
        /\ Number[ancestor] \in Nat
        /\ Number[ancestor] <= Number[latest]
        /\ Number[ancestor] = Number[latest] => ancestor = latest
        /\ Branch[ancestor] = Upto(Branch[latest], Number[ancestor])
        /\ Branch[ancestor] = Upto(Branch[head], Number[ancestor])
  <2> SUFFICES ASSUME ancestor # None
               PROVE  /\ head # None /\ head \in Blocks
                      /\ ancestor \in Above(Branch[head], DeploymentBlock - 1)
                      /\ Number[ancestor] \in Nat
                      /\ Number[ancestor] <= Number[latest]
                      /\ Number[ancestor] = Number[latest] => ancestor = latest
                      /\ Branch[ancestor] = Upto(Branch[latest], Number[ancestor])
                      /\ Branch[ancestor] = Upto(Branch[head], Number[ancestor])
    OBVIOUS
  <2>1. head # None /\ head \in Blocks /\ ancestor \in Above(Branch[head], DeploymentBlock - 1)
    BY DEF OneBranch, TypeOK
  <2>2. ancestor \in Branch[head] /\ ancestor \in Branch[latest]
    BY <2>1 DEF Above
  <2>3. latest \in Branch[latest]
    BY TreeAssumption
  <2> QED
    BY <2>1, <2>2, <2>3, Ancestors
<1>4. retained \in Nat /\ DeploymentBlock - 1 <= retained /\ retained <= Number[latest]
  BY <1>2, <1>3 DEF BeforeDeployment, Above
<1>5. CASE ~DepthAllowed(retained)
  <2>1. sync' = Idle
    BY <1>5 DEF Reload
  <2> QED
    BY <2>1 DEF Idle, Sync, InFlight
<1>6. CASE DepthAllowed(retained) /\ retained < Number[latest]
  <2>1. sync' = [at |-> "header", latest |-> latest, retained |-> retained,
                 previous |-> ancestor, loaded |-> {}]
    BY <1>6 DEF Reload
  <2>2. /\ sync'.at = "header" /\ sync'.latest = latest /\ sync'.retained = retained
        /\ sync'.previous = ancestor /\ sync'.loaded = {}
    BY <2>1
  <2>3. sync' \in Sync
    BY <2>1, <1>4 DEF Sync
  <2>4. LoadedHeight' = retained
    BY <2>2 DEF LoadedHeight
  <2>5. ancestor # None =>
          /\ {} = Above(Branch[ancestor], retained)
          /\ Upto(headers, retained) \subseteq Branch[ancestor]
          /\ Upto(logs, retained) \subseteq Branch[ancestor]
          /\ head # None
          /\ Upto(Branch[ancestor], retained) \subseteq Branch[head]
    <3> SUFFICES ASSUME ancestor # None
                 PROVE  /\ {} = Above(Branch[ancestor], retained)
                        /\ Upto(headers, retained) \subseteq Branch[ancestor]
                        /\ Upto(logs, retained) \subseteq Branch[ancestor]
                        /\ head # None
                        /\ Upto(Branch[ancestor], retained) \subseteq Branch[head]
      OBVIOUS
    <3>1. \A d \in Branch[latest] : Number[d] \in Nat
      BY Ancestors
    <3>2. headers \subseteq Branch[head] /\ logs \subseteq Branch[head]
      BY <1>3 DEF OneBranch, Above, LogsOn
    <3> QED
      BY <1>3, <3>1, <3>2 DEF Above, Upto
  <2>6. ancestor = None => retained = DeploymentBlock - 1
    BY DEF BeforeDeployment
  <2>7. InFlight'
    BY <1>1, <1>4, <1>6, <2>2, <2>4, <2>5, <2>6 DEF InFlight
  <2> QED
    BY <2>3, <2>7
<1>7. CASE DepthAllowed(retained) /\ ~(retained < Number[latest])
  <2>1. sync' = [at |-> "anchor", latest |-> latest, retained |-> retained,
                 loaded |-> {}, fetched |-> {}]
    BY <1>7 DEF Reload
  <2>2. /\ sync'.at = "anchor" /\ sync'.latest = latest /\ sync'.retained = retained
        /\ sync'.loaded = {} /\ sync'.fetched = {}
    BY <2>1
  <2>3. sync' \in Sync
    BY <2>1, <1>4 DEF Sync
  <2>4. retained = Number[latest] /\ ancestor # None /\ ancestor = latest
    BY <1>2, <1>3, <1>4, <1>7 DEF BeforeDeployment
  <2>5. \A d \in Branch[latest] : Number[d] \in Nat /\ Number[d] <= Number[latest]
    BY Ancestors
  <2>6. headers \subseteq Branch[head] /\ logs \subseteq Branch[head]
    BY <1>3, <2>4 DEF OneBranch, Above, LogsOn
  <2>7. /\ {} = Above(Branch[latest], retained)
        /\ Upto(headers, retained) \subseteq Branch[latest]
        /\ Upto(logs, retained) \subseteq Branch[latest]
        /\ head # None
        /\ Upto(Branch[latest], retained) \subseteq Branch[head]
        /\ latest \in headers
    BY <1>3, <2>4, <2>5, <2>6 DEF Above, Upto
  <2>8. InFlight'
    BY <1>1, <1>4, <2>2, <2>7 DEF InFlight
  <2> QED
    BY <2>3, <2>8
<1> QED
  BY <1>5, <1>6, <1>7

(* So does going on with the search for an ancestor. *)
LEMMA SearchInFlight ==
    ASSUME TypeOK, OneBranch, head # None,
           NEW latest \in Blocks, NEW candidate \in Branch[latest],
           Number[latest] >= DeploymentBlock,
           sync' = Search(latest, candidate), UNCHANGED observed
    PROVE  sync' \in Sync /\ InFlight'
<1>1. candidate \in Blocks
  BY TreeAssumption
<1>2. CASE candidate \in headers
  BY <1>1, <1>2, ReloadInFlight, TreeAssumption DEF Search
<1>3. CASE sync' = Reload(latest, None)
  BY <1>3, ReloadInFlight
<1>4. CASE sync' = Idle
  BY <1>4 DEF Idle, Sync, InFlight
<1>5. CASE sync' = [at |-> "ancestor", latest |-> latest, candidate |-> candidate]
  <2>1. sync' \in Sync
    BY <1>1, <1>5 DEF Sync
  <2>2. /\ sync'.at = "ancestor" /\ sync'.latest = latest /\ sync'.candidate = candidate
        /\ head' # None
    BY <1>5 DEF observed
  <2>3. InFlight'
    BY <2>2 DEF InFlight
  <2> QED
    BY <2>1, <2>3
<1> QED
  BY <1>2, <1>3, <1>4, <1>5 DEF Search

-----------------------------------------------------------------------------
LEMMA ReadHeadStep == ASSUME IInv, ReadHead PROVE sync' \in Sync /\ InFlight'
<1>1. PICK b \in Blocks : /\ IsCanonical(b, sync.number)
                          /\ sync' = IF head = None THEN Reload(b, None) ELSE Search(b, b)
  BY DEF ReadHead
<1>2. Number[b] >= DeploymentBlock /\ UNCHANGED observed
  BY <1>1 DEF IsCanonical, ReadHead, IInv, InFlight
<1>3. CASE head = None
  BY <1>1, <1>2, <1>3, ReloadInFlight DEF IInv
<1>4. CASE head # None
  BY <1>1, <1>2, <1>4, SearchInFlight, TreeAssumption DEF IInv
<1> QED
  BY <1>3, <1>4

LEMMA ReadAncestorStep == ASSUME IInv, ReadAncestor PROVE sync' \in Sync /\ InFlight'
<1>1. /\ sync.latest \in Blocks /\ sync.candidate \in Branch[sync.latest] /\ head # None
      /\ Number[sync.latest] >= DeploymentBlock /\ sync.candidate \in Blocks
  BY TreeAssumption DEF ReadAncestor, IInv, TypeOK, Sync, InFlight, Idle
<1>2. PICK b \in Blocks : Extends(sync.candidate, b) /\ sync' = Search(sync.latest, b)
  BY DEF ReadAncestor
<1>3. b \in Branch[sync.latest]
  BY <1>1, <1>2, Ancestors DEF Extends
<1> QED
  BY <1>1, <1>2, <1>3, SearchInFlight DEF IInv, ReadAncestor

LEMMA ReadHeaderStep == ASSUME IInv, ReadHeader PROVE sync' \in Sync /\ InFlight'
<1>1. /\ sync.at = "header" /\ sync.latest \in Blocks /\ sync.retained \in Nat
      /\ sync.previous \in Blocks \cup {None} /\ sync.loaded \subseteq Blocks
  BY DEF ReadHeader, IInv, TypeOK, Sync, Idle
<1>2. /\ DeploymentBlock - 1 <= sync.retained
      /\ sync.retained <= LoadedHeight /\ LoadedHeight < Number[sync.latest]
      /\ IF sync.previous = None
         THEN sync.loaded = {} /\ sync.retained = DeploymentBlock - 1
         ELSE /\ sync.loaded = Above(Branch[sync.previous], sync.retained)
              /\ Upto(headers, sync.retained) \subseteq Branch[sync.previous]
              /\ Upto(logs, sync.retained) \subseteq Branch[sync.previous]
              /\ sync.retained >= DeploymentBlock =>
                   /\ head # None
                   /\ Upto(Branch[sync.previous], sync.retained) \subseteq Branch[head]
  BY <1>1 DEF IInv, InFlight
<1>3. PICK b \in Blocks :
        /\ IsCanonical(b, LoadedHeight + 1)
        /\ Linked(b, sync.latest, sync.previous)
        /\ sync' = [sync EXCEPT !.at = IF b = sync.latest THEN "logs" ELSE "header",
                                !.previous = b, !.loaded = @ \cup {b}]
  BY DEF ReadHeader
<1>4. sync' = [at |-> IF b = sync.latest THEN "logs" ELSE "header", latest |-> sync.latest,
               retained |-> sync.retained, previous |-> b, loaded |-> sync.loaded \cup {b}]
  <2>1. sync \in [at: {"header", "logs"}, latest: Blocks, retained: Nat,
                  previous: Blocks \cup {None}, loaded: SUBSET Blocks]
    BY <1>1 DEF IInv, TypeOK, Sync, Idle
  <2> QED
    BY <1>3, <2>1
<1>5. /\ sync'.latest = sync.latest /\ sync'.retained = sync.retained
      /\ sync'.previous = b /\ sync'.loaded = sync.loaded \cup {b}
      /\ sync'.at = IF b = sync.latest THEN "logs" ELSE "header"
  BY <1>4
<1>6. headers' = headers /\ logs' = logs /\ head' = head
  BY DEF ReadHeader, observed
<1>7. sync' \in Sync
  BY <1>1, <1>4 DEF Sync
<1>8. /\ Number[b] \in Nat /\ Number[b] = LoadedHeight + 1 /\ b # None
      /\ DeploymentBlock \in Nat \ {0} /\ Number[sync.latest] \in Nat
      /\ LoadedHeight \in Nat
  BY <1>1, <1>3, TreeAssumption, LimitsAssumption DEF IsCanonical, LoadedHeight, BeforeDeployment
<1>9. /\ sync.loaded \cup {b} = Above(Branch[b], sync.retained)
      /\ Upto(headers, sync.retained) \subseteq Branch[b]
      /\ Upto(logs, sync.retained) \subseteq Branch[b]
      /\ sync.retained >= DeploymentBlock =>
           /\ head # None
           /\ Upto(Branch[b], sync.retained) \subseteq Branch[head]
  <2>1. CASE sync.previous = None
    <3>1. sync.loaded = {} /\ sync.retained = DeploymentBlock - 1
          /\ Number[b] = DeploymentBlock
      BY <1>2, <1>8, <2>1 DEF LoadedHeight, BeforeDeployment
    <3>2. \A d \in Branch[b] : /\ Number[d] \in Nat /\ Number[d] <= Number[b]
                               /\ Number[d] = Number[b] => d = b
      BY Ancestors
    <3>3. Above(Branch[b], sync.retained) = {b}
      BY <1>8, <3>1, <3>2, TreeAssumption DEF Above
    <3>4. Upto(headers, sync.retained) = {}
      BY <3>1, <1>8, TreeAssumption DEF IInv, TypeOK, OneBranch, Upto, Above
    <3>5. Upto(logs, sync.retained) = {}
      BY <3>1, <1>8, TreeAssumption DEF IInv, TypeOK, OneBranch, Upto, LogsOn
    <3> QED
      BY <1>8, <3>1, <3>3, <3>4, <3>5
  <2>2. CASE sync.previous # None
    <3>1. sync.previous \in Blocks /\ Extends(b, sync.previous)
          /\ sync.retained <= Number[sync.previous]
      BY <1>1, <1>2, <1>3, <2>2 DEF Linked, LoadedHeight
    <3>2. /\ Above(Branch[b], sync.retained) = Above(Branch[sync.previous], sync.retained) \cup {b}
          /\ Branch[sync.previous] \subseteq Branch[b]
          /\ Upto(Branch[b], sync.retained) = Upto(Branch[sync.previous], sync.retained)
      BY <1>1, <3>1, OneMore
    <3> QED
      BY <1>2, <2>2, <3>2
  <2> QED
    BY <2>1, <2>2
<1>10. LoadedHeight' = Number[b]
  BY <1>5, <1>8 DEF LoadedHeight
<1>11. CASE b = sync.latest
  <2>1. sync'.at = "logs" /\ sync.retained <= Number[sync.latest]
        /\ sync.retained # Number[sync.latest]
    BY <1>1, <1>2, <1>5, <1>8, <1>11
  <2> QED
    BY <1>2, <1>5, <1>6, <1>7, <1>9, <1>11, <2>1 DEF InFlight
<1>12. CASE b # sync.latest
  <2>1. /\ sync'.at = "header" /\ Number[b] < Number[sync.latest]
        /\ sync.retained <= Number[b]
        /\ sync.retained <= Number[sync.latest] /\ sync.retained # Number[sync.latest]
    BY <1>1, <1>2, <1>3, <1>5, <1>8, <1>12 DEF Linked
  <2> QED
    BY <1>2, <1>5, <1>6, <1>7, <1>8, <1>9, <1>10, <2>1 DEF InFlight
<1> QED
  BY <1>11, <1>12

LEMMA ReadLogsStep == ASSUME IInv, ReadLogs PROVE sync' \in Sync /\ InFlight'
<1>1. /\ sync.at = "logs" /\ sync.latest \in Blocks /\ sync.retained \in Nat
      /\ sync.loaded \subseteq Blocks
  BY DEF ReadLogs, IInv, TypeOK, Sync, Idle
<1>2. PICK fetched : /\ fetched = Above(Upto(Branch[chain] \cap Carries, Number[sync.latest]),
                                        sync.retained)
                     /\ Anchored(fetched, NextHeaders)
                     /\ sync' = [at |-> "anchor", latest |-> sync.latest,
                                 retained |-> sync.retained, loaded |-> sync.loaded,
                                 fetched |-> fetched]
  BY DEF ReadLogs
<1>3. fetched \subseteq sync.loaded \cap Carries
  <2> SUFFICES ASSUME NEW d \in fetched PROVE d \in sync.loaded /\ d \in Carries
    OBVIOUS
  <2>1. d \in Carries /\ Number[d] > sync.retained
    BY <1>2 DEF Above, Upto
  <2>2. d \in Blocks /\ Number[d] \in Nat
    BY <2>1, TreeAssumption
  <2>3. d \in Upto(headers, sync.retained) \/ d \in sync.loaded
    BY <1>2 DEF Anchored, NextHeaders
  <2> QED
    BY <1>1, <2>1, <2>2, <2>3 DEF Upto
<1>4. sync' \in Sync
  BY <1>1, <1>2, <1>3 DEF Sync
<1>5. /\ sync'.at = "anchor" /\ sync'.latest = sync.latest /\ sync'.retained = sync.retained
      /\ sync'.loaded = sync.loaded /\ sync'.fetched = fetched
  BY <1>2
<1>6. headers' = headers /\ logs' = logs /\ head' = head
  BY DEF ReadLogs, observed
<1> QED
  BY <1>1, <1>3, <1>4, <1>5, <1>6 DEF IInv, InFlight

(* The last read: what was collected becomes the accepted state. *)
LEMMA CommitStep ==
    ASSUME IInv, ReadAnchorAndCommit
    PROVE  /\ headers' \subseteq Blocks /\ logs' \subseteq Blocks /\ head' \in Blocks
           /\ OneBranch'
<1> DEFINE latest == sync.latest
           retained == sync.retained
<1>1. /\ sync.at = "anchor" /\ latest \in Blocks /\ retained \in Nat
      /\ sync.loaded \subseteq Blocks /\ sync.fetched \subseteq Blocks
  BY DEF ReadAnchorAndCommit, IInv, TypeOK, Sync, Idle
<1>2. /\ DeploymentBlock - 1 <= retained /\ retained <= Number[latest]
      /\ retained = Number[latest] => latest \in headers
      /\ sync.loaded = Above(Branch[latest], retained)
      /\ Upto(headers, retained) \subseteq Branch[latest]
      /\ Upto(logs, retained) \subseteq Branch[latest]
      /\ retained >= DeploymentBlock =>
           head # None /\ Upto(Branch[latest], retained) \subseteq Branch[head]
      /\ sync.fetched \subseteq sync.loaded \cap Carries
  BY <1>1 DEF IInv, InFlight
<1>3. /\ headers' = Above(NextHeaders, Number[latest] - MaxRetainedHeaders)
      /\ logs' = Upto(logs, retained) \cup sync.fetched
      /\ head' = latest
  BY DEF ReadAnchorAndCommit, RetainedHeaders
<1>4. /\ DeploymentBlock \in Nat \ {0} /\ MaxRetainedHeaders \in Nat /\ MaxRetainedHeaders > 0
      /\ Number[latest] \in Nat /\ None \notin Blocks /\ latest \in Branch[latest]
      /\ headers \subseteq Blocks /\ logs \subseteq Blocks
  BY <1>1, LimitsAssumption, TreeAssumption DEF IInv, TypeOK
<1>5. \A d \in Blocks : Number[d] \in Nat
  BY TreeAssumption
<1>6. Branch[latest] \subseteq Blocks
  BY <1>1, Ancestors
<1>7. \A d \in headers : Number[d] > DeploymentBlock - 1
  BY DEF IInv, OneBranch, Above
<1>8. \A d \in logs : d \in Carries /\ Number[d] >= DeploymentBlock
  BY DEF IInv, OneBranch, LogsOn
<1>9. NextHeaders = Upto(headers, retained) \cup Above(Branch[latest], retained)
  BY <1>2 DEF NextHeaders
<1>10. latest \in headers'
  <2>1. latest \in NextHeaders
    BY <1>1, <1>2, <1>4, <1>9 DEF Upto, Above
  <2> QED
    BY <1>3, <1>4, <2>1 DEF Above
<1>11. headers' \subseteq Above(Branch[latest], DeploymentBlock - 1)
  BY <1>1, <1>2, <1>3, <1>4, <1>5, <1>6, <1>7, <1>9 DEF Upto, Above
<1>12. logs' \subseteq LogsOn(latest)
  <2>1. Upto(logs, retained) \subseteq LogsOn(latest)
    BY <1>2, <1>8 DEF Upto, LogsOn
  <2>2. sync.fetched \subseteq LogsOn(latest)
    BY <1>1, <1>2, <1>4, <1>5, <1>6 DEF Above, LogsOn
  <2> QED
    BY <1>3, <2>1, <2>2
<1>13. \A b \in Branch[latest] \ headers', c \in headers' : Number[b] < Number[c]
  <2> SUFFICES ASSUME NEW b \in Branch[latest], b \notin headers', NEW c \in headers',
                      ~(Number[b] < Number[c])
               PROVE  FALSE
    OBVIOUS
  <2>1. /\ c \in NextHeaders /\ Number[c] > Number[latest] - MaxRetainedHeaders
        /\ b \in Blocks /\ c \in Blocks /\ Number[b] \in Nat /\ Number[c] \in Nat
    BY <1>3, <1>4, <1>5, <1>6, <1>9 DEF Above, Upto
  <2>2. b \notin NextHeaders
    BY <1>3, <1>4, <2>1 DEF Above
  <2>3. Number[b] <= retained
    BY <1>1, <1>9, <2>1, <2>2 DEF Above
  <2>4. c \in headers /\ Number[c] <= retained
    BY <1>1, <1>9, <2>1, <2>3 DEF Upto, Above
  <2>5. retained >= DeploymentBlock
    BY <1>1, <1>4, <1>7, <2>1, <2>4
  <2>6. head # None /\ b \in Branch[head]
    BY <1>2, <2>3, <2>5 DEF Upto
  <2>7. b \notin headers
    BY <1>9, <2>2, <2>3 DEF Upto
  <2> QED
    BY <2>1, <2>4, <2>6, <2>7 DEF IInv, OneBranch
<1>14. headers' \subseteq Blocks /\ logs' \subseteq Blocks /\ head' \in Blocks
  BY <1>1, <1>3, <1>6, <1>11, <1>12 DEF Above, LogsOn
<1>15. head' # None
  BY <1>4, <1>14
<1> QED
  BY <1>3, <1>10, <1>11, <1>12, <1>13, <1>14, <1>15 DEF OneBranch

-----------------------------------------------------------------------------
LEMMA InitIInv == Init => IInv
<1> SUFFICES ASSUME Init PROVE IInv
  OBVIOUS
<1> QED
  BY TreeAssumption DEF Init, Idle, IInv, TypeOK, OneBranch, InFlight, Sync, Reading

(* Steps of the synchronization short of the last read leave the accepted  *)
(* state alone.                                                            *)
LEMMA SyncStepInvariant ==
    ASSUME IInv, SyncStep
    PROVE  /\ sync' \in Sync /\ InFlight'
           /\ headers' \subseteq Blocks /\ logs' \subseteq Blocks
           /\ head' \in Blocks \cup {None} /\ OneBranch'
<1>1. ASSUME UNCHANGED observed
      PROVE  /\ headers' \subseteq Blocks /\ logs' \subseteq Blocks
             /\ head' \in Blocks \cup {None} /\ OneBranch'
  BY <1>1 DEF observed, IInv, TypeOK, OneBranch
<1>2. CASE ReadBlockNumber
  <2>1. sync' = [at |-> "head", number |-> Number[chain]] /\ Number[chain] >= DeploymentBlock
    BY <1>2 DEF ReadBlockNumber
  <2>2. Number[chain] \in Nat
    BY TreeAssumption DEF IInv, TypeOK
  <2>3. sync' \in Sync
    BY <2>1, <2>2 DEF Sync
  <2>4. sync'.at = "head" /\ sync'.number = Number[chain]
    BY <2>1
  <2> QED
    BY <1>1, <1>2, <2>1, <2>3, <2>4 DEF ReadBlockNumber, InFlight
<1>3. CASE ReadHead
  BY <1>1, <1>3, ReadHeadStep DEF ReadHead
<1>4. CASE ReadAncestor
  BY <1>1, <1>4, ReadAncestorStep DEF ReadAncestor
<1>5. CASE ReadHeader
  BY <1>1, <1>5, ReadHeaderStep DEF ReadHeader
<1>6. CASE ReadLogs
  BY <1>1, <1>6, ReadLogsStep DEF ReadLogs
<1>7. CASE ReadAnchorAndCommit
  <2>1. sync' = Idle
    BY <1>7 DEF ReadAnchorAndCommit
  <2>2. sync' \in Sync /\ InFlight'
    BY <2>1 DEF Idle, Sync, InFlight
  <2> QED
    BY <1>7, <2>2, CommitStep
<1>8. CASE SyncFails
  <2>1. sync' = Idle /\ UNCHANGED observed
    BY <1>8 DEF SyncFails
  <2>2. sync' \in Sync /\ InFlight'
    BY <2>1 DEF Idle, Sync, InFlight
  <2> QED
    BY <1>1, <2>1, <2>2
<1> QED
  BY <1>2, <1>3, <1>4, <1>5, <1>6, <1>7, <1>8 DEF SyncStep, SyncProceeds

(* A reconciliation only reads what the observer has accepted. *)
LEMMA ReadingTyped ==
    ASSUME IInv, FreezeSnapshot \/ ReconcileStep
    PROVE  reading' \in Reading
<1>1. CASE FreezeSnapshot
  BY <1>1 DEF FreezeSnapshot, Reading, IInv, TypeOK
<1>2. CASE ReadDirectState
  BY <1>2 DEF ReadDirectState, Reading, IInv, TypeOK, Idle
<1>3. CASE ReadAnchorAndReturn
  BY <1>3 DEF ReadAnchorAndReturn, FrozenLogs, Reading, IInv, TypeOK, Idle
<1>4. CASE ReconcileFails
  BY <1>4 DEF ReconcileFails, Reading
<1> QED
  BY <1>1, <1>2, <1>3, <1>4 DEF ReconcileStep

LEMMA NextIInv == IInv /\ [Next]_vars => IInv'
<1> SUFFICES ASSUME IInv, [Next]_vars PROVE IInv'
  OBVIOUS
<1>1. ASSUME UNCHANGED <<observed, sync>>
      PROVE  /\ sync' \in Sync /\ headers' \subseteq Blocks /\ logs' \subseteq Blocks
             /\ head' \in Blocks \cup {None} /\ OneBranch' /\ InFlight'
  BY <1>1 DEF observed, IInv, TypeOK, OneBranch, InFlight, LoadedHeight
<1>2. CASE UNCHANGED vars
  BY <1>1, <1>2 DEF vars, IInv, TypeOK
<1>3. ASSUME NEW b \in Blocks, ChangeChain(b) PROVE IInv'
  <2>1. /\ chain' = b /\ UNCHANGED <<observed, sync>> /\ reading' = reading
        /\ gone' = IF Quiet \/ Returns THEN {} ELSE gone \cup (Branch[chain] \ Branch[b])
    BY <1>3 DEF ChangeChain
  <2>2. gone' \subseteq Blocks
    BY <2>1, TreeAssumption DEF IInv, TypeOK
  <2> QED
    BY <1>1, <2>1, <2>2 DEF IInv, TypeOK
<1>4. CASE SyncStep /\ gone' = IF Quiet' THEN {} ELSE gone
  <2>1. chain' = chain /\ reading' = reading
    BY <1>4 DEF SyncStep, SyncProceeds, ReadBlockNumber, ReadHead, ReadAncestor, ReadHeader,
                ReadLogs, ReadAnchorAndCommit, SyncFails
  <2> QED
    BY <1>4, <2>1, SyncStepInvariant DEF IInv, TypeOK
<1>5. CASE ReconcileStep /\ gone' = IF Quiet' THEN {} ELSE gone
  <2>1. chain' = chain /\ UNCHANGED <<observed, sync>>
    BY <1>5 DEF ReconcileStep, ReadDirectState, ReadAnchorAndReturn, ReconcileFails
  <2> QED
    BY <1>1, <1>5, <2>1, ReadingTyped DEF IInv, TypeOK
<1>6. CASE FreezeSnapshot /\ gone' = IF Returns THEN {} ELSE Branch[head] \ Branch[chain]
  <2>1. chain' = chain /\ UNCHANGED <<observed, sync>> /\ head # None
    BY <1>6 DEF FreezeSnapshot
  <2>2. gone' \subseteq Blocks
    BY <1>6, <2>1, TreeAssumption DEF IInv, TypeOK
  <2> QED
    BY <1>1, <1>6, <2>1, <2>2, ReadingTyped DEF IInv, TypeOK
<1> QED
  BY <1>2, <1>3, <1>4, <1>5, <1>6 DEF Next

(* The observer's variables, its heights included, keep their types. *)
THEOREM ObserverTypeCorrect == Spec => []TypeOK
<1>1. IInv => TypeOK
  BY DEF IInv
<1> QED
  BY InitIInv, NextIInv, <1>1, PTL DEF Spec

(* Whatever the chain does between the reads of whatever synchronization,  *)
(* the accepted headers are an unbroken run up to the head on one branch   *)
(* and every accepted log lies on that branch: for every block tree, every *)
(* setting of the limits and branches that come and go at will.            *)
THEOREM AcceptedOnOneBranch == Spec => []OneBranch
<1>1. IInv => OneBranch
  BY DEF IInv
<1> QED
  BY InitIInv, NextIInv, <1>1, PTL DEF Spec

(* What a synchronization has collected fits together at every read. *)
THEOREM CollectedFitsTogether == Spec => []InFlight
<1>1. IInv => InFlight
  BY DEF IInv
<1> QED
  BY InitIInv, NextIInv, <1>1, PTL DEF Spec

-----------------------------------------------------------------------------
(* A synchronization that loads anything gives up no more heights than     *)
(* configured. *)
DepthKept ==
    sync.at \in {"header", "logs", "anchor"} /\ head # None =>
        Number[head] - sync.retained <= MaxReorgDepth

LEMMA ReloadDepth ==
    ASSUME NEW latest, NEW ancestor, sync' = Reload(latest, ancestor), head' = head
    PROVE  DepthKept'
<1> DEFINE retained == IF ancestor = None THEN BeforeDeployment ELSE Number[ancestor]
<1>1. CASE ~DepthAllowed(retained)
  <2>1. sync'.at = "idle"
    BY <1>1 DEF Reload, Idle
  <2> QED
    BY <2>1 DEF DepthKept
<1>2. CASE DepthAllowed(retained)
  <2>1. sync'.retained = retained
    BY <1>2 DEF Reload
  <2> QED
    BY <1>2, <2>1 DEF DepthKept, DepthAllowed
<1> QED
  BY <1>1, <1>2

LEMMA SearchDepth ==
    ASSUME NEW latest, NEW candidate, sync' = Search(latest, candidate), head' = head
    PROVE  DepthKept'
<1>1. ASSUME NEW ancestor, sync' = Reload(latest, ancestor)
      PROVE  DepthKept'
  BY <1>1, ReloadDepth
<1>2. ASSUME sync'.at \in {"idle", "ancestor"}
      PROVE  DepthKept'
  BY <1>2 DEF DepthKept
<1>3. \/ sync' = Reload(latest, candidate)
      \/ sync' = Reload(latest, None)
      \/ sync'.at \in {"idle", "ancestor"}
  BY DEF Search, Idle
<1> QED
  BY <1>1, <1>2, <1>3

LEMMA DepthStep == IInv /\ DepthKept /\ [Next]_vars => DepthKept'
<1> SUFFICES ASSUME IInv, DepthKept, [Next]_vars
             PROVE  DepthKept'
  OBVIOUS
<1>1. CASE UNCHANGED <<head, sync>>
  BY <1>1 DEF DepthKept
<1>2. CASE ReadBlockNumber \/ SyncFails \/ ReadAnchorAndCommit
  <2>1. sync'.at \in {"head", "idle"}
    BY <1>2 DEF ReadBlockNumber, SyncFails, ReadAnchorAndCommit, Idle
  <2> QED
    BY <2>1 DEF DepthKept
<1>3. CASE ReadHead
  <2>1. head' = head
    BY <1>3 DEF ReadHead, observed
  <2>2. PICK b \in Blocks : sync' = IF head = None THEN Reload(b, None) ELSE Search(b, b)
    BY <1>3 DEF ReadHead
  <2> QED
    BY <2>1, <2>2, ReloadDepth, SearchDepth
<1>4. CASE ReadAncestor
  <2>1. head' = head
    BY <1>4 DEF ReadAncestor, observed
  <2>2. PICK b \in Blocks : sync' = Search(sync.latest, b)
    BY <1>4 DEF ReadAncestor
  <2> QED
    BY <2>1, <2>2, SearchDepth
<1>5. CASE ReadHeader
  <2>1. head' = head /\ sync.at = "header"
    BY <1>5 DEF ReadHeader, observed
  <2>2. sync \in [at: {"header", "logs"}, latest: Blocks, retained: Nat,
                  previous: Blocks \cup {None}, loaded: SUBSET Blocks]
    BY <2>1 DEF IInv, TypeOK, Sync, Idle
  <2>3. sync'.retained = sync.retained
    BY <1>5, <2>2 DEF ReadHeader
  <2> QED
    BY <2>1, <2>3 DEF DepthKept
<1>6. CASE ReadLogs
  <2>1. head' = head /\ sync.at = "logs" /\ sync'.retained = sync.retained
    BY <1>6 DEF ReadLogs, observed
  <2> QED
    BY <2>1 DEF DepthKept
<1> QED
  BY <1>1, <1>2, <1>3, <1>4, <1>5, <1>6
     DEF Next, vars, observed, ChangeChain, SyncStep, SyncProceeds, ReconcileStep,
         ReadDirectState, ReadAnchorAndReturn, ReconcileFails, FreezeSnapshot

(* What a commit gives up lies above the retained height. *)
LEMMA GivenUp ==
    ASSUME IInv, DepthKept, ReadAnchorAndCommit, head # None
    PROVE  Cardinality(Above(Branch[head] \ Branch[head'], DeploymentBlock - 1)) <= MaxReorgDepth
<1> DEFINE lost == Above(Branch[head] \ Branch[sync.latest], DeploymentBlock - 1)
           low  == sync.retained + 1
<1>1. sync.at = "anchor" /\ head' = sync.latest
  BY DEF ReadAnchorAndCommit
<1>2. /\ head \in Blocks /\ sync.latest \in Blocks /\ sync.retained \in Nat
      /\ Number[head] - sync.retained <= MaxReorgDepth
  BY <1>1 DEF IInv, TypeOK, Sync, Idle, DepthKept
<1>3. /\ DeploymentBlock - 1 <= sync.retained
      /\ sync.retained <= Number[sync.latest]
      /\ sync.retained >= DeploymentBlock =>
           Upto(Branch[sync.latest], sync.retained) \subseteq Branch[head]
  BY <1>1 DEF IInv, InFlight
<1>4. \A b \in lost : b \in Branch[head] /\ Number[b] \in low..Number[head]
  <2> SUFFICES ASSUME NEW b \in lost
               PROVE  b \in Branch[head] /\ Number[b] \in low..Number[head]
    OBVIOUS
  <2>1. /\ b \in Branch[head] /\ b \notin Branch[sync.latest] /\ Number[b] > DeploymentBlock - 1
        /\ Number[b] \in Nat /\ Number[head] \in Nat /\ Number[b] <= Number[head]
    BY <1>2, Ancestors DEF Above
  <2>2. ASSUME sync.retained >= DeploymentBlock, Number[b] <= sync.retained
        PROVE  FALSE
    <3>1. PICK c \in Branch[sync.latest] : Number[c] = sync.retained
      BY <1>2, <1>3, TreeAssumption
    <3>2. c \in Branch[head]
      <4>1. Number[c] <= sync.retained
        BY <1>2, <3>1
      <4>2. c \in Upto(Branch[sync.latest], sync.retained)
        BY <3>1, <4>1 DEF Upto
      <4> QED
        BY <1>3, <2>2, <4>2
    <3>3. b \in Branch[c]
      BY <1>2, <2>1, <2>2, <3>1, <3>2, Ancestors DEF Upto
    <3>4. Branch[c] \subseteq Branch[sync.latest]
      BY <1>2, <3>1, Ancestors
    <3> QED
      BY <2>1, <3>3, <3>4
  <2>3. Number[b] > sync.retained
    BY <1>2, <1>3, <2>1, <2>2, LimitsAssumption
  <2> QED
    BY <1>2, <2>1, <2>3
<1>5. /\ low \in Int /\ Number[head] \in Int
      /\ IsFiniteSet(low..Number[head])
      /\ Cardinality(low..Number[head]) <= MaxReorgDepth
  <2>1. Number[head] \in Nat /\ MaxReorgDepth \in Nat
    BY <1>2, TreeAssumption, LimitsAssumption
  <2>2. low \in Int /\ Number[head] \in Int
    BY <1>2, <2>1
  <2>3. /\ IsFiniteSet(low..Number[head])
        /\ Cardinality(low..Number[head]) =
             IF low > Number[head] THEN 0 ELSE Number[head] - low + 1
    BY <2>2, FS_Interval
  <2> QED
    BY <1>2, <2>1, <2>2, <2>3
<1> DEFINE height == [b \in lost |-> Number[b]]
<1>6. height \in Injection(lost, low..Number[head])
  <2>1. height \in [lost -> low..Number[head]]
    BY <1>4
  <2>2. \A b, c \in lost : height[b] = height[c] => b = c
    BY <1>2, <1>4, TreeAssumption
  <2>3. DOMAIN height = lost
    OBVIOUS
  <2> HIDE DEF height, lost, low
  <2> QED
    BY <2>1, <2>2, <2>3, Zenon DEF Injection, IsInjective
<1>7. Cardinality(lost) <= Cardinality(low..Number[head]) /\ IsFiniteSet(lost)
  <2> HIDE DEF height, lost, low
  <2> QED
    BY <1>5, <1>6, FS_Injection
<1>8. Cardinality(lost) \in Nat /\ Cardinality(low..Number[head]) \in Nat /\ MaxReorgDepth \in Nat
  <2> HIDE DEF lost, low
  <2> QED
    BY <1>5, <1>7, FS_CardinalityType, LimitsAssumption
<1>9. Cardinality(lost) <= MaxReorgDepth
  <2> HIDE DEF lost, low
  <2> QED
    BY <1>5, <1>7, <1>8
<1> QED
  BY <1>1, <1>9

(* No synchronization gives up more blocks than configured: for every      *)
(* block tree, branches that part below the deployment block included.     *)
THEOREM RollbacksBounded == Spec => RollbackBounded
<1>1. Init => DepthKept
  BY DEF Init, Idle, DepthKept
<1>2. IInv /\ DepthKept /\ [Next]_vars =>
        [head # None /\ head' # head =>
            Cardinality(Above(Branch[head] \ Branch[head'], DeploymentBlock - 1))
                <= MaxReorgDepth]_vars
  <2> SUFFICES ASSUME IInv, DepthKept, Next, head # None, head' # head
               PROVE  Cardinality(Above(Branch[head] \ Branch[head'], DeploymentBlock - 1))
                          <= MaxReorgDepth
    BY DEF vars
  <2>1. ReadAnchorAndCommit
    BY DEF Next, ChangeChain, observed, SyncStep, SyncProceeds, SyncFails, ReadBlockNumber,
           ReadHead, ReadAncestor, ReadHeader, ReadLogs, ReconcileStep, ReadDirectState,
           ReadAnchorAndReturn, ReconcileFails, FreezeSnapshot
  <2> QED
    BY <2>1, GivenUp
<1> QED
  BY InitIInv, NextIInv, DepthStep, <1>1, <1>2, PTL DEF Spec, RollbackBounded

-----------------------------------------------------------------------------
(* While no block returns during an operation, the block that it follows   *)
(* is on the chain at every read or gone for good; what was read while it  *)
(* was on the chain is of its branch. *)
SyncTracked ==
    /\ sync.at \in {"ancestor", "header", "logs", "anchor"} =>
         sync.latest \in Branch[chain] \cup gone
    /\ sync.at = "anchor" /\ sync.latest \notin gone =>
         sync.fetched = Above(Branch[sync.latest] \cap Carries, sync.retained)

ReadingTracked ==
    /\ reading.at \in {"direct", "check"} => reading.head \in Branch[chain] \cup gone
    /\ reading.at \in {"direct", "check", "done"} => reading.logs = LogsOn(reading.head)
    /\ reading.at = "check" /\ reading.head \notin gone => reading.state = reading.head
    /\ reading.at = "done" => reading.state = reading.head

Tracked ==
    /\ gone \cap Branch[chain] = {}
    /\ SyncTracked
    /\ ReadingTracked
    /\ LogsComplete

(* Above a common ancestor, or above the block before the deployment, the  *)
(* logs are replaced by those of the new branch. *)
LEMMA LogsReplaced ==
    ASSUME IInv, LogsComplete, sync.at = "anchor",
           sync.fetched = Above(Branch[sync.latest] \cap Carries, sync.retained)
    PROVE  Upto(logs, sync.retained) \cup sync.fetched = LogsOn(sync.latest)
<1>1. /\ sync.latest \in Blocks /\ sync.retained \in Nat /\ DeploymentBlock \in Nat \ {0}
      /\ head \in Blocks \cup {None}
  BY LimitsAssumption DEF IInv, TypeOK, Sync, Idle
<1>2. /\ DeploymentBlock - 1 <= sync.retained
      /\ sync.retained <= Number[sync.latest]
      /\ Upto(logs, sync.retained) \subseteq Branch[sync.latest]
      /\ sync.retained >= DeploymentBlock =>
           /\ head # None
           /\ Upto(Branch[sync.latest], sync.retained) \subseteq Branch[head]
  BY DEF IInv, InFlight
<1>3. \A b \in Branch[sync.latest] : Number[b] \in Nat
  BY <1>1, Ancestors
<1>4. logs \subseteq {b \in Carries : Number[b] >= DeploymentBlock}
  BY DEF IInv, OneBranch, LogsOn
<1>5. Upto(logs, sync.retained) \cup sync.fetched \subseteq LogsOn(sync.latest)
  BY <1>1, <1>2, <1>3, <1>4 DEF LogsOn, Upto, Above
<1>6. ASSUME NEW b \in LogsOn(sync.latest), ~(Number[b] > sync.retained)
      PROVE  b \in Upto(logs, sync.retained)
  <2>1. /\ b \in Branch[sync.latest] /\ b \in Carries /\ Number[b] >= DeploymentBlock
        /\ Number[b] \in Nat /\ Number[b] <= sync.retained
    BY <1>1, <1>3, <1>6 DEF LogsOn
  <2>2. head # None /\ b \in Branch[head]
    BY <1>1, <1>2, <2>1 DEF Upto
  <2>3. b \in logs
    BY <2>1, <2>2 DEF LogsComplete, LogsOn
  <2> QED
    BY <2>1, <2>3 DEF Upto
<1>7. ASSUME NEW b \in LogsOn(sync.latest), Number[b] > sync.retained
      PROVE  b \in sync.fetched
  BY <1>7 DEF LogsOn, Above
<1> QED
  BY <1>5, <1>6, <1>7

(* What getLogs answers while the new head is on the chain. *)
LEMMA LogsFetched ==
    ASSUME IInv, sync.at = "logs", sync.latest \in Branch[chain]
    PROVE  Above(Upto(Branch[chain] \cap Carries, Number[sync.latest]), sync.retained)
             = Above(Branch[sync.latest] \cap Carries, sync.retained)
<1>1. Branch[sync.latest] = Upto(Branch[chain], Number[sync.latest])
  BY Ancestors DEF IInv, TypeOK
<1> QED
  BY <1>1 DEF Upto, Above

LEMMA TrackedWhileRead ==
    ASSUME IInv, Tracked, ~Returns, SyncStep, gone' = IF Quiet' THEN {} ELSE gone
    PROVE  Tracked'
<1>1. chain' = chain /\ reading' = reading
  BY DEF SyncStep, SyncProceeds, SyncFails, ReadBlockNumber, ReadHead, ReadAncestor,
         ReadHeader, ReadLogs, ReadAnchorAndCommit
<1>2. gone' \subseteq gone /\ gone' \cap Branch[chain'] = {}
  BY <1>1 DEF Tracked
<1>3. ReadingTracked'
  <2>1. reading.at \in {"direct", "check"} => gone' = gone
    BY <1>1 DEF Quiet
  <2> QED
    BY <1>1, <2>1 DEF Tracked, ReadingTracked
<1>4. CASE sync'.at \in {"idle", "head"} /\ UNCHANGED observed
  BY <1>1, <1>2, <1>3, <1>4 DEF Tracked, SyncTracked, observed, LogsComplete
<1>5. ASSUME sync'.at # "idle"
      PROVE  gone' = gone
  BY <1>5 DEF Quiet, Idle
<1>6. ASSUME UNCHANGED observed, NEW latest \in Blocks, NEW ancestor,
             latest \in Branch[chain] \cup gone, Number[latest] \in Nat,
             ancestor # None => Number[ancestor] \in Nat,
             sync' = Reload(latest, ancestor)
      PROVE  Tracked'
  <2> DEFINE retained == IF ancestor = None THEN BeforeDeployment ELSE Number[ancestor]
  <2>1. CASE ~DepthAllowed(retained)
    BY <1>4, <1>6, <2>1 DEF Reload, Idle
  <2>2. CASE DepthAllowed(retained) /\ retained < Number[latest]
    <3>1. sync'.at = "header" /\ sync'.latest = latest
      BY <1>6, <2>2 DEF Reload
    <3> QED
      BY <1>1, <1>2, <1>3, <1>5, <1>6, <3>1 DEF Tracked, SyncTracked, observed, LogsComplete
  <2>3. CASE DepthAllowed(retained) /\ ~(retained < Number[latest])
    <3>1. /\ sync'.at = "anchor" /\ sync'.latest = latest /\ sync'.retained = retained
          /\ sync'.fetched = {}
      BY <1>6, <2>3 DEF Reload
    <3>2. retained \in Int
      BY <1>6, LimitsAssumption DEF BeforeDeployment
    <3>3. \A b \in Branch[latest] : Number[b] \in Nat /\ Number[b] <= Number[latest]
      BY <1>6, Ancestors
    <3>4. Above(Branch[latest] \cap Carries, retained) = {}
      BY <1>6, <2>3, <3>2, <3>3 DEF Above
    <3> QED
      BY <1>1, <1>2, <1>3, <1>5, <1>6, <3>1, <3>4
         DEF Tracked, SyncTracked, observed, LogsComplete
  <2> QED
    BY <2>1, <2>2, <2>3
<1>7. ASSUME UNCHANGED observed, NEW latest \in Blocks, NEW candidate \in Blocks,
             latest \in Branch[chain] \cup gone,
             sync' = Search(latest, candidate)
      PROVE  Tracked'
  <2>1. Number[latest] \in Nat /\ Number[candidate] \in Nat
    BY TreeAssumption
  <2>2. CASE sync' = Reload(latest, candidate) \/ sync' = Reload(latest, None)
    BY <1>6, <1>7, <2>1, <2>2
  <2>3. CASE sync' = Idle
    BY <1>4, <1>7, <2>3 DEF Idle
  <2>4. CASE sync' = [at |-> "ancestor", latest |-> latest, candidate |-> candidate]
    <3>1. sync'.at = "ancestor" /\ sync'.latest = latest
      BY <2>4
    <3> QED
      BY <1>1, <1>2, <1>3, <1>5, <1>7, <3>1 DEF Tracked, SyncTracked, observed, LogsComplete
  <2> QED
    BY <1>7, <2>2, <2>3, <2>4 DEF Search
<1>8. CASE ReadBlockNumber \/ SyncFails
  BY <1>4, <1>8 DEF ReadBlockNumber, SyncFails, Idle
<1>9. CASE ReadHead
  <2>1. PICK b \in Blocks :
            b \in Branch[chain] /\ sync' = IF head = None THEN Reload(b, None) ELSE Search(b, b)
    BY <1>9 DEF ReadHead, IsCanonical
  <2>2. UNCHANGED observed /\ Number[b] \in Nat
    BY <1>9, TreeAssumption DEF ReadHead
  <2> QED
    BY <1>6, <1>7, <2>1, <2>2
<1>10. CASE ReadAncestor
  <2>1. PICK b \in Blocks : sync' = Search(sync.latest, b)
    BY <1>10 DEF ReadAncestor
  <2>2. /\ UNCHANGED observed /\ sync.at = "ancestor"
        /\ sync.latest \in Blocks /\ sync.latest \in Branch[chain] \cup gone
    BY <1>10 DEF ReadAncestor, IInv, TypeOK, Sync, Idle, Tracked, SyncTracked
  <2> QED
    BY <1>7, <2>1, <2>2
<1>11. CASE ReadHeader
  <2>1. UNCHANGED observed /\ sync.at = "header"
    BY <1>11 DEF ReadHeader
  <2>2. sync \in [at: {"header", "logs"}, latest: Blocks, retained: Nat,
                  previous: Blocks \cup {None}, loaded: SUBSET Blocks]
    BY <2>1 DEF IInv, TypeOK, Sync, Idle
  <2>3. sync'.latest = sync.latest /\ sync'.at \in {"header", "logs"}
    BY <1>11, <2>2 DEF ReadHeader
  <2> QED
    BY <1>1, <1>2, <1>3, <1>5, <2>1, <2>3 DEF Tracked, SyncTracked, observed, LogsComplete
<1>12. CASE ReadLogs
  <2>1. /\ UNCHANGED observed /\ sync.at = "logs"
        /\ sync'.at = "anchor" /\ sync'.latest = sync.latest /\ sync'.retained = sync.retained
        /\ sync'.fetched = Above(Upto(Branch[chain] \cap Carries, Number[sync.latest]),
                                 sync.retained)
    BY <1>12 DEF ReadLogs
  <2>2. sync.latest \in Branch[chain] \cup gone
    BY <2>1 DEF Tracked, SyncTracked
  <2>3. sync.latest \notin gone =>
          sync'.fetched = Above(Branch[sync.latest] \cap Carries, sync.retained)
    BY <2>1, <2>2, LogsFetched
  <2> QED
    BY <1>1, <1>2, <1>3, <1>5, <2>1, <2>2, <2>3 DEF Tracked, SyncTracked, observed, LogsComplete
<1>13. CASE ReadAnchorAndCommit
  <2>1. /\ sync.at = "anchor" /\ sync.latest \in Branch[chain] /\ sync' = Idle
        /\ head' = sync.latest
        /\ logs' = Upto(logs, sync.retained) \cup sync.fetched
    BY <1>13 DEF ReadAnchorAndCommit, StillCanonical
  <2>2. sync.latest \notin gone
    BY <2>1 DEF Tracked
  <2>3. logs' = LogsOn(head')
    BY <2>1, <2>2, LogsReplaced DEF Tracked, SyncTracked
  <2> QED
    BY <1>1, <1>2, <1>3, <2>1, <2>3 DEF Tracked, SyncTracked, Idle, LogsComplete
<1> QED
  BY <1>8, <1>9, <1>10, <1>11, <1>12, <1>13 DEF SyncStep, SyncProceeds

LEMMA TrackedWhileReconciled ==
    ASSUME IInv, Tracked, ~Returns, ReconcileStep, gone' = IF Quiet' THEN {} ELSE gone
    PROVE  Tracked'
<1>1. chain' = chain /\ UNCHANGED <<observed, sync>>
  BY DEF ReconcileStep, ReadDirectState, ReadAnchorAndReturn, ReconcileFails
<1>2. gone' \subseteq gone /\ gone' \cap Branch[chain'] = {}
  BY <1>1 DEF Tracked
<1>3. SyncTracked' /\ LogsComplete'
  <2>1. sync.at # "idle" => gone' = gone
    BY <1>1 DEF Quiet, Idle
  <2> QED
    BY <1>1, <2>1 DEF Tracked, SyncTracked, LogsComplete, observed
<1>4. CASE ReadDirectState
  <2>1. PICK b \in Blocks :
            /\ b \in Branch[chain] /\ Number[b] = Number[reading.head]
            /\ reading' = [at |-> "check", head |-> reading.head, logs |-> reading.logs,
                           state |-> b]
    BY <1>4 DEF ReadDirectState, IsCanonical
  <2>2. /\ reading.at = "direct" /\ reading'.at = "check" /\ reading'.head = reading.head
        /\ reading'.logs = reading.logs /\ reading'.state = b
    BY <1>4, <2>1 DEF ReadDirectState
  <2>3. gone' = gone
    BY <2>2 DEF Quiet
  <2>4. /\ reading.head \in Branch[chain] \cup gone
        /\ reading.logs = LogsOn(reading.head)
    BY <2>2 DEF Tracked, ReadingTracked
  <2>5. reading.head \notin gone => b = reading.head
    BY <2>1, <2>4, Ancestors DEF IInv, TypeOK
  <2> QED
    BY <1>1, <1>2, <1>3, <2>2, <2>3, <2>4, <2>5 DEF Tracked, ReadingTracked
<1>5. CASE ReadAnchorAndReturn
  <2>1. /\ reading.at = "check" /\ reading.head \in Branch[chain]
        /\ reading'.at = "done" /\ reading'.head = reading.head
        /\ reading'.logs = reading.logs /\ reading'.state = reading.state
    BY <1>5 DEF ReadAnchorAndReturn, StillCanonical, FrozenLogs
  <2>2. /\ reading.head \notin gone
        /\ reading.logs = LogsOn(reading.head)
    BY <2>1 DEF Tracked, ReadingTracked
  <2>3. reading.state = reading.head
    BY <2>1, <2>2 DEF Tracked, ReadingTracked
  <2> QED
    BY <1>2, <1>3, <2>1, <2>2, <2>3 DEF Tracked, ReadingTracked
<1>6. CASE ReconcileFails
  BY <1>2, <1>3, <1>6 DEF ReconcileFails, Idle, Tracked, ReadingTracked
<1> QED
  BY <1>4, <1>5, <1>6 DEF ReconcileStep

LEMMA TrackedStep == ~Returns /\ IInv /\ Tracked /\ [Next]_vars => Tracked'
<1> SUFFICES ASSUME ~Returns, IInv, Tracked, [Next]_vars
             PROVE  Tracked'
  OBVIOUS
<1>1. CASE UNCHANGED vars
  BY <1>1 DEF vars, observed, Tracked, SyncTracked, ReadingTracked, LogsComplete
<1>2. ASSUME NEW b \in Blocks, ChangeChain(b)
      PROVE  Tracked'
  <2>1. /\ chain' = b /\ UNCHANGED <<observed, sync>> /\ reading' = reading
        /\ Branch[b] \cap gone = {}
        /\ gone' = IF Quiet THEN {} ELSE gone \cup (Branch[chain] \ Branch[b])
    BY <1>2 DEF ChangeChain
  <2>2. gone' \cap Branch[chain'] = {}
    BY <2>1
  <2>3. SyncTracked'
    <3>1. sync.at \in {"ancestor", "header", "logs", "anchor"} =>
            gone' = gone \cup (Branch[chain] \ Branch[b])
      BY <2>1 DEF Quiet, Idle
    <3> QED
      BY <2>1, <3>1 DEF Tracked, SyncTracked
  <2>4. ReadingTracked'
    <3>1. reading.at \in {"direct", "check"} =>
            gone' = gone \cup (Branch[chain] \ Branch[b])
      BY <2>1 DEF Quiet
    <3> QED
      BY <2>1, <3>1 DEF Tracked, ReadingTracked
  <2> QED
    BY <2>1, <2>2, <2>3, <2>4 DEF Tracked, observed, LogsComplete
<1>3. CASE FreezeSnapshot /\ gone' = IF Returns THEN {} ELSE Branch[head] \ Branch[chain]
  <2>1. /\ sync = Idle /\ sync' = Idle /\ head # None /\ chain' = chain
        /\ UNCHANGED observed /\ gone' = Branch[head] \ Branch[chain]
        /\ reading'.at = "direct" /\ reading'.head = head /\ reading'.logs = logs
    BY <1>3 DEF FreezeSnapshot
  <2>2. logs = LogsOn(head)
    BY <2>1 DEF Tracked, LogsComplete
  <2>3. head \in Branch[head]
    BY <2>1, TreeAssumption DEF IInv, TypeOK
  <2> QED
    BY <2>1, <2>2, <2>3 DEF Tracked, SyncTracked, ReadingTracked, LogsComplete, observed, Idle
<1> QED
  BY <1>1, <1>2, <1>3, TrackedWhileRead, TrackedWhileReconciled DEF Next

LEMMA TrackedAtStart == Init => Tracked
  BY DEF Init, Idle, Tracked, SyncTracked, ReadingTracked, LogsComplete

(* An accepted head has all the logs of its branch, unless a block came    *)
(* back to the chain during the synchronization. *)
THEOREM AcceptedLogsComplete ==
    ASSUME ~Returns
    PROVE  Spec => []LogsComplete
<1>1. IInv /\ Tracked /\ [Next]_vars => Tracked'
  BY TrackedStep
<1>2. Tracked => LogsComplete
  BY DEF Tracked
<1> QED
  BY InitIInv, NextIInv, TrackedAtStart, <1>1, <1>2, PTL DEF Spec

(* A reconciliation returns logs and direct state of one branch, unless a  *)
(* block came back while it read. *)
THEOREM ReconciliationsCohere ==
    ASSUME ~Returns
    PROVE  Spec => []ReconciledTogether
<1>1. IInv /\ Tracked /\ [Next]_vars => Tracked'
  BY TrackedStep
<1>2. Tracked => ReconciledTogether
  BY DEF Tracked, ReadingTracked, ReconciledTogether, DirectStateOfHead
<1> QED
  BY InitIInv, NextIInv, TrackedAtStart, <1>1, <1>2, PTL DEF Spec
=============================================================================
