# Challenge Escrow Protocol: TLA+ verification

TLA+ modules, TLC configurations and TLAPS proofs for the challenge escrow in
this repository. Paths below are relative to the repository root unless they name
a file of this directory. `PROJECT.json` lists the components, runs, mutants,
source map, hazards and theorems in machine-readable form.

    tlc -workers 2 -config MCLifecycle.cfg MCChallengeEscrow
    tlc -workers 2 -config MCReorg.cfg MCReorgObserver
    tlapm ChallengeEscrowSafety_proofs.tla

## 1. The system and its parts

Two wallets bet equal stakes of one ERC-20 token on a condition that is observed
later. The contract holds both stakes, a resolver proposes the outcome with a hash
of its evidence, either participant may dispute it, an arbiter then decides, and
every authority's silence ends in a timeout that returns the stakes. A set of
read-only tools observes the contract from outside, and a set of off-chain tools
fixes what the hashes commit to.

| Part | Source | State it keeps | Operations |
| --- | --- | --- | --- |
| Kernel | `contracts/src/ChallengeEscrowKernel.sol` | challenges, entitlements, used instance nonces, aggregate liability, pause flag | the 13 external functions from `createAndFund` to `refundPrincipal` |
| Release | `contracts/src/ChallengeEscrow.sol` | the immutable pauser | `setPaused`, and stricter wallet rules |
| Types | `contracts/src/ChallengeTypes.sol` | none | enumerations and records |
| Token boundary | `contracts/src/libraries/ExactTokenDelta.sol` | none (reads balances around a call) | `pullExact`, `pushExact` |
| Hash libraries | `ChallengeIds`, `ChallengeCommitment`, `AcceptancePermitHash` | none | ids, commitments, the permit digest |
| Inspector | `tools/client/index.ts` | none | decodes and validates one storage snapshot |
| Decoder, projector | `tools/client/events.ts`, `projector.ts` | the projection of a log sequence | one fold over the logs |
| Observer | `tools/client/observer.ts` | headers, logs and head of the chain it follows | `sync`, `reconcile`, `evidence` |
| RPC quorum, receipts | `tools/client/rpc.ts`, `tools/observer/*` | none | one comparison of several providers; a portable receipt of it |
| Reference model and its drivers | `tools/model`, `tools/simulator`, `tools/liveness` | a JavaScript copy of the lifecycle | the same operations, sequentially |
| Authority policy | `tools/operations/authority-policy.mjs` | none (the caller keeps the lineage) | validation of a policy, incident matrix |
| Certificate prototype | `tools/liveness/authority-v2.mjs` | none | a quorum certificate or a timeout |
| Condition language | `tools/portable/*`, `rust/portable-verifier` | none | validation, canonical form, evaluation |
| Preflight | `tools/testnet/read-only.mjs` | the answers of one inspection | some two dozen reads of one deployment, and a report |
| Manifest, gates | `tools/release`, `tools/security`, `tools/formal`, `tools/medusa` | none | checks of files and of the contract by other tools |

How they interact. Participants, authorities and anyone at all call the contract.
The contract calls the token: `transferFrom` when a stake comes in, `transfer`
when it goes out, `balanceOf` around both. The only thing a participant does off
chain that the contract depends on is signing an acceptance permit. The contract
emits events; the observer reads blocks and logs through a provider that may
reorganize between reads, the projector folds the logs into lifecycles, the
inspector reads storage directly, and receipts bind the result to the heads that
a quorum of providers agreed on. No tool ever writes to the contract.

What is hard. All challenges draw on one token balance, and one aggregate counter
is maintained by hand in three places. Seven time limits and two windows meet at
exact seconds. A permit is signed at one time and used at another. Four paths end
in three finalizers. Each authority may stay silent for ever. Outside the contract:
reads that are separated by awaits, forks, and two descriptions of the same
lifecycle that must agree. `PROJECT.json` names each hazard at its line with the
properties that would catch it.

What makes each part correct:

- the contract: money is conserved per challenge and in total, the payout follows
  the outcome, no result is final before its source may be corrected, evidence
  chains are unbroken, consent is current, every window has an end and every
  amount an exit;
- the token boundary: a call either moves exactly the amount or changes nothing;
- the observer: the logs it holds are those of the chain under its head, and a
  failed synchronization changes nothing;
- the projector: what the contract emits projects without anomaly to the
  contract's own state;
- the quorum: the heads agreed for different finality tags fit on one chain, agreement
  that exists is reported, and the receipt builder computes the same report;
- the inspector: it accepts every state of the contract, and refuses a mixture of two;
- the condition language: every verifier reaches the same verdict or rejection, except on texts
  between the lengths they count, and only the verdict that the condition states;
- the policy: no replayed or skipped epoch, no two groups that act apart, no decision without
  a quorum;
- the preflight: what it reports is one state of one branch, and neither stricter nor laxer
  than the constructors and the client.

## 2. Modules

| Module | Models | Notes |
| --- | --- | --- |
| `ChallengeTypes` | `ChallengeTypes.sol`, `_validateExecution`, `_validateReason`, wallet rules, constructors' role rules | constants and their assumptions |
| `ChallengeEscrow` | kernel, release, conforming token, signing of permits, time | one action per external function |
| `TwoPartyEscrow` | nothing: the abstract specification of the money | no clock, role, evidence or aggregate |
| `ChallengeEscrowProps` | nothing: properties, fairness, refinement mapping | |
| `MCChallengeEscrow` | small deployments for TLC | with `MCLifecycle`, `MCPool` |
| `ChallengeEscrow_proofs` | nothing: step lemmas, type correctness, well-formedness | TLAPS |
| `ChallengeEscrowSafety_proofs` | nothing: the safety invariants and action properties, who may act when, each Move as a step of `TwoPartyEscrow` | TLAPS |
| `TokenBoundary` | `ExactTokenDelta.sol`, the reentrancy guard, an untrusted token | extends `ChallengeEscrow`; a call is entry, token and exit |
| `MCTokenBoundary` | one challenge with unit stakes | with `MCToken` |
| `TokenBoundary_proofs` | nothing: what a waiting call has booked, and that a call is atomic | TLAPS |
| `EventProjector` | `events.ts` (which logs are accepted), `projector.ts` (the fold) | pure operators over a view |
| `ObservedEscrow` | the `emit` of every call, the provider that may withhold logs | composes `ChallengeEscrow` and `EventProjector`; states what the view promises |
| `MCObservedEscrow` | a small observed deployment | with `MCProjection`, `MCDecoder` |
| `ReorgObserver` | `observer.ts` and the chain it reads | one action per awaited read |
| `ReorgObserverProps` | nothing: properties, fairness | |
| `MCReorgObserver` | a block tree of three branches, higher than the retained headers | with `MCReorg`, `MCOmits`, `MCMixes`, `MCStuck` |
| `ReorgObserver_proofs` | nothing: the observer's inductive invariant | TLAPS |
| `Inspector` | `index.ts` (`inspectChallenge` and its validators) | operators over `ChallengeEscrow`'s state; checked in `MCLifecycle` |
| `ReferenceModel` | `model/challenge-model.mjs` | the model's `apply` as a specification of its own |
| `ReferencedEscrow` | nothing: the mapping from storage to the model's fields | checked in `MCPool` |
| `Clients_proofs` | nothing: what the inspector, the projector and the reference model accept | TLAPS; over `Inspector`, `ObservedEscrow`, `ReferencedEscrow` |
| `RpcQuorum` | `rpc.ts`, the quorum part of `observer/receipt.mjs` | one action per provider snapshot |
| `AuthorityPolicy` | `operations/authority-policy.mjs`, a verifier that keeps the lineage | acceptance, incident matrix and time are the actions |
| `AuthorityCertificate` | `liveness/authority-v2.mjs` | one decision at a time |
| `MCQuorums` | four providers and three headers; 21 drafts of policies; three authorities | the three places that count to a quorum |
| `Quorums_proofs` | nothing: majorities intersect, in all three places; the lineage; the incident matrix | TLAPS |
| `Preflight` | `testnet/read-only.mjs` and the chain it reads | one action per awaited request |
| `PreflightProps` | the constructors' rules, `decodeReleaseDeclared`, `readReleaseSnapshot` | what a report promises, against the other two lists of rules |
| `MCPreflight` | twelve branches, four of them genuine | with `MCPreflight.cfg` |
| `Preflight_proofs` | nothing: what is known at each read | TLAPS |
| `Conditions` | the validators and evaluators of `tools/portable` and `rust/portable-verifier` | verdicts and readings as recursive functions |
| `MCConditions` | conditions over two observations | with `MCTexts` |
| `MCOffChain` | nothing: the four components that decide off chain, in one run | with `MCOffChain.cfg` |
| `Conditions_proofs` | nothing: the two arithmetics, and what verdicts promise | TLAPS |

### How `ChallengeEscrow` corresponds to the code

State. `totalOutstandingLiability` and `paused` are the contract's.
`challenges[s]`, `entitlements[s][w]` and `usedInstanceNonces` are the three
mappings. `balance` is the token's, `now` is `block.timestamp`, `signedPermits` is
the set of permits bearing their challenger's signature.

Identity. A challenge id is a hash of release, challenger, nonce and the hash of
execution and terms. Hashes are taken to be injective, so the model uses the record
itself, an element `s` of `Specs`, as the id; two submissions share an id iff they
agree on every field. The fields of the execution that the contract copies into the
challenge once are read from `s`. `onThisRelease` stands for the four comparisons
of the execution's chain, contract, token and decimals with the deployment's.

Transactions. One action is one successful call. A revert undoes everything and is a
stuttering step, so it needs no action. All external state-changing functions of the
kernel are `nonReentrant`, and `setPaused` makes no call, so with a conforming token
a call is atomic; `TokenBoundary` drops that assumption. Each call that moves tokens is
therefore written as its checks (`May...`), the token (`PullExact`, `PushExact`) and its
writes (`Write...`), in the code's order, for `TokenBoundary` to use apart. Guards are in the code's order of checks where the order matters
(it matters nowhere for the state: a failed check reverts whatever came before).
Checked arithmetic is a guard (`Fits64`, `Fits256`): overflow reverts.
`CheckedArithmeticNeverReverts` then shows which of those guards are never the
reason for a revert.

Callers. `Callers` excludes the zero address, the escrow and the token; of these the
first cannot sign transactions and the other two never call the escrow in this
module. Calls that anyone may make carry no caller.

Reasons and paths. The AB, evidence and timeout reasons are one number with the
outcome or path that selects the enumeration; `ResolutionPath` and `VoidPath` share
their first two members and are one set `Path`. `finalizedBy` and `finalizedAt`
are written and never read; they are left out. Events are in `ObservedEscrow`.

Token. `Transfer` moves exactly the amount, needs the balance and cannot overflow
the recipient; allowance is the caller's own business and is not modelled. `Donate`
is a transfer to the escrow by anyone at any time.

### How `TokenBoundary` corresponds to the code

`createAndFund` and `accept` check, call the token and then write; the two payments
check, write and then call. A call of the escrow in progress is an element of the stack
`calls`, with the storage at its entry. `Enter...` is the code up to the token call,
`Exit...` the code after it, and between them the token acts: `TransferAsAsked` at most
once per call, `Rebase` of any account at any time (fee, rebase, donation, seizure; each
costs one of `MaxSlips`), and `setPaused`, the only state-changing function without
`nonReentrant`. `nonReentrant` is an empty stack, so that with it no second call is ever
entered; the mutant `Reentrant` allows `MaxDepth` of them. All ways to fail (a rejected
query, a failed call, a refused or malformed return value, a wrong delta) end in
`Revert`, which may happen at any moment of a call and restores the storage and every
balance of the entry. No block ends while a call waits. The balances before the token call
are those of the entry, because a `balanceOf` query is a static call and changes nothing.
What is not modelled is a token whose balance query lies, which no code on this side can tell.

`received` is a history variable: the pool's net gain in committed outermost calls as
their exits computed it. `Committed` is the storage as of the last committed transaction;
`CallsAreAtomic` maps it to `TwoPartyEscrow`.

### How `EventProjector` and `ObservedEscrow` correspond to the code

Every successful call of the contract emits one event; `ObservedEscrow` conjoins each
action of `ChallengeEscrow` with `Emit` of the arguments that the code's `emit`
statement gives it. `view` is the projector's state after the logs so far: the
projection is a fold, so it is advanced one log at a time instead of recomputed.
The release's declaration is emitted by the constructor and therefore comes first.

A log is accepted when its layout (topics, words of data) is the one the decoder has
for its signature and the decoder's checks of the values pass. The layouts the
compiler emits follow from the `indexed` arguments of the event declarations. The
JavaScript decoder throws on the first log it refuses and computes the projection
from all retained logs each time, so that failure is permanent (`failed`). The log's
emitter, transaction and log index, and the two checks that only compare a log with
hashes of its own contents, are abstracted: the model's logs come from the contract,
each once, in order (that part is the observer's, below).

Loss. `Emit` may drop up to `MaxLost` logs: `getLogs` of one provider can be
incomplete and nothing in the observer notices.

### How `ReorgObserver` corresponds to the code

A block is a node of a finite tree given by `Number` and `Branch`; `chain` names the
last block of the provider's canonical chain and `ChangeChain` moves it anywhere at any
moment: extension, shortening, replacement. A header *is* its block, because the hash
commits to number and parent; a set of logs is the set of blocks that carry them. The
provider is honest at each read: it answers from the chain it follows at that moment.
Every `await` of a provider read is one action, containing the code up to the next
`await`; the local variables alive across it are the fields of `sync` and `reading`.
`SyncFails` and `ReconcileFails` stand for a rejected read and for each throw.
`Reload` and `Search` are the tails of `#loadHeaders` and `#findCommonAncestor` that run
without an await. `sync` is single-flight (`#syncPromise`), `reconcile` waits for one in
flight and shares the observer's state.

`gone` records the blocks that left the canonical chain during the operations in
progress. With `Returns = FALSE` such a block does not come back until those operations
end; with `Returns = TRUE` it may. The observer needs the former for completeness
(findings 2 and 3), and only there.

Each limit is a constant with its check where the code has it: the block span before the head
is read (`SpanAllowed`), the depth once the ancestor is known (`DepthAllowed`), the number of
logs when they arrive, and the age of headers when a synchronization commits
(`RetainedHeaders`). `WithinLimits` says, in terms of the chain alone, what these limits
promise to follow, and `AncestorKept` what they do not say (finding 4).

### How `Inspector` corresponds to the code

`inspectChallenge` is a predicate: it holds iff the function returns. Its conjuncts are
the validators in their order; the fields that `decodeChallenge` reads from the
immutable part of the struct are those of the id `s`. The checks of unused reason
fields and of the zero tuples of absent structs have no counterpart, since the model's
records do not hold those fields. All reads name one block, so the property
`InspectorAccepts` evaluates them in one state; `SplitReadRefused` evaluates the
entitlement reads one transaction later than the others.

### How `ReferenceModel` corresponds to the code

One action is one accepted `apply`; the model rejects everything else and then changes
nothing. `action.now` is an argument of every action, since the model keeps no clock.
Falsy values (no acceptor, no evidence) are `None`, which `ReferencedEscrow` maps to the
contract's zero address and zero hash; `permitValid` is the caller's word in the code, so
any acceptance is possible that passes the other checks. The property
`ModelCoversContract` compares one transaction of the contract with the model's action at
the same time, on every field that the model has. The converse is not claimed: the
model has no reason codes, tokens or signatures and accepts more.

### How `RpcQuorum` corresponds to the code

A header is the triple of its fields, its hash and parent hash uninterpreted. Nothing is
assumed of providers, and their reads share no state, so the whole snapshot of one
provider is one action that may return any of `Snapshots`: every combination of five
answers passed through the code's checks. The threshold is validated before any read. The
code sorts endpoints and groups by name and key; the model has sets in their place, so
independence of the input order is built in and not a property, and so is agreement on the
output order: `receipt.mjs` sorts with `localeCompare` and `verify_receipt.py` by code points,
which this module does not tell apart (section 6). A receipt is built from
the finished comparison: `ReceiptProvider` is the mapping that the repository's
differential test uses.

### How `AuthorityPolicy` and `AuthorityCertificate` correspond to the code

`validateAuthorityPolicy` is a predicate with a conjunct per group of checks; a fingerprint or
a custody class is a value, a hash is the body that it commits to. The code keeps nothing
between calls: its `context` (time, expected epoch, expected predecessor) comes from the caller.
The module adds the smallest caller that uses it as intended, external in the map: it expects
epoch 1 without a predecessor, then one more than it accepted last and the hash accepted with
it. Whoever presents a policy (`Presented`) may offer any draft, naming any hash the verifier
has accepted as its predecessor and claiming any such hash as its own. `evaluateIncidentMatrix`
records its result; its constant parts (required and preserved actions) are left out.
`Presented` and time never reach beyond the drafts and `MaxTime` of the instance.

`AuthorityCertificate` has the two functions of the prototype. Time counts from the start of a
case. `runCase` measures availability first and expiry afterwards: a quorum that answers after
the window is rejected, and the prototype then has no `VOID` for the case (section 4, notes).

### How `Preflight` and `PreflightProps` correspond to the code

`inspection.at` names the request whose answer is awaited; one action is that answer and the
code up to the next `await`. The endpoint is honest: it answers a read by height from the chain
of that moment, a read pinned by `{blockHash, requireCanonical}` from the state of that block or
not at all, and a range of logs from the chain of that moment. `ChangeChain` moves the chain
anywhere between two requests. A runtime is its length, the bytes outside of the immutable
places, and the word at each place (`slots`); a getter's answer is a word; a `ReleaseDeclared`
log is its block and its decoded data with the offsets and lengths of its four strings. Every
thrown error, and every malformed or late response, is `Fails`.

The same release is described three times in the repository: by the constructors, by the
preflight and by the client. `PreflightProps` has the constructors' conditions and what they
leave on the chain, and the client's two lists; `SupportedRelease` and `GenuineNeverRefused`
compare them with what the preflight accepts.

### How `Conditions` corresponds to the code

A condition and a value are records as in the JSON, with numbers and timestamps as sequences
of digits, because the Rust evaluator compares digits (`CompareDigits`) where the other two
compute with exact integers (`CompareRationals`). A hash is a natural number of the same order, since its lower case is
compared alike in all three. A text is named by its place in the order of code points, by which all
three compare, and `CodePoints` and `CodeUnits` give its two lengths: `ValidValue` bounds what a
number writes out, the digits of a timestamp and the length of a text (78, 128, 20 and 4096 in the
code), and JavaScript counts a text in UTF-16 units where Rust and Python count code points. Half of
a surrogate pair has no UTF-8 form and is left out. `ValidNode` is the validation of a node in each
language and at each depth. A condition's rejection, an error or exception of any kind, is the
verdict `"rejected"`; `ShortCircuit` stops at the first argument that is not the neutral
one, so that a later rejection is never seen. A parsed document is a finite tree: `Nodes` are
the conditions that occur in the `Roots`, and `Height` counts the levels below each; it stands for
no code and serves to say that arguments lie below. The verdict of a node (`NodeVerdict`) is a
function of those of its arguments, which is what the code's recursive calls compute, and so are
the reading of a string of digits and a power of ten. JavaScript and Rust validate inside
`evaluateCondition`; Python's `evaluate_condition` validates nothing and its `main`
validates the whole evidence first, which `VerifiersAgree` therefore assumes for Python alone.
`Record` is external: evidence is assembled by people, and the state machine only orders
evidence by inclusion. The results that an envelope itself claims (`evaluations`) are
validated in form by the code and compared with nothing; they are not modelled.

Where the code and `docs/PORTABLE-SEMANTICS.md` part, the model follows the code: the
document grants booleans equality and inequality only, and all three evaluators order them;
it also calls any missing observation a rejection, next to the short-circuiting that hides it.

## 3. Runs

The contract's runs all use one deployment with a resolver, an arbiter and a pauser, and start both
paused and unpaused.

| Run | What it asks | Bounds |
| --- | --- | --- |
| `lifecycle` | books, payouts, evidence lineage and finality on every path of one matched challenge; exactly one window open; the challenge ends and pays out; the inspector accepts every state and refuses a split read | one valid execution and two the kernel must refuse (a dispute window too short, a stake that would not double); time 0..8; reasons 0 (valid for all) and 5 (valid for `VOID` only); one evidence hash and the zero hash, which is always a wrong parent; one nonce advance; `FairSpec` |
| `pool` | aggregate, solvency, open exits, refinement of the abstract escrow and by the reference model, with two challenges in one pool | stakes 2 and 1, donations of 1, time 0..7 |
| `token` | movements are booked once, calls are atomic, over an untrusted token | one challenge with unit stakes, one balance change of the token's own, time 0..7, one nonce advance |
| `projection` | the client's view equals the contract's storage, without anomaly; a record with missing logs may be incomplete but never wrong; consent and instance nonces | one challenge, two permits under two nonces, one nonce advance, a second execution under the same instance nonce, time 0..7, at most one log withheld |
| `reorg` | accepted state on one branch and complete; reconciled logs and state belong together; rollbacks bounded; the observer reaches the head of a chain that stands still | branches a1..a4, b2..b3, c1..c2; three retained headers, depth 2, span 3; no return during an operation; `FairSpec` |
| `preflight` | a report is one state of one branch; constructors, preflight and client agree on what a release is | twelve blocks, two networks, two configured blocks, at most three blocks leave the chain |
| `off_chain` | agreement of arbitrary providers and the receipt of it | four providers (the least number at which half is not a majority and two majorities can meet in one provider), a block, its child, and a header with the child's hash and another parent; thresholds 1..5, of which 1, 2 and 5 must be refused |
| | lineage, majorities and incidents of authority policies; certificates | 21 drafts over three epochs and seven hours, most breaking one rule each; three authorities and a stranger, latencies on both sides of the window |
| | three evaluators agree, but for texts between two lengths; a verdict is what the condition says, and stands | 66 conditions of depth up to 2 with up to two arguments, four of them outside the schema; up to three observations under two ids with 22 and 3 values |
| `decoder`, `reorg_omits`, `reorg_mixes`, `reorg_stuck`, `conditions_texts` | violations: the findings of section 4 | those of `projection`, `reorg` and `off_chain` |

Why the bounds are enough. The timelines are the shortest the kernel accepts in which
proposal and dispute can each fall before, at and after the correction cutoff, and
time runs to `timeoutVoidAt`, after which no guard changes value. `MaxUint256` is the
sum of all balances, so amounts reach the width of the type. Two challenges exhibit
any interference between one challenge and the rest of the pool. The nonce is
advanced at most once (`MaxNonce`), which is enough for a permit to be stale and for
a permit to be ahead of its time. Further wallets, permits and executions are left to
`MatchesAreAgreed` and `NonceNamesOneChallenge`, which hold for any number of them.

In `off_chain` the limits of the schemas (32 levels, 32 arguments, 64 observations) are
2, 2 and 2, and the lengths of an integer, a decimal, a timestamp and a text (78, 128, 20, 4096) are
3, 4, 3 and 2, each of them met and exceeded. Of four texts one is within the limit, one
meets it in UTF-16 units, one meets it in code points and exceeds it in units, and one exceeds both;
they occur in evidence, in conditions, and in a condition where no evaluation arrives. The values are chosen where exact comparison
goes wrong: zeros with a sign or a fraction, `9` against `10`, `9.50` against `9.05`,
negatives, a timestamp with leading zeros, an integer that must not have one, and an
observation that is itself a reference. Evidence may repeat an id, which evaluators refuse.

In `token` stakes are one unit and the token has one free change of a unit, so that a
deposit or payment can be missing, doubled, or faked by exactly the amount that is checked.

`projection` says something about histories without a change of the pause only: once
the pause changes the view has failed (finding 1). In `reorg` the block span
of a first synchronization, the rollback depth and the logs of one synchronization are
each met and exceeded, headers are dropped for age, and the retained logs reach their
limit; the traversal limit of the ancestor search is out of reach of so low a tree. Branch a is
one block higher than the retained headers, which is what finding 4 needs.

The four components of `off_chain` share no state; `MCNext` lets each go on by itself from an
initial state of the others instead of interleaving them. In `preflight` three departed blocks
let a branch leave, another answer in between and the first return, and the genuine deployments
include one that is used and unpaused after its construction and one that is a block late. Six
others each break one rule: a second release, an inconsistent substitution, another runtime,
a pauser that is the resolver, a resolver that is the token, another arbiter in the event.

TLC's deadlock check is on but says little of the contract, where signing and the pauser
can always act; `ExitsOpen` and `OneWindowAtATime` are the statements that nobody is
stuck.

Fairness (`FairSpec`). Blocks keep coming (`Tick`); while a permissionless call is open on
some challenge, somebody makes one (`Permissionless`); while somebody is owed money that can
be collected, somebody collects (`Paying`). With finitely many challenges and wallets nobody in
particular has to act. The code justifies this by giving those calls no privileged
caller, no pause and no dependency on another challenge. Resolver, arbiter, pauser
and the participants' choices are never assumed to act. Censorship and gas are outside.
For the observer, `WF_sync(SyncStep)` says that a caller keeps calling `sync` and that
each read is answered or rejected, as a promise is; that the chain settles and outages
end is a premise of `CatchesUp`, not fairness, and nothing is assumed before that.

Every property has a mutant in `PROJECT.json`: a definition that models code, changed
as a plausible bug would change it, under which TLC finds the property violated. The
mutated forms stand next to the definitions, commented "a plausible slip".

## 4. Findings

Each is a disagreement of the code with a statement of the repository that a run shows.

1. `EveryEventDecodes` (`MCDecoder`). The contract declares `PauseStatusChanged` with an
   indexed argument, so its log has two topics and two words; `events.ts` demands one
   topic and three words. The first pause makes every later projection of that history
   throw.
2. `LogsComplete` (`MCOmits`). `sync` reads headers, then logs, then the anchor. If
   the chain leaves the head's branch before the logs are read and returns before the
   anchor is, the logs found are those of the other branch at or below the fork, they
   anchor, and the head is accepted without the rest, for good. `tools/client/OBSERVER.md`
   says that "accepted state changes only if the whole range still anchors to one
   consecutive chain".
3. `DirectStateOfHead` (`MCMixes`). `reconcile` reads the direct state between its synchronization
   and a closing read of the head's header (`observer.ts:353-366`). If the head's branch is off
   the chain during the one and back at the other, the head and its logs are returned with state
   read on the replacement. The run's trace has complete logs: a1 is accepted with its log, c1 takes
   its place, the direct state is read at c1, a1 comes back, and the result is a1 and its log with the
   state of c1. `docs/SECURITY-REVIEW.md` says that "a reorganization cannot combine old logs with
   state read from the replacement branch". `ReconciledTogether` is this and the completeness of the
   returned logs, which finding 2 breaks by itself.

4. `LimitsDecide` (`MCStuck`). A commit drops every header older than the retention limit;
   when the head later moves back, the retained run becomes shorter and nothing refills it from
   below. A further reorganization whose depth is within the limit may then reach behind the
   lowest retained header: the search finds no ancestor, the depth is computed from the
   deployment block, and every synchronization fails with "common ancestor exceeds the
   configured reorg depth". The constructor's "retained headers must exceed the maximum reorg
   depth" (`observer.ts:217`) is meant to exclude this, and `OBSERVER.md` promises that the
   observer "walks back to a common ancestor when a head changes". With depth 2 and three
   headers: a4 is accepted (a2, a3, a4 retained), the chain loses a4 (a2, a3), then b2 and b3
   replace a2 and a3. `CatchesUp` shows that nothing else stops the observer: it arrives
   whenever the header of the last common block is still held.
5. `SameRejectionBoundaries` (`MCTexts`). A text of 2049 to 4096 characters beyond the first
   65536 is too long for JavaScript, which counts UTF-16 units (`canonical.mjs:211`), and not for
   Rust and Python, which count characters (`lib.rs:681`, `verify_portable.py:113`); mixed texts
   likewise. `docs/PORTABLE-ERROR-CATALOG.md` says that "JavaScript and Python retain human-readable
   messages while applying the same rejection boundaries", and the JSON schema's `maxLength` counts
   characters. JavaScript never decides otherwise: `VerifiersAgree` says that
   it rejects or agrees. The titles and statements of terms are measured in the same two
   ways (`canonical.mjs:241-242`).

Noted while modelling, without a run:

- The preflight compares the snapshot header at the end, so a branch that leaves and returns
  during the request for logs is not seen; `OnlyRelease` therefore has the premise
  `~returned`. Everything else in the report is pinned to the block's hash and needs no premise.
  `tools/testnet/README.md:24` says that the run "fails instead of combining data from both
  branches".
- The three parsers have different limits before any validation. Rust's refuses a document of more
  than 1 MiB and JSON nested deeper than 64 levels (`lib.rs:20-21`); the other two have neither. An
  `all` takes two levels of JSON, so a condition within the 32 levels of the language can be beyond
  those of Rust's parser. The models begin with parsed documents.
- `announcedAt` is part of the policy that is being checked, so the review delay is what the
  policy claims. `docs/AUTHORITY-POLICY.md:33` says that "an instant rotation cannot claim that
  it passed the review window"; `LineageUnbroken` can only relate the claim to the time of
  acceptance.
- In `authority-v2.mjs` a quorum that is available but late throws `CertificateExpired`; only a
  missing quorum gives `VOID`. `CertifiedOrVoid` states what does hold: never both.

With `Returns = FALSE`, that is, if no block comes back within one operation, the promises of
findings 2 and 3 hold (`reorg`). `OneBranch` and `RollbackBounded` need no such assumption.

## 5. Proofs

`ChallengeEscrow_proofs` (the first two) and `ChallengeEscrowSafety_proofs` prove, for every set of
executions and permits, every width, every assignment of roles and every initial balance allowed by
the three assumptions:

| Theorem | Statement |
| --- | --- |
| `TypeCorrect` | `Spec => []TypeOK` |
| `StorageWellFormed` | `Spec => []WellFormed` |
| `DeadlinesStayBounded` | `Spec => []DeadlinesBounded` |
| `EvidenceLineageUnbroken` | `Spec => []EvidenceLineage` |
| `BooksAlwaysBalance` | `Spec => []BooksBalance` |
| `PayoutsMatchOutcomes` | `Spec => []PayoutMatchesOutcome` |
| `AlwaysSolvent` | `Spec => []Solvent` |
| `MatchesAreAgreed` | `Spec => []ConsentToMatch` |
| `NonceNamesOneChallenge` | `Spec => []OneChallengePerNonce` |
| `FinalityWaitsForCutoff` | `Spec => NoFinalityBeforeCutoff` |
| `AuthorityEndsAtTimeout` | `Spec => AuthorityExpires` |
| `AggregateIsSum` | `Spec => []AggregateLiability` |
| `ArithmeticNeverReverts` | `Spec => []CheckedArithmeticNeverReverts` |
| `NobodyLockedIn` | `Spec => [](\A s \in Specs : ExitOpen(s))` |
| `TurnsNeverOverlap` | `Spec => [](\A s \in Specs : OneTurn(s))` |
| `ContractImplementsEscrow` | `Spec => ImplementsTwoPartyEscrow` |

in `TokenBoundary_proofs`, for every deployment and input as above and every bound on the token:

| Theorem | Statement |
| --- | --- |
| `MovementsBookedOnce` | `BoundarySpec => []EveryUnitMoved` |
| `PoolCheckDominated` | `BoundarySpec => []LastPoolCheckRedundant` |
| `CallsImplementEscrow` | `BoundarySpec => CallsAreAtomic` |

in `Clients_proofs`, for every deployment and input as above, any number of withheld logs and
any stakes:

| Theorem | Statement |
| --- | --- |
| `InspectorNeverRefuses` | `Spec => []InspectorAccepts` |
| `StraddledInspectionRefused` | `Spec => SplitReadRefused` |
| `CompleteProjectionIsStorage` | `ObservedSpec => []ProjectionIsStorage` |
| `LossesNeverMislead` | `ObservedSpec => []LossNeverMisleads` |
| `ModelAcceptsContract` | `Spec => ModelCoversContract` |

in `ReorgObserver_proofs`, for every block tree and every setting of the limits:

| Theorem | Statement |
| --- | --- |
| `ObserverTypeCorrect` | `Spec => []TypeOK` |
| `AcceptedOnOneBranch` | `Spec => []OneBranch` |
| `CollectedFitsTogether` | `Spec => []InFlight` |
| `RollbacksBounded` | `Spec => RollbackBounded` |
| `AcceptedLogsComplete` | `ASSUME ~Returns PROVE Spec => []LogsComplete` |
| `ReconciliationsCohere` | `ASSUME ~Returns PROVE Spec => []ReconciledTogether` |

in `Quorums_proofs`, for every finite provider set, header set and threshold, for every set of
drafts, every review and epoch limit, and for every list of members and every quorum above its half:

| Theorem | Statement |
| --- | --- |
| `ComparisonTypeCorrect` | `Spec => []TypeOK` |
| `ReceiptsReproduce` | `Spec => []ReceiptReproduces` |
| `AgreedHeadsFit` | `Spec => []LabelledHeadsCohere` |
| `AgreementIsReported` | `Spec => []NoQuorumDiscarded` |
| `LineageIsUnbroken` | `PolicySpec => []LineageUnbroken` |
| `ActingGroupsOverlap` | `PolicySpec => []QuorumsOverlap` |
| `IncidentsAreSound` | `PolicySpec => []IncidentsSound` |
| `CertifiedOrTimedOut` | `CertificateSpec => []CertifiedOrVoid` |

in `Conditions_proofs`, for every condition, all evidence and every setting of the limits, including
where JavaScript and the others differ in the length of a text:

| Theorem | Statement |
| --- | --- |
| `ConditionsAgree` | `ConditionSpec => []VerifiersAgree` |
| `ConditionsSound` | `ConditionSpec => []VerdictSound` |
| `VerdictsStand` | `ConditionSpec => VerdictStands` |

and in `Preflight_proofs`, for every chain, every content of its states and every plan:

| Theorem | Statement |
| --- | --- |
| `ReportsOneState` | `Spec => []ReportFromSnapshot` |
| `ReportsSupported` | `Spec => []SupportedRelease` |
| `ReportsOnlyRelease` | `Spec => []OnlyRelease` |
| `GenuinePasses` | `Spec => [](InFlight /\ departed = {} /\ (\E args \in Arguments : Constructed(args)) => Answered)` |

Some of these properties (`WellFormed`, `DeadlinesBounded`, `AuthorityExpires`,
`LastPoolCheckRedundant`, `InFlight`, the observer's and the quorum's `TypeOK`) are steps towards
others, or follow closely from the code; they are proved and no longer take up a run.

Assumptions: `DeploymentAssumption` (what the constructors demand of the roles),
`WidthAssumption` (widths are naturals, reason codes are bytes), `InputAssumption`
(inputs have the types of the ABI). Nothing is assumed about stakes or dates, for which the
kernel's own validation is enough, nor that the executions are finitely many. Outside the contract:
`NullAssumption` (the JavaScript model's `null` is neither a wallet nor a challenge record),
`DraftAssumption` (numbers have passed `decimal` and `uint64`; fingerprints are digests, of which
only the order matters, and are written as naturals), `QuorumAssumption` and `LatencyAssumption`
(members are distinct and the quorum is a majority of them, as 2 of 3 is in the prototype),
`ConditionAssumption` (what the parser guarantees of a value: its digits are digits and its sign a
sign; it may still be invalid), `TextAssumption` (a code point takes one or two UTF-16 units) and
`TreeAssumption` of `Conditions` (a document is a finite tree),
and those of the chains that the observer and the preflight read. For the preflight these say
besides that the reviewed runtime holds each immutable somewhere and no two at one place
(`BoundaryAssumption`, which `normalizedRuntimeBoundary` checks of the reviewed boundary), and that
the constructors' arguments have the types of the ABI (`ArgumentAssumption`).

The argument. Each action is first summarised, per challenge, by one of eight
relations (`MoveOpen`, `MoveAccept`, `MoveRenonce`, `MoveClose`, `MovePropose`,
`MoveDispute`, `MoveDecide`, `MovePay`) or by "this challenge is untouched" (`Same`,
`Touches`, `Idle`); `StepMoves` proves that every step is one of these. The invariants
are then preserved by case analysis over moves instead of over seventeen actions, and
only the lemmas below `StepMoves` ever expand an action. `Typed == TypeOK /\ WellFormed`
is the inductive invariant for types: `TypeOK` alone is not inductive, because the
width of a deadline or of a doubled stake follows only from the execution rules that
held when the challenge was opened, which `WellFormed` carries along. The other
invariants are inductive relative to `Typed`, with two additions: `OneChallengePerNonce`
needs that every opened challenge's nonce is marked as used, and `PayoutMatchesOutcome`
follows from `BooksBalance`-style facts about which state creates which entitlement.

`AggregateLiability` is a sum over challenges, stated as the number of owed units. Its proof
splits the units into those of the challenge that moves and those of the others, and counts both;
the strengthening `FinitelyOwed` says that there are finitely many, which the set of executions
need not be. `CheckedArithmeticNeverReverts` follows from the books, solvency and the deadlines
together. The refinement of `TwoPartyEscrow` takes each relation in turn: `MoveOpen` is `Fund`,
`MoveAccept` is `Match`, `MoveClose` and `MoveDecide` are `Settle`, `MovePay` is `Withdraw` (or a
stutter, were the amount zero), the others are stutters; `Books` supplies what an abstract step
knows and the code computes from storage, such as that a match leaves exactly two stakes held.

`NobodyLockedIn` and `TurnsNeverOverlap` are about what can be done rather than what is. The
properties that TLC checks, `ExitsOpen` and `OneWindowAtATime`, say this with `ENABLED`, which is
beyond the prover; the theorems say it with the guards, spelled out (`TimeoutOpen`, `CanCollect`,
`ProposalOpen`, `DisputeOpen`, `ArbiterMayAct`), and are therefore not listed as theorems of those
properties. The actions do nothing beyond their guards but assign every variable, so a guard
that holds can be used. Three facts carry the first theorem. The longest chain of windows, from the
last second for a proposal, ends by `timeoutVoidAt` (`DeadlinesBounded`). What a wallet is owed is
the whole of what its outcome gives it (`EntitlementsWhole`, an invariant of its own: an
entitlement is granted once, to a wallet that had none, and paid once), so that the fixed amount
which a claim or refund asks for is the amount that is there. And no challenge owes more than the
aggregate (`OwesItsPart`, from `AggregateLiability`), so that neither the subtraction nor the solvency check
before a transfer reverts. Left out of `CanPay` is the recipient's headroom in the token, which the
token's own supply guarantees; `ExitsOpen` includes it.

For the token boundary the inductive invariant is `Accounted`: at most one call waits, and
what it has booked is known relative to the storage at its entry (`Waiting`): nothing yet
for a deposit, the whole amount for a payment. `EveryUnitMoved` alone says nothing while a
call waits. `PoolCheckDominated` is the statement of `docs/ATTACK-MATRIX.md` that the
post-transfer insolvency guard is "formally dominated by exact-delta and solvency
preconditions", for a token without any restriction.

`CallsImplementEscrow` carries the refinement over to that token. What is committed is taken as a
storage of its own (the instance `Seen` of the contract's proofs), to which all lemmas about
moves apply. Nothing in a call's own steps reaches it until the call returns, and what commits then
is what the same call of `ChallengeEscrow` writes at once. That needs the invariant `Atomic`: the
committed storage satisfies `Typed` and `BooksBalance`, and `Pending` keeps, for the call that
waits, the checks it passed, which were made against what is still committed when it returns.
The pause flag, which `setPaused` may move inside a call, is left out of that storage: no deal
depends on it.

For the inspector the contract's own invariants are almost enough; `Inspectable` adds what only the
client asks for, such as that an acceptance has a date between opening and deadline and that an
entitlement has an amount. `SplitReadRefused` is an action property: one step moves an entitlement of
a challenge, and the record read before it does not add up with the entitlements read after it. For
the projector, `Mirror` says that a complete view is the storage, and `Undeceived` what a record without
conflict says when logs are missing. Every log does one of four things to the view
(`Learns`): it is withheld, it is refused, it contradicts a view that earlier losses have left
incomplete, or it makes the record say what the contract now stores; what a record says stays true whatever the contract does next, because only
facts that never change back (an acceptor, a terminal state, a payout) are claimed of it.

`ModelAcceptsContract` maps each stored challenge to the model's record and each transaction to the
model's action of the same name, the guard first. Guards and effects are written differently on
the two sides (the model bounds stakes by half of the width where Solidity's arithmetic is checked;
it keeps wallets as keys of an object, `null` for what Solidity keeps as zero), so that a step of
the model needs three invariants of the contract: `Typed`, `BooksBalance` (before a match nobody
has an entitlement, whence the new acceptor's entry is empty) and that the nonce stays within its bound.

For the observer the inductive invariant is `TypeOK /\ OneBranch /\ InFlight`. `OneBranch`
alone says nothing of what a synchronization has collected, and the last read replaces
the accepted state by exactly that; `InFlight` states, read by read, that the part kept
lies on the branch of the candidate and that the part loaded is an unbroken run above it.
The proof rests on lemmas about branches of a tree and on `TreeAssumption` (ancestors are
closed under ancestry, one per height) and `LimitsAssumption` (what the constructor
demands). It makes no use of `gone`: a branch that comes and goes cannot break it.
`RollbackBounded` needs `DepthKept` beside it: the depth was compared when loading began, with
the head of that moment, which is still the head when it ends. For `LogsComplete` and
`ReconciledTogether` the invariant `Tracked` says that each block an operation follows is on the
chain or gone since the operation began; if no branch returns, a closing read that finds the
block on the chain shows that it was there at every read in between. The premise `~Returns` is a
hypothesis of these theorems, and the runs `reorg_omits` and `reorg_mixes` show that the logs and the
direct state each fail without it.

For the quorum the inductive invariant says that every endpoint without an error is
coherent (`EndpointsSound`) and that the report is the one computed from the endpoints under a
threshold that passed validation (`ReportCurrent`). The heart is a counting lemma: two
subsets of the providers that each hold more than half of them share a member. A single
provider therefore voted for both agreed heads of two tags, and its own snapshot had
passed the coherence check; for one tag, two winning groups would share a provider that
stands for two headers.

For the policies, `LineageUnbroken` is strengthened by "each accepted policy passed
`validateAuthorityPolicy` when it was accepted", and `QuorumsOverlap` follows from that by
counting: two groups above half of a finite set meet, and sets of different roles are disjoint.
`IncidentsSound` needs that the last matrix is that of an accepted policy (`MatrixInv`) and that a
validated member list increases: its fingerprints are then as many as its entries, and those left
when the first `n` are lost are the others. `CertifiedOrVoid` needs no invariant beyond what the
decision records: the certificate names the first `Quorum` available members, which are so many
different ones.

For the preflight the inductive invariant states, request by request, what the checks so far
have established about the values kept; all of it is about the state of one block, so that
movements of the chain cannot disturb it. Only `OnlyRelease` speaks of the chain: the snapshot
block was on the chain when its header was read and is on it at the end, and if nothing has
returned it was on it when the logs were read. `GenuinePasses` is `GenuineNeverRefused` with the
checks of the awaited read spelled out (`Answered`) in place of `ENABLED`. It needs `Grown`: while
nothing has left the chain, the header is still on it and not below the deployment. The rest
follows the constructors' rules through the reader's: the code holds each argument at every place of
its immutable, the getters answer it, the one log of the range says it, and four roles that the
constructors keep apart pairwise are four.

For the condition language nothing is inductive: evidence and condition are arbitrary, and all
is in the operators. Their recursion is handled without an induction theorem that takes an
operator: `CourseOfValues` is induction over a set of naturals, taken from the well-foundedness of
their order, and `Recursion` shows that a step which at each point looks only at points of a
smaller measure has a fixed point, so that the recursive functions of the module are what their
equations say. Four arguments rest on it. Comparing digits is comparing rationals
(`ArithmeticsAgree`): a reading without leading zeros is at least the power of ten of its
length, strings of one length compare like what they read, a zero appended multiplies by ten,
so that padding two fractions to one length is taking a common denominator, and a zero
has no sign. Validation parts only where a text does (`NodesAreValid`, `ObservationsAreValid`): by
induction on `Height`, what JavaScript lets through the others do, and the converse holds of a
condition without a text between the two counts. A node's verdict says what its arguments say (`EvaluationIsSound`): by
induction on `Height`, the first argument that is not neutral is among the reasons for the
verdict, or all are neutral. And a verdict stands (`EvaluationStands`): a comparison that was
defined keeps its values when ids are added, so verdicts that are not rejections do not change, up
to the first argument that decides.

Only model-checked, being beyond this prover: the properties with `ENABLED` (`ExitsOpen`,
`OneWindowAtATime` and `GenuineNeverRefused`, of which `NobodyLockedIn`, `TurnsNeverOverlap` and
`GenuinePasses` prove the part that concerns guards) and the two liveness properties
(`EventuallySettled`, `CatchesUp`). `EveryEventDecodes`, `LimitsDecide` and
`SameRejectionBoundaries` are not theorems: they are the violations of findings 1, 4 and 5.
`DirectStateOfHead`, finding 3, is part of `ReconciledTogether` and proved under its premise.

## 6. Not modelled

Hash preimages, ABI layout, signature recovery, string handling, canonical JSON, the parsers and the
terms document
(string processing whose only protocol-level fact is injectivity); Keccak; the
release manifest and the security, formal and fuzzing drivers (I/O around other
tools); gas, reorganization of the contract's own chain, and transaction ordering by
block producers beyond free interleaving.

Of the observer: a provider that lies within one read. Of the preflight: an endpoint that lies,
and the URL rules. Of the receipts: the two sort orders, JavaScript's `localeCompare` and Python's
code points, of names and heights (`receipt.mjs:180`, `verify_receipt.py:252`); names are model
values here, and the question is about single characters.

## 7. State of the plan

Done: the contract over a conforming and over an untrusted token, its abstract escrow and the theorems;
`EventProjector`; `ReorgObserver` with its liveness and all its safety theorems; `RpcQuorum`;
`Inspector`; `ReferenceModel`; `Conditions`; `AuthorityPolicy` and `AuthorityCertificate`;
`Preflight`.

Left, in order of what matters most: a module for the order of log batches, which the projector
checks and the observer sorts; the two sort orders of receipts.
