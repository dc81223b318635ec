# Formal model of the Univer escrow core

TLA+ modules, TLC runs and TLAPS proofs for two programs of this repository:

* the **escrow server** (`src/`): an Express process with a JSON ledger on disk, a
  periodic audit of it against a remote notary, an emergency freeze, an officers'
  recovery ritual, and a set of consensus and enclave services;
* the **gateway backend** (`packages/backend/`): escrows in Firestore over payment
  providers, payout handshakes in PostgreSQL over payout rails, M-Pesa payments, and
  webhooks to partners.

Paths below are relative to the repository root. `PROJECT.json` maps every
definition to the lines it models.

## 1. Inventory

### Escrow server

| Component | State | Operations | Interacts with |
|---|---|---|---|
| Ledger store (`DatabaseService`) | `data/ledger-store.json`, an "initialised" flag, a write lock | `initializeStore`, `saveRecord`, reads | computes the root after a write and hands it to the auditor |
| Auditor (`LedgerAuditor`) | `frozen` flag (memory), checkpoint file, marker file | timer, `auditOnce`, `freeze`, `unfreezeIfClean`, `updateCheckpointNow` | reads the ledger, asks the notary, gates the write routes |
| Notary client (`NotaryAnchorService`) | cache file | `broadcastRootAnchor` (not awaited), `fetchAuthoritativeState` (3 attempts with timeouts) | external notary service |
| Recovery (`AdminRecoveryService`) | request-id file, quarantine files | `verifyMultiSig`, `attemptHealAndReturnOutcome` | rewrites the ledger in place, then checkpoint and re-audit |
| Router (`EscrowRouter`) | none | `/lock`, `/release`, `/admin/unfreeze`, proof, cluster, consensus, reconciliation and migration routes | all of the above |
| Merkle tree, accumulator, verifier (`services/merkle`) | none that outlives a request | root, proofs with index or with direction markers | store, auditor, recovery, proof routes |
| Compactor (`MerkleCompactor`) | active tree, checkpoints, checkpoint index | add leaves, checkpoint, prune | its own trees |
| Raft and BFT commit (`services/consensus`) | log and commit index (memory), peers, shares and payloads in callers' hands | register peer, verify transition, aggregate, append and commit | the commit waits for `saveRecord` |
| Membership (`ClusterMembershipManager`) | node table, failure counts, proposals | register, heartbeat, failure, propose, vote, finalize | none |
| Time anchor | window of assertions | ingest, median | proposals' time locks |
| Reconciliation, snapshots | chain of applied blocks, snapshot history | begin, apply, complete, create | reconciliation routes |
| Key rotation | epochs, unspent references | register, spend, rotate | enclave readiness |
| Sealing and migration | active sealing context, blobs | seal, unseal, upgrade | upgrade route |
| Cold recovery | none | rebuild a secret from shares | enclave readiness |
| Enclave bridge, provisioning | readiness, attested peers | attest, provision, join, revoke | gates `/lock`, rotation, recovery |
| Vsock adapter | connection map, sockets, timers | start, stop, connect, disconnect, send | host of the enclave |
| Anti-DoS puzzles (`services/security`, `middleware`) | request counters, open challenges | count, challenge, verify | in front of `/lock` and two consensus routes |

### Gateway backend

| Component | State | Operations | Interacts with |
|---|---|---|---|
| Escrow service (`escrow.service.ts`) | one Firestore document per escrow | create, lock, release, refund, dispute | payment provider between read and write |
| Incoming webhooks (`webhook.controller.ts`) | none | verify the transaction, find the escrow, release | provider, escrow service |
| Payout handshakes (`PaymentService.ts`, `payout/router.ts`, `payoutProofController.ts`) | `PayoutHandshake` rows | create, OTP release (two routes), payout, proof of delivery | payout rails, AI judgement |
| M-Pesa payments (`PaymentController`, `mpesa.service.ts`, `firestore.service.ts`) | revenue log, subscriptions, premium users | initiate, push, subscribe, callback | Daraja, the buyer |
| Outgoing webhooks (`webhook.service.ts`) | calls in progress, dead letters | post, pause, retry, dead-letter | partners |

### What is hard here, and what makes each part correct

* **Ledger.** Files are written synchronously, but audits and rituals wait for the
  notary, and locks are accepted meanwhile; anchors are fire-and-forget; the process
  may die between two file writes; the `frozen` flag does not survive a restart.
  Correct means: an acknowledged lock is not silently lost; a frozen server is
  visibly frozen; what a ritual thaws agrees with its checkpoint; tampering is
  eventually noticed; every ritual ends; only enough officers can start one.
* **Commit path.** Handlers extend the log, wait for a save and then move the commit
  index; log and index are lost in a restart while callers keep their payloads.
  Correct means: entries become durable and committed in order, the newest entry of a
  transaction is the row, a payload is good for its own slot and saves one entry, and
  what is aggregated is what the commit accepts.
* **Services.** Messages come late, twice and in any order. Correct means: suspicion
  matches the reports, nobody is evicted without approval, catch-up is one unbroken
  chain, a minority of bad clocks cannot move the anchor, keys of unspent transactions
  stay, migrated state opens, a secret does not depend on the order of its shares.
* **Links.** Timers race with closes, answers get lost. Correct means: every caller of
  `connect` and every delivery gets a result, and the result is borne out.
* **Escrows and payouts.** Every operation reads, calls a provider and writes back.
  Correct means: a document or row claims no more than the provider did, and money
  does not move more often than the requests in flight and the failures account for.

`hazards` in `PROJECT.json` lists the places, with the properties that watch them.

## 2. Modules

| Module | Models |
|---|---|
| `LedgerGuard` | store, auditor, notary client, heal and unfreeze, crashes, external edits |
| `MerkleTree` | tree, inclusion proofs, leaf hash, ledger root (pure operators) |
| `LedgerProofs` | proof and root routes, marker proofs, held roots (extends `MerkleTree`) |
| `MerkleCompactor` | checkpoints and pruning |
| `RecoveryQuorum` | officer configuration and `verifyMultiSig`, as `/admin/unfreeze` calls it |
| `ClientPuzzle` | request counting, challenges, the middleware and its two mounts |
| `CommitLedger` | abstract: what the commit path promises |
| `QuorumCommit` | peers, shares, payloads, log, write queue, commit, restart; implements `CommitLedger` |
| `ClusterMembership`, `TimeAnchor`, `CatchUp` | the other consensus services |
| `EnclaveBoundary` | attestation, readiness, joining, share forwarding gate, key epochs |
| `SealedState`, `ColdRecovery` | sealed blobs and migration; recovery from shares |
| `VsockBridge` | connections, timers and sockets of the adapter |
| `EscrowLifecycle` | one escrow document, its five operations and the provider webhook |
| `PayoutHandshake` | handshake rows, OTP release, payout, proof of delivery |
| `MpesaPayments` | payment requests, pushes, subscriptions, callbacks, premium status |
| `WebhookDelivery` | attempts, pauses and dead letters of outgoing webhooks |
| `LedgerGuardProofs`, `QuorumCommitProofs`, `EscrowLifecycleProofs` | theorems about the module of that name |
| `ClusterProofs` | theorems about `ClusterMembership`, `TimeAnchor` and `CatchUp` |
| `EnclaveProofs` | theorems about `EnclaveBoundary`, `SealedState`, `ColdRecovery` and `VsockBridge` |
| `CheckProofs` | theorems about `LedgerProofs` and `MerkleTree` (which are models), `MerkleCompactor`, `ClientPuzzle` and `RecoveryQuorum` |
| `PaymentProofs` | theorems about `PayoutHandshake`, `MpesaPayments` and `WebhookDelivery` |
| `Induction` | induction over numbers and finite sets, recursive functions and sums, for the other proof modules |
| `MC...` | instances for TLC. `MCLedgerGuard` composes `LedgerGuard` with the real Merkle tree as its root function; `MCChecks`, `MCServices` and `MCPayments` put components without common state in one run, each explored with the others at rest |

### LedgerGuard

Disk: `store`, `checkpoint`, `marker`, `requests`, `quarantine`. Memory: `inited`,
`frozen`, and the audits and rituals in flight. Network: `anchors` in flight and the
`notary`'s root. History variables: `acked` (records whose `/lock` was answered 201),
`damaged` (files hit by a fault, or written with content that was out of date, and not
rewritten since) and `faults`.

Node runs one handler at a time and the file calls are synchronous, so a handler is
cut exactly where it waits for something outside the process: the notary calls, and
the dynamic `import` in the middle of a heal. `SaveRecord` is the gate of `/lock` (or
of `/consensus/append-entry`) together with all of `saveRecord`: initialisation,
upsert, rename, checkpoint, broadcast. `AuditStart`, `NotaryServeAudit`,
`AuditUnreachable` and `AuditFinish` are the parts of `auditOnce`; `RitualStart`,
`HealTruncate`, `HealCheckpoint` and `ReauditFinish` those of the ritual;
`RitualReplay` is a request id that healed before. File writes whose failure the code
swallows fail nondeterministically (`Writes(written, lost)`); `Overtaken` is a heal
whose ledger was written again before its checkpoint. `CrashInSave` and
`CrashInHeal` are crashes between two file writes of one step, `Restart` any other.

Abstractions:

* A record is an id and a body; the body stands for what the leaf hash covers. The
  time-lock window is not covered by `escrowRecordLeafHash` and is left out here, so an
  edit of a window alone is no mismatch; `LedgerProofs` has the windows.
* The notary is external. It keeps the root that arrived last, as the harness in
  `scripts/mock-notary-harness.ts` does when it updates on each anchor.
* The three attempts of a notary call are one outcome: an answer or giving up.
* `Slot` bounds broadcasts in flight; one that gives way counts as lost.
* The write gate is the `frozen` flag. The enclave gate only removes behaviours.
* `LedgerGuard` and `QuorumCommit` model the handlers of `/lock`,
  `/consensus/verify-state-transition` and `/consensus/append-entry` themselves. As
  the router mounts its anti-DoS gate at present, no request reaches them (run
  `lock_unanswered`); the models say how they behave behind a gate that lets requests
  through. The submit handler of `src/index.ts`, a different entry point, saves
  without the freeze gate and starts no audit; it is not part of this system.

### MerkleTree, LedgerProofs, MerkleCompactor

A hash is its preimage, a sequence of tokens, so equal hashes mean equal preimages
(SHA-256 taken as injective; the domain tags are tokens). `LedgerProofs` has two
ledgers: `leaves`, any sequence of leaves with repetitions, for what proofs and roots
determine, and `rows`, written by the upsert of `saveRecord`, with a root that an
auditor fetched at some earlier time (the checkpoint that `LedgerAuditor` compares the
ledger with is such a root too). A row is its id, its time-lock window and the body,
which is everything else; `LeafHash` leaves the window out, as `escrowRecordLeafHash`
does, and `HeldRootPinsContents` accordingly speaks of ids and bodies. The constructor's loop is a recursive function
from the number of passes to layers (`Built`), `Height` the pass at which it stops, and
the walk up a proof a recursive function too. In the compactor a tree is its number of
leaves; `taken` is history: what was stored first under each index.

### RecoveryQuorum

A signature entry names a key and carries what was really signed, or garbage; the
submitter may repeat, reorder, mislabel or lift signatures. `Submit` is
`verifyMultiSig` applied to one request, the loop written as a recursive function over
the signatures with the code's set of seen keys.

### ClientPuzzle

The clock, the window with its counters, one challenge per client, and one request
per client that waits at the gate. A mounted middleware runs in one step: count,
admit below the pressure limits, else verify a solution or answer with a challenge.
The factory mount takes the request and does nothing. `free` and `uses` are history.

### QuorumCommit and CommitLedger

A handler of `append-entry` runs up to the await of `saveRecord` in one step
(`AppendEntry`); the saves run in the order of the write lock (`SaveRecord(k)`,
`SaveFails(k)` for the position k that `NextToSave` names), and a handler resumes later
and moves the commit index (`Committed`). `Restart` loses peers, log, index and waiting
handlers, and keeps ledger, shares and payloads. `VerifyStateTransition` issues a share
on any node, `AggregateShares` makes a payload of some of those and of `OtherShare`,
shares that callers hold and no node here issued.

The body of a request is the caller's: its term, its cluster size and its payload are
those of any member of `Request`, or its payload is one that was aggregated. The code
looks at the shape of a payload only. It verifies no signature, asks for no membership,
takes the cluster size from the request, and compares the commitment with the entry it
was read from. A request that gives a cluster size of one and a payload of one share
commits, and the run contains it. So no property here says that a quorum approved what
is saved. What is claimed instead is about the commit path as it is:
`PayloadSavesOnce`, since indices are never reused while the node runs and every share
of a payload names its index, and `AggregatesAccepted`, since aggregation and commit
each compute f and the threshold for themselves.

`CommitLedger` knows rows, durable indices and a commit index. The refinement maps
each variable to the one of the same name; appending, sharing and aggregating are
stutters.

### ClusterMembership, TimeAnchor, CatchUp

All methods are synchronous, so each is a step, and the steps come in any order. A
proposal is identified by target and millisecond, as in the code; votes are entered
under the local id, so a proposal counts them. The anchor keeps doubled values because
a median of an even number of times is a mean; the sorted list of times is written by
ranks: at place k is the time that fewer than k are below and at least k reach up to. A
catch-up block is its index, the hash
it claims to follow and the hash of its entries; `trail` is history.

### EnclaveBoundary, SealedState, ColdRecovery, VsockBridge

A document is worth what its two measurements are worth; attestation of this node, of
a joining node and of a receiver of shares all run through the same examination, which
sets the same readiness flag, as in the code. A blob is its policy and platform. The
map of a recovery holds the first usable share of every node (`Distinct`), and the
stable sort by index is written by ranks (`SortedShares`). The
adapter's sockets are external: they connect, fail, are closed by the other end, and
after `destroy` report a close in a later turn.

### EscrowLifecycle

Each operation is a read with its checks (`LockRead`, ...), the provider call
(`LockCharge`, `ReleaseVerify`, `RefundCall`) and `Write`, where `Merged` is
Firestore's `update`: fields the snapshot lacks stay, fields it has are overwritten.
The provider is external: each `initializePayment` opens a new transaction, each
`initiateRefund` takes place. `Abort` ends a request anywhere, which stands for
refusals, exceptions and crashes; `lost` counts the ones that happen after the
provider charged or refunded. The integrity hash, the metadata and the amounts are
left out: nothing in the control flow looks at them.

### PayoutHandshake, MpesaPayments

Every database call is one step; the OTP transaction runs at read committed, so its
three statements are separate steps. The rails and the AI judgement are external:
the rail pays or refuses, the judgement is any pair of verdict and score.
`processedReleaseTxId` contains the handshake id and the time, so it never collides
with another row. `died` counts requests that end between a payout and its record.

A payment request logs revenue if the installation is unauthorized, fetches a token
and pushes, or records a subscription; every await may fail, also after it had its
effect. Amounts are cents, and `AmountWholeKES` is the code's division. A phone number
is its digits and whether it has a plus, and `NormalizePhone` drops the plus. The
callback route has no authentication and matches no push: `ProcessWebhook` takes any
number, as a string or not, with any result code, at any time and any number of times.
Nothing in the code keeps a body that claims success from granting premium. `stray` is
history: the numbers such bodies named while no push to them was paid, and
`PremiumPaidFor` exempts exactly those.

### WebhookDelivery

One call per event, its attempts as a sequence of answers. A post without an answer
may or may not have reached the partner. A restart of the process loses the call;
nothing is persisted before the dead letter, so there is nothing to recover.

## 3. Runs

| Run | Bounds | Checks |
|---|---|---|
| `guard_safety` | 2 transactions, ledger of 2, 1 audit, 2 rituals, 1 fault (about 446 thousand states up to the symmetry of the rituals) | `TypeOK`, `FrozenIsMarked`, `AckedKept`, `ThawMatchesCheckpoint` |
| `guard_liveness` | 1 transaction with 2 bodies, 1 audit, 1 ritual, 1 fault | `MismatchIsNoticed`, `RitualEnds` |
| `guard_reauditwrite` | no faults | refutes `NoWriteDuringReaudit` |
| `consensus` | ring of up to 4 nodes, 2 versions of one escrow, 4 proposals (one outside its time lock, one malformed), 10 request bodies (complete for a slot in a cluster of four and of one; without payload, of a stale or later term, of another size, with too few nodes, of a negative size), log of 2, 2 shares and one held by a caller, 1 aggregated payload, 1 restart or failed save (about 457 thousand states) | `NewestRowWins`, `PayloadSavesOnce`, `AggregatesAccepted`, and `ImplementsCommitLedger` (refinement) |
| `checks` | 2 officers and a stranger, lists of up to 3 signatures; 2 clients, limit 1, clock to 4, 3 challenges; all sequences of up to 6 leaves over 3 values; ledgers of 3 transactions with 2 bodies and 2 windows; compactor to checkpoint 6 (about 117 thousand states) | `GateDecidesQuorum`, `FreeAdmissionsBounded`, `SolutionUsedOnce`, `ChallengeSurvives`, `ProofsDecide`, `RootBindsLeaves`, `HeldRootPinsContents`, `CheckpointsKept` |
| `services` | 2 members, 2 failures to suspicion; 3 block indices, 2 contents; 5 clocks and a window of 4; 3 epochs, 2 transactions; 2 of each platform id; 3 share holders, threshold 2; 2 connections; 2 events, 3 attempts (about 164 thousand states) | `SuspicionMatchesCount`, `EvictionHasApproval`, `ChainUnbroken`, `AnchorIsHonest`, `WindowStaysFull`, `KeysKept`, `KeptForCause`, `LatestBlobOpens`, `AuthorityStays`, `RecoveryDetermined`, `OnlyOpenIsUsed`, `ConnectSettles`, `ResultsBorneOut`, `DeliveryEnds` |
| `escrow_concurrent` | 2 requests, 4 transactions, 1 lost answer, 2 refunds each | `TypeOK`, `StatusBacked`, `ChargesBounded`, `StampsStay` |
| `escrow_refundrace` | 2 requests | refutes `RefundedIsFinal` |
| `payments` | 2 handshakes, 2 requests, 2 keys, 1 cut-off; 2 M-Pesa requests, 2 numbers and one without digits, amounts 99 and 100 cents, callbacks with every number, form and result code (about 716 thousand states) | `ReleasedForCause`, `PayoutsBounded`, `PremiumPaidFor`, `SuccessIsBacked` |
| `payout_doublepay` | 1 handshake, 2 requests | refutes `PaidOnce` |
| `payout_unverified` | 1 request | refutes `PaidMeansVerified` |
| `lock_unanswered` | 1 client | refutes `RequestsAnswered` |

Why the bounds are enough for what they are for: a ledger of two records is the
smallest in which a heal cuts off an acknowledged one; two rituals and an audit are
the smallest set in which two heals and a freeze overlap; two bodies let an edit or an
update change a root without changing the length. Four nodes are the smallest ring
with f = 1, and two shares with the caller's one make a payload of it, fewer peers one of
a smaller size; two entries of one transaction are
what can overtake each other, and two slots what a payload can be tried on. Six leaves include odd layers at two levels at once;
three signatures or shares allow a bad one, a good one and a repetition. Five clocks
and a window of four make an eviction happen, and leave three right clocks against a
wrong one. Three epochs allow a transaction to be registered again after a rotation
that kept its epoch. Four transactions and four payouts are more than `ChargesBounded`
and `PayoutsBounded` allow with two requests and one failure, so the bound itself never
makes them true. 99 and 100 cents are the two sides of a whole shilling.

In `MCChecks`, `MCServices` and `MCPayments` each component runs with the others in
their initial states. They write no state of each other, so every state of a component
is reached, and products of unrelated states are not.

`ThawMatchesCheckpoint` has two exemptions that matter only with overlapping rituals,
and TLC finds it violated without either: a re-audit may succeed while another heal has
truncated the ledger and not yet written the checkpoint, and a slow heal may write the
checkpoint of its own prefix over a newer one (it then counts as damaged until it is
written again). In both cases the marker goes from a ledger that does not match, and
the audit that follows freezes again.

What some of the properties do not say: `AckedKept` exempts a lost quarantine write
and a torn heal write; `CheckpointsKept` does not speak of the pruning that is refused
at the limit, nor `EvictionHasApproval` of one node voting repeatedly, nor
`ChainUnbroken` of a new reconciliation that begins further back, nor `KeptForCause` of
references that are never removed, nor `ReleasedForCause` of two OTP releases that are
both answered with success.

Deadlock is checked in the ledger and escrow runs. The others may stop: at the bounds
on log, leaves, counters and arrivals, or because nothing is left to do once all rows
are released or all events are delivered.

### Disagreements with the repository's own words

* `guard_reauditwrite`: the "synchronous" re-audit lifts the freeze across a call to
  the notary, and locks are accepted meanwhile.
* `escrow_refundrace`: a slower dispute, lock or release takes an escrow out of
  REFUNDED.
* `payout_doublepay`: "single state transition protected by unique
  processedReleaseTxId", which is fresh in every call and written after the payout.
* `payout_unverified`: the score of a rejected proof is stored and enables the payout
  route.
* `lock_unanswered`: the tests expect `POST /lock` behind the anti-DoS gate to be
  answered 201 and later 429; `EscrowRouter` mounts the factory instead of the
  middleware it returns, and the request is never answered.

Seen while reading and not the subject of a run:

* a frozen server tells its clients "Ledger tampering detected" (`EscrowRouter.ts:64`),
  also when an audit merely asked the notary before the anchor of a lock had arrived;
* "if not configured, threshold verification always fails"
  (`AdminRecoveryService.ts:95`), but zero signatures reach a threshold of zero;
* the compactor is to prevent memory exhaustion (`MerkleCompactor.ts:3`), but the
  pruning that `createCheckpoint` starts at the limit asks for an index behind the
  current one and is always refused, so checkpoints accumulate until someone prunes by
  request;
* the readiness of a node's enclave is set by whatever document was examined last,
  also that of a joining node (`EnclaveBoundary.Examine`);
* after a snapshot in the middle of a catch-up the next block index still follows the
  blocks applied before it;
* `generateIntegrityHash` contains the time of the call, so `validateIntegrityHash`
  cannot succeed later; a PENDING escrow can be disputed and a LOCKED one refunded,
  which the state diagram at the top of `escrow.service.ts` does not show; two OTP
  releases at once are both answered with success;
* "In this repo ... full approvalHash re-validation is handled by the verify engine"
  (`EnclaveRaftEngine.ts:178`) and "requires BFT threshold payload"
  (`EscrowRouter.ts:507`): the engine is not asked again, so append-entry commits on
  any payload of the right shape, for a cluster size of the caller's choice;
* the M-Pesa callback route (`paymentsRoutes.ts:14`) is mounted without authentication
  and the handler compares nothing with a push, so a number becomes premium on any body
  with result code 0 that names it;
* the leaf hash leaves out `validAfterMs` and `validUntilMs` (`ledgerMerkle.ts:10`): a
  changed time-lock window keeps the root, the checkpoint and every proof;
* the revenue of an unauthorized installation is logged before a charge that may fail;
  a callback with a numeric phone number is acknowledged and grants nothing;
* `webhook.service.ts:126` speaks of a row in `prisma.auditLog`; the code writes to
  `deadLetterQueue`;
* a timer of `connect` that fires between a `disconnect` and the socket's close event
  makes the adapter report DISCONNECTED twice.

### Fairness

* `guard_liveness`. `WF(AuditStep(a))`: `setInterval` keeps starting audits, and a
  started one ends, because every notary call has a timeout and a bounded number of
  attempts. `WF(RitualStep(h))`: the same for the calls of a ritual, and the dynamic
  import resolves. `WF(NotaryAnchor(n) \/ AnchorLost(n))`: a broadcast has a timeout
  too. No request, crash or edit is assumed to happen, and the notary is never assumed
  to answer.
* `services`. `WF(Timeout(c))`: an armed timer fires unless it is cleared.
  `WF(Closed(c))` for a destroyed socket: Node emits its close event. A connection is
  never assumed to come about. `WF(DeliveryStep(e))`: a post ends by its timeout, a
  pause by its timer, a database call with a result or an error.
* `lock_unanswered`. `WF` of the middleware and of the handler: the event loop runs
  what is called.

## 4. Proofs

Every safety property and every action property of the passing runs is proved, for
every value of the constants that satisfies the named assumptions. An invariant that is
not inductive by itself is proved with the strengthening named here.

* **LedgerGuardProofs.** `TypeCorrect`; `FreezeIsVisible` (`FrozenIsMarked` is
  inductive by itself: every step that sets `frozen` writes the marker, and the only
  step that unlinks it looks at `frozen` again in the same synchronous block);
  `AckedLocksAreKept` (`AckedKept` is inductive relative to `TypeOK`; the argument
  rests on lemmas about the code's list operations: `PrefixFacts`, cutting at n loses
  exactly the suffix that goes to quarantine; `UpsertFacts`, an upsert keeps every
  record with another id; `ReadFacts`, resetting an unreadable store loses nothing a
  read would still have returned). `ThawsMatchCheckpoint`, for any number
  of unfreeze requests at once, by `ThawInv`: while a re-audit of checkpoint cp waits for
  the notary and no other heal stands between its two writes, the file holds cp still or
  what an accepted write or a finished heal made of it (`Agrees`), and only damage leaves
  a store that does not parse. A heal that is not overtaken makes the two files agree
  when it leaves the import, which is why the condition on other heals is enough. The root function is an arbitrary operator into
  `RootHash`: nothing depends on the Merkle tree.
* **CheckProofs.** The tree: a layer has half as many nodes, so `Height` exists
  (`BuiltThinsOut`, `HeightFacts`); the walk up from a leaf along `GetProof` meets the
  layers' nodes and ends in the root (`GetProofClimbs`), and a walk is injective in the
  leaf (`ClimbInjective`), because a node determines its children once their lengths
  are known (`NodeInjective`): `ProofsDecideHolds`. A layer determines the one below it
  when all hashes in it have one length, and two trees of one number of leaves have the
  same shape (`NextInjective`, `SameShape`, `RootBinds`), and the last leaf can be read
  at the end of a root (`RootEndsWith`): `RootBindsLeavesHolds`. `AuditInv` says that
  rows keep their order and ids and that the held root is that of an earlier prefix, up
  to the contents of its rows: `HeldRootPinsContentsHolds`. Checkpoints: every stored one
  lies behind the current index (`CompactorInv`), so none is overwritten. Puzzles:
  `FreeCounted` (what passes free is counted, and the sum over all clients, however
  many, stays below three limits; the sum is handled by `SumMonotone` and its kin) and
  `SeedsUsed` (open challenges have seeds of their own, given out and unused), from
  which `FreeAdmissionsBoundedHolds` and `SolutionUsedOnceHolds`;
  `ChallengeSurvivesHolds` follows from types. Signatures: after k of them the code's
  pair of set and counter is the set of officers with a valid one and its cardinality
  (`ValidCountFacts`): `GateDecidesQuorumHolds`.
* **QuorumCommitProofs.** `OrderInv` says what the write lock achieves: the waiting
  handlers hold ascending log indices above everything saved or resuming
  (`QueueOrdered`), the resuming ones hold ascending saved indices above the commit
  index (`ResumingOrdered`), and what is saved is in the log (`SavedLogged`). None of
  these follows from the properties, and each is needed to show that a step is a step
  of `CommitLedger`. From it: `CommitPathImplements` (the refinement) and
  `NewestIsKept`. `PayloadInv` is about the payloads. A payload that took an index past
  the checks has shares, and they all name that index (`CarriedBound`), so it cannot
  have taken two: `PayloadsSaveOnce`, for whatever payload a caller supplies. Every
  aggregate the engine makes passes the checks of the commit (`AllSound`):
  `AggregatesAreAccepted`. Neither says that a saved entry was approved by a quorum;
  the code does not establish that.
* **ClusterProofs.** `SuspicionIsCounted` and `EvictionIsApproved`, by
  `MembershipInv`: both properties, types, and `UnknownIsClean` (a node that is
  not registered has no failures on record, so a registration starts from zero).
  `WindowIsKeptFull`, by `AnchorInv` (the nodes in the window are nodes heard, and one
  of the two bounds holds). `AnchorsAreHonest`: every place of the sorted list is
  filled (`PlaceFilled`), a time at place k that lies outside the right clocks' times
  leaves all of those on one side of k (`PlaceBetween`), so the median of any set in
  which they are a majority lies between them (`MedianBetween`); applied to the window,
  this puts all right clocks within the drift of the first median, and applied to the
  nodes kept it bounds the anchor. `ChainIsUnbroken`, by `CatchUpInv`: the indices of a
  reconciliation are an interval (`IndicesInLine`) and everything applied is linked up
  to `lastHash` (`Linked`).
* **EnclaveProofs.** `EpochsKeptForCause` and `UnspentKeysAreKept`, by
  `EpochInv`: types, `RefsAgree` (an indexed transaction is referred to by its
  epoch, which is not a future one; the converse fails, since a transaction registered
  again leaves a reference behind), and `KeptForCause`. `MigratedBlobOpens` and
  `AuthorityIsKept`, by `SealedInv`: a migration sets context and blob together or
  neither. `OnlyOpenSocketsAreUsed`, by `InMap` for every connection: one in the map
  has a socket that is not closed, and an open one if its state says CONNECTED.
  `RecoveryIsDetermined`: the map has exactly one share for every sender of a usable
  one (`OneShareOfEverySender`); where no two share a node or an index, every place of
  the sorted list belongs to one share (`ApartPlaces`, by pigeonhole), and a permutation
  of the arrivals keeps every share's place (`ReorderedSame`).
* **EscrowLifecycleProofs.** `TypeCorrect` (with `DocExists`: a request that will
  write has read a document, and documents are never deleted). `StatusIsBacked`, by
  the invariant `Sound`: the document *and every update still to be written* are
  backed by the provider, since a stale update is written as it stands; backing never
  goes away because the provider only adds. `StampsAreKept`. `ChargesAreBounded`, by
  the counting invariant `Counted`: while the document is PENDING, each charge is held
  by a request that has yet to write, or was lost; once it is not, only requests that
  had read PENDING can still charge. It assumes finitely many requests in flight.
* **PaymentProofs.** `PremiumIsPaidFor` and `SuccessesAreBacked`, by `PaymentInv`: what
  is known of a request at each stage, its log line and whole shillings included, since
  the answer is given several awaits after the checks. `ResultsAreBorneOut`, by
  `Borne`: while a call goes on every answer was one that is retried and an attempt is
  left. `ReleasesHaveCause`, by `OnRow`: a request beyond the rail has paid.
  `PayoutsAreBounded`, by the counting invariant `PayoutsCounted`: while a handshake is
  LOCKED each payout is held by a request or lost; afterwards only requests that had
  read LOCKED can add one.

**Induction.** The code's loops are recursive functions or folds in the models, and
what they compute for every input is proved by induction. The library's induction
principles take a predicate and cannot be applied here; `Induction` states them over
sets instead (`SetInduction`, `FiniteSetInduction`), from the well-foundedness of the
naturals, and `Recursion` gives the function that a list of steps defines, with which
the `CHOOSE` behind a recursive definition is shown to have a witness. `SumEquation`
does the same for the community modules' `SumFunction`.

**Assumptions.** Each module names its own. Beyond the types of the constants: the sets
of clocks, members and nodes, of the gate's clients (`PuzzleAssumption`) and of
requests in flight (`PayoutAssumption`, and the escrow's) are finite, as any running
system's are; and no content of a leaf is the token that stands for the root of an empty
tree (`LedgerProofsAssumption`), which in the code is the hash of an empty string and
no leaf's hash.

Model-checked only: liveness (`MismatchIsNoticed`, `RitualEnds`, `ConnectSettles`,
`DeliveryEnds`) and everything about fairness, which is out of the prover's reach; and
the properties that runs refute.

## 5. Not modelled, and what is left

Left out: redaction and logging, HTTP parsing, provider and gateway clients, simulated
zero-knowledge and post-quantum transforms, identity and cross-chain checks, the
content of vsock frames, user interface (I/O, formatting or transforms without state);
the handshake controller that no application mounts, `disburseFunds` and the second
`initiateStkPush` of `mpesa-handler.ts`, the deprecated `webhook-service.ts` and
`commitToLedgerIfQuorum`, which nothing but tests calls; the unified bootstrapper
`src/index.ts`, which wires the same services to a second server; the offline cache of
the Flutter client.

Left for later: an abstract ledger (append, quarantine, freeze) that `LedgerGuard`
implements, and the refinement between the two.
