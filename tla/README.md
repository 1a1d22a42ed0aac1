# TLA+ models of the Arkiv storage layer of arkiv-op-geth

This directory models the Arkiv additions to op-geth. They are an entity store with
block-height expiration, kept in fixed-size storage words, and a change-data-capture
stream that turns committed blocks into batches of semantic operations for an external
indexer. Everything here is checked with TLC.

## Inventory

### Components, their state and operations

| Component | Source | State | Operations |
|---|---|---|---|
| EntityStore | `arkiv/storageutil/entity/*`, `unnamed/part_001` | one metadata word per entity key: `{Owner, ExpiresAtBlock}` packed by `Marshal` (owner in bytes 0..19, expiry in bytes 24..31); the unset word means "no entity" | `Store`, `Delete`, `ExtendBTL`, `GetEntityMetaData`, `StoreEntityMetaData`, `DeleteEntityMetadata` |
| ExpirationIndex (`entityexpiration`, **not in the tree**) | spec.md 4.2 | for each height, a head slot; for each key, a node slot `{prev, next}` | `AddToEntitiesToExpireAtBlock` (prepend), `RemoveFromEntitiesToExpire` (O(1) splice), `IteratorOfEntitiesToExpireAtBlock` (walk) |
| HousekeepingSweeper | `arkiv/housekeepingtx/housekeeping_transaction.go` | none of its own; the expiration logs it returns | `ExecuteTransaction(blockNumber)`: collect the height's list, `Delete` each key, log `{key, owner}`, abort on the first error |
| Storage transactions (`storagetx`, **not in the tree**) | spec.md 4.3, `unnamed/part_002` (feature file), `testutil` | none | Create / Update / Extend / ChangeOwner / Delete, all or nothing; at most 1000 operations; annotation key grammar |
| Storage accounting | `arkiv/storageaccounting` | the used-slot counter | `GetNumberOfUsedSlots` reads it; the updater is not in the tree |
| EventDeriver | `unnamed/part_000` (`blockToEvents`) | pure | a block and its receipts become an ordered operation list |
| BatchStream | `arkiv/dbevents/chain_batch_iterator.go` | the shared slot `block` behind a `sync.Cond`, `lastBlock`, `chainConfig` | `onNewHead` (producer), the iterator loop (consumer): wait, take the head, read up to 100 blocks, yield |
| RPC API | `eth/api_arkiv.go` | none of its own; it reads the chain's head, headers and states | `Query` (pinned to the head when no `AtBlock` is given), `GetEntityCount`, `GetNumberOfUsedSlots`, `GetBlockTiming` |

### How the components interact

Block processing is single-threaded and deterministic. At every block the housekeeping
transaction runs first. It sweeps the list of the block's height through EntityStore and
ExpirationIndex, and it writes one expiration log per entity into its receipt. The
storage transactions of the block then call the EntityStore primitives. The streaming
side is a second domain. After a commit, the chain calls `onNewHead`, which overwrites
the shared slot and signals. The iterator goroutine takes the slot, reads the canonical
blocks and receipts after `lastBlock` from the database, runs `blockToEvents` on each
block and yields a batch. The consumer returns `false` to stop. The RPC handlers run
on their own goroutines. Each reads the current head and then reads more of the chain
(the parent header, the head's state), while the chain may commit or rewind in between.

### What is hard

* **Index and metadata must agree** after any sequence of operations. `Delete` and
  `ExtendBTL` unlink a key from the height their metadata records. One wrong write makes
  a list lose or double a key, and that error only shows blocks later.
* **The sweep deletes the list it walks.** `Remove` clears the node, so the list must be
  collected first (`slices.Collect`, line 69).
* **Exactness of expiry**: an entity is removed exactly at block `ExpiresAtBlock` and
  never later. uint64 wrap-around in `ExtendBTL` and the choice of height to sweep are
  boundary cases.
* **The two `GetEntityMetaData` versions** in the tree. One fails on a missing entity and
  the other returns zero metadata.
* **Producer/consumer interleaving.** Heads are coalesced (overwrite-latest), heads at or
  below `lastBlock` are ignored, the chain can rewind while the iterator reads, and the
  consumer may cancel at a yield.
* **Deriving a total order** of operations from transactions and logs.
* **An unlocked read.** The iterator reads `chainConfig` at line 80 without the lock
  that `onNewHead` writes it under.

### Properties that make each component correct

* EntityStore + ExpirationIndex: the index equals the metadata, and a deleted entity
  never comes back.
* HousekeepingSweeper: it removes exactly the due entities, logs them with their owners
  and never fails. No entity is left overdue. Every due entity is eventually removed.
* BatchStream: the delivered stream is gapless and in order. No wake-up is lost.
  Receipts are never derived with a nil chain config. The
  stream eventually catches up with the head. A batch is all or nothing (spec.md 4.6).
* EventDeriver: `(TxIndex, OpIndex)` is unique and ordered. Create operations are paired
  with the created logs.
* RPC API: `GetBlockTiming` reports the gap between a header and its own parent, whatever
  the chain did between its reads.

## Modules

| Module | Models | Notes |
|---|---|---|
| `EntityExpiration` | the expiration index | Operators over a storage record `s = [meta, node, head]`. The package is not in the tree, so it is modelled from spec.md 4.2 and marked `spec_modelled`. |
| `EntityStore` | `Store`, `Delete`, `ExtendBTL` and the metadata word | Each Go function is an operator from storage to storage, composed exactly as the code calls them, so `ExtendBTL` is Remove, then Add, then Store. `MissingMetaDataIsError` selects which `GetEntityMetaData` is built. `Width` is the bit width of `ExpiresAtBlock`. |
| `BlockProcessing` | housekeeping and storage transactions over blocks | Variables: `st` (the processor's storage), `block`, `swept`, `halted` (housekeeping returned an error), `logs` (this block's expiration logs), and the history sets `created` and `gone`. `Housekeeping` is the whole of `ExecuteTransaction`: it collects the list, then deletes each key in turn (`DeleteAll`). A failing storage transaction is reverted, so it is a step not taken. |
| `EntityLifecycle` | what the entity store promises (spec.md 3, 4.1-4.4) | Abstract: a map from keys to `{owner, expiresAtBlock}` with no index. `Sweep` removes exactly the due entities in one step. Create, Update, Extend, ChangeOwner and Delete change one record, each as spec.md allows. `BlockProcessing` instantiates it with `meta <- st.meta` and `NoEntity <- ZeroMeta` (`Lifecycle`), and `RefinesLifecycle == Lifecycle!Spec` is checked as a property, fairness included. |
| `ChainBatchIterator` | `NewChainBatchIterator` and `onNewHead` | Chain state: `chain` (the head), `ver` (the fork version of each canonical height), `stored` (blocks and receipts in the database, each with its version and its parent's version), `rewinds` and `pending` head events. Iterator state: the slot `block`, `pc`, `hash`, `newBlockNumber`, `batch` and `lastBlock`. Consumer and history: `delivered`, `cancelled`, `checkpoint` and `restarts`. `TakeHead` is the locked wait-and-take. `ReadHash` (line 73), `ReadReceipts` (lines 78-85) and `ReadBlock` (lines 87-101) are separate steps, so the chain can move between them. `EndBatch` is the end of the inner func and the `continue`. `Rewind` is a reorg (old blocks kept) or, with `SetHeadDeletes`, a SetHead (blocks above the head deleted). `Restart` rebuilds the iterator from the consumer's checkpoint. `chainConfig` is the shared variable. `visible` holds the values the racy read at line 80 may return under Go's memory model: the value at the iterator's last lock, plus every write since. `ReadReceipts` takes any of them. |
| `BlockToEvents` | `blockToEvents` | A pure operator, checked over every block of a bounded shape chosen in `Init`. An operation keeps its indices, its kind, its key (from the created logs for Create, from the payload otherwise) and its BTL. |
| `ArkivPipeline` | the composition of block processing, `blockToEvents` and an indexer | It wraps each `BlockProcessing` action so that the block's transactions are recorded as `blockToEvents` sees them: the housekeeping transaction first, then each storage transaction with its status and created logs, including failed ones (`PFailed`) and ones with two Creates (`PCreate2`). At the end of each block, the indexer applies the block's derived operations to its `replica`. |
| `ArkivAPI` | `GetBlockTiming`, `GetNumberOfUsedSlots`, `Query`'s `AtBlock` default | Chain state: `head`, `canon` (the version of each canonical height), `stored` (headers and their states in the database), `written` (history) and `rewinds`. A header is `{n, v, parent, time}` and its hash is `<<n, v>>`. Handler state: `pc`, `hdr` (the header read first) and `result`. `ReadHead` is the `CurrentHeader`/`CurrentBlock` read. `TimingParent` (lines 84-94) and `SlotsState` (lines 65-73) are the second reads, so commits, reorgs and SetHeads (`Rewind(h, deletes)`) can come between. |
| `MC*` | instances for TLC | They hold only model values. |

## Runs

| Run | Checks | Result |
|---|---|---|
| `block_processing` | `TypeOK`, `ExpirationIndexConsistent`, `NoOverdueEntity`, `NoResurrection`, `ExpireExactlyDue` (action) | pass, 73,233 states |
| `block_lifecycle` | `ExpiredEventually` under weak fairness of `Housekeeping` and `NewBlock`; `RefinesLifecycle`: `BlockProcessing` implements `EntityLifecycle` | pass, 2,829 states |
| `block_unchecked_get` | `NoResurrection` with the `get_entity_metadata.go` version | **violation**: an Update or ExtendBTL on a never-created key brings it to life |
| `extend_wrap` | `NoOverdueEntity` with an extension of 2^Width - 1 | **violation**: the expiry wraps into the past and the entity is never swept |
| `batch_iterator` | `TypeOK`, `DeliveredGapless`, `ReceiptsConfigured`, `HeadEventuallyTaken`, with reorgs and a restart | pass, 57,178 states |
| `batch_catch_up` | `EventuallyCaughtUp` | **violation**: after a capped batch, the iterator waits for a new head while its last head is still ahead |
| `batch_all_or_nothing` | `BatchAllOrNothing` | **violation**: a missing canonical hash or block yields the partial batch read before it |
| `nil_block_deref` | `NoNilBlockDeref` with `SetHeadDeletes` | **violation**: a SetHead between the hash read (line 73) and the block read (line 78) makes `bl` nil at line 80 |
| `delivered_linked` | `DeliveredLinked` | **violation**: a reorg during a batch gives the consumer a block of the old fork followed by one of the new fork |
| `op_index` | `OpIndexUnique` | **violation**: operations of different kinds in one transaction share `(TxIndex, OpIndex)` |
| `pipeline_replica` | `ReplicaAgrees` | pass, 83,336 states |
| `api_block_timing` | `TypeOK`, `TimingIsParentGap` (action) | pass, 110,597 states |

Each property of a passing run has a mutant in PROJECT.json. A mutant is a plausible bug
in the operator that property guards, and TLC finds it:

* the sweep deleting while it walks the list;
* `ExtendBTL` not unlinking the old height;
* `ExtendBTL` storing the metadata copy from before the increment (breaks the refinement);
* the missing-metadata check dropped;
* the owner read back after the metadata is cleared;
* the logged owner read back after `Delete`;
* sweeping the previous height;
* the batch cap off by one;
* `lastBlock` jumping to the head taken;
* the iterator returning on an empty batch;
* `blockToEvents` not checking the receipt status (breaks `ReplicaAgrees`);
* `onNewHead` publishing the head before it stores `chainConfig` (breaks
  `ReceiptsConfigured`);
* `GetBlockTiming` taking the previous header by number, not by parent hash (breaks
  `TimingIsParentGap`);
* `Query` passing a nil `AtBlock` on to the store (breaks `TypeOK`).

### What the race and the timing checks show

`ReceiptsConfigured` holds with the racy read modelled as Go's memory model allows it.
The read at line 80 can return any value not ordered before the iterator's last lock,
but every such value was written by an `onNewHead` whose unlock came before that lock.
So the read can never return the initial nil, whatever heads arrive while the iterator
reads. If `onNewHead` wrote the config after publishing the head, the read could
return nil. `TimingIsParentGap` shows why `GetBlockTiming` must look up the parent by
hash: a reorg between the two reads can put a header of another fork one height below,
with a later timestamp, and then the uint64 subtraction wraps.

### What the refinement shows

`RefinesLifecycle` says that the index-based implementation is observationally the
simple map. Every step of the linked lists, the sweep and the five operations either
changes the metadata exactly as one abstract step does or leaves it alone. Every block
is swept, because the abstract `Sweep` is weakly fair, so a housekeeping transaction
that fails (and halts the chain) violates it. The mapping is `meta <- st.meta`; the
index has no abstract counterpart.

### What the composition shows

`ReplicaAgrees` checks that an indexer holds exactly the processor's live entities and
their expiration blocks. The indexer applies, per block, the operations `blockToEvents`
derives from the blocks the processor really produces. It ties together four things:
the housekeeping log format (the key in topic 1 and in the 32 data bytes), the filter on
the first receipt, the positional pairing of Create operations with created logs (with two Creates of
different BTLs in one transaction), and
the status filter on failed transactions. The indexer's semantics of each operation is
not in the tree; it is modelled from spec.md 3 (`ApplyOp`).


### Bounds and why they suffice

* `block_processing`: 3 keys, 2 owners, blocks 1..7, BTL ∈ {1, 2, 3}, extension ∈ {1, 2},
  `Width = 4`. Two or three entities share a height, so prepending, removing the head, a
  middle key or the tail, and sweeping a list of several keys all occur. Every operation
  can hit an entity of any age. `ExtendBound = 9` caps how far expiries are pushed. With
  this cap, expiries stay below 2^Width in the passing run, and only `extend_wrap` (Width = 3, extension 7) wraps.
* `block_lifecycle` uses 2 keys to keep the liveness graph small
  (the refinement with 3 keys takes 3 minutes); they share the other bounds of
  `block_processing`, with extension 1. Two keys at one height are still
  reachable, which the lazy-sweep and wrong-height mutants need.
* `batch_iterator`: `StartBlock = 1`, heads up to 5, `BatchLimit = 2` (100 in the code),
  one rewind, one restart, and any initial backlog. The backlog can exceed a batch, heads
  coalesce, a rewind can land between any two reads of a batch, a head can fall at or
  below `lastBlock`, and the node can restart between a yield and its acceptance.
  One `ChainConfig` value is enough: the question is whether the read can return nil.
* `pipeline_replica`: 2 keys, blocks 1..6, BTL ∈ {1, 2, 3}, `Width = 4`, at most 2 storage transactions per block
  (`MaxBlockTxs`). A block can then hold a create and an update, or a failed and a
  successful transaction, or a transaction creating both keys with different BTLs, next
  to a sweep of one or two keys.
* `api_block_timing`: heads up to 3, one rewind (either kind), gaps of 1 or 2 seconds.
  A header can be read at height 2, the chain rewound to genesis, and a block of the
  new fork committed at height 1 with a later timestamp.

### Fairness

* Block processing: the sequencer produces blocks continuously, and the housekeeping
  transaction is part of every block. Hence `WF(Housekeeping)` and `WF(NewBlock)`. Users
  get no fairness. `EntityLifecycle` has the same fairness on its `Sweep` and `Advance`.
* Streaming: the sequencer keeps committing (`WF(Commit)`), geth's event loop delivers
  every head event (`WF(OnNewHead)`), and the iterator goroutine is scheduled
  (`WF` of its steps). Rewinds, restarts and cancellation get no fairness.
* Each model ends at its bound. An explicit `Stopped` / `Idle` step lets the final state
  stutter, so deadlock checking stays on for the rest of the state space.

## Not modelled, and why

* Decoding and validation of storage transactions (`storagetx`): the code is not in the
  tree. They are checks on a single payload, with no interleaving to explore.
* Storage accounting: `GetNumberOfUsedSlots` only reads a word. It is modelled as
  the answer of the RPC handler, named by the state it is read from. The code that counts
  slots (`SlotUsageCounter`) and writes the counter is not in the tree, so a counter
  value in the model would be one we wrote, not the code's.
* Ownership checks on Update, Extend, ChangeOwner and Delete: neither the code nor
  spec.md states them. For the same reason, owners are left out of the indexer replica:
  the Update event carries the sender as `Owner`, and without the executor we cannot
  tell whether the sender must be the owner.
* Payload, annotations, sender recovery and log encodings are abstracted to keys, BTLs
  and kinds.
* The answers of the external SQLite store to `Query` and `GetEntityCount`: its
  behaviour, including at a block it has not indexed yet, is not in the tree.
* OP-stack receipt fields (`deriveOPStackFields`): it copies fee fields into the
  receipts of one block, with an early return on a trailing deposit and two parse-error
  returns. A property of it could only restate that control. Its early return relies on
  every deposit coming before every signed transaction, a rule the OP derivation
  pipeline enforces outside the tree, so a block that breaks it cannot be generated
  faithfully. `ArkivPipeline` has no type invariant of its own: its new variables hold
  their types by construction. Tests, the test helper `SubmitStorageTransaction` (its steps
  are sequential, read the nonce then send) and the build.

## Plan

Sitting 1 built `EntityExpiration`, `EntityStore`, `BlockProcessing` (the core:
expiration must be exact and deterministic), then `ChainBatchIterator` and
`BlockToEvents`. Sitting 2 added the following:

* the `EntityLifecycle` refinement;
* fork versions, SetHead deletion and split reads in `ChainBatchIterator` (the line-80
  nil dereference and mixed-fork batches);
* restart from the consumer's checkpoint;
* the `ArkivPipeline` composition.

Sitting 3 added the following:

* the unlocked `chainConfig` read (`ReceiptsConfigured`);
* transactions with two Creates in the pipeline (the positional pairing at part_000:72);
* the `ArkivAPI` handlers (`TimingIsParentGap`);
* the larger `Width = 4` instances.

Sitting 4 tried a model of `deriveOPStackFields` and dropped it, with the pipeline's
second type invariant, as restating the code (see Not modelled).

Next:

1. Run the streaming side over the pipeline's real blocks. This would compose
   `ChainBatchIterator` with `ArkivPipeline`, so that reorgs show up as wrong replica
   state and not only as broken parent links.
2. Build larger instances of `pipeline_replica` (3 keys, 3 transactions per block)
   while they stay within the time budget.
