------------------------- MODULE ChainBatchIterator -------------------------
(***************************************************************************)
(* dbevents.NewChainBatchIterator: a pull iterator that turns committed    *)
(* blocks into batches for the downstream indexer, and the onNewHead       *)
(* callback that wakes it. The two share one slot, `block`, guarded by a   *)
(* sync.Cond: onNewHead overwrites it with the newest head and signals;    *)
(* the iterator waits while it is nil, takes it and clears it, reads the   *)
(* blocks after lastBlock (at most BatchLimit of them) from the database,  *)
(* and yields them. The chain itself commits blocks, and may rewind its    *)
(* canonical head (SetHead, or a reorg that rewrites the canonical         *)
(* hashes), which makes canonical hashes above the new head disappear.     *)
(*                                                                         *)
(* A block is abstracted to its height, its version (the fork it was     *)
(* committed on) and the version of its parent; blockToEvents is         *)
(* modelled in its own module. A rewind followed by commits is a reorg:   *)
(* the heights above the new head get blocks of a new version. Whether   *)
(* the blocks above the new head stay in the database (a reorg keeps      *)
(* them) or are deleted with their receipts (SetHead) is a constant.      *)
(***************************************************************************)
EXTENDS Naturals, Sequences, SequencesExt

CONSTANTS
    StartBlock,   \* lastBlock passed to NewChainBatchIterator
    MaxHead,      \* the chain commits no block above it
    BatchLimit,   \* the 100 of min(100, newBlockNumber - lastBlock)
    MaxRewinds,   \* the number of head rewinds in a behaviour
    MaxRestarts,  \* the number of node restarts in a behaviour
    NoBlock,      \* the nil *types.Block
    Configs,      \* the *params.ChainConfig values the chain passes
    NoConfig,     \* the nil *params.ChainConfig
    SetHeadDeletes \* a rewind deletes the blocks and receipts above the head

ASSUME /\ StartBlock \in Nat /\ MaxHead \in Nat /\ StartBlock <= MaxHead
       /\ BatchLimit \in Nat \ {0} /\ MaxRewinds \in Nat /\ MaxRestarts \in Nat
       /\ NoBlock \notin Nat /\ SetHeadDeletes \in BOOLEAN
       /\ NoConfig \notin Configs

VARIABLES
    chain,          \* canonical hashes exist for heights 1 .. chain
    ver,            \* ver[n]: version of the canonical block at height n
    stored,         \* blocks (with receipts) in the database
    rewinds,        \* rewinds so far
    pending,        \* new-head events not yet passed to onNewHead
    block,          \* the shared slot
    pc,             \* iterator: "wait", "read" (hash), "receipts",
                    \* "block", "yield", "done" or "panic"
    hash,           \* version of the canonical hash just read
    newBlockNumber, \* the head the iterator took from the slot
    batch,          \* heights read into the current batch
    lastBlock,      \* the iterator's checkpoint
    delivered,      \* history: heights of all batches the consumer accepted
    cancelled,      \* history: the consumer returned false from yield
    checkpoint,     \* the consumer's persisted last accepted height
    restarts,       \* node restarts so far
    chainConfig,    \* the shared chainConfig, written by onNewHead
    visible,        \* the values the iterator's unlocked read may return
    receiptsConfig  \* history: the config the last ReadReceipts used

vars == <<chain, ver, stored, rewinds, pending, block, pc, hash,
          newBlockNumber, batch, lastBlock, delivered, cancelled,
          checkpoint, restarts, chainConfig, visible, receiptsConfig>>

cfgVars == <<chainConfig, visible, receiptsConfig>>

Heights == 0 .. MaxHead
Versions == 0 .. MaxRewinds
Blocks == [n : Heights, v : Versions, parent : Versions]

Init ==
    /\ chain \in StartBlock .. MaxHead
    /\ ver = [n \in Heights |-> 0]
    /\ stored = {[n |-> n, v |-> 0, parent |-> 0] : n \in 1 .. chain}
    /\ hash = 0
    /\ rewinds = 0
    /\ pending = <<>>
    /\ block = NoBlock
    /\ pc = "wait"
    /\ newBlockNumber = StartBlock
    /\ batch = <<>>
    /\ lastBlock = StartBlock
    /\ delivered = <<>>
    /\ cancelled = FALSE
    /\ checkpoint = StartBlock
    /\ restarts = 0
    /\ chainConfig = NoConfig
    /\ visible = {NoConfig}
    /\ receiptsConfig = NoConfig

-----------------------------------------------------------------------------
(* The chain. *)

(* The block committed on top of the current head, on this fork. *)
NewBlockOnHead == [n |-> chain + 1, v |-> rewinds, parent |-> ver[chain]]

(* A block and its receipts are written and made canonical; its new-head  *)
(* event is queued for onNewHead.                                         *)
Commit ==
    /\ chain < MaxHead
    /\ chain' = chain + 1
    /\ ver' = [ver EXCEPT ![chain + 1] = rewinds]
    /\ stored' = stored \cup {NewBlockOnHead}
    /\ pending' = Append(pending, chain + 1)
    /\ UNCHANGED <<cfgVars, rewinds, block, pc, hash, newBlockNumber, batch, lastBlock,
                   delivered, cancelled, checkpoint, restarts>>

(* The canonical head is set back; hashes above it are deleted, and with *)
(* SetHead the blocks and receipts above it too. Later commits are of a  *)
(* new version.                                                          *)
Rewind(h) ==
    /\ rewinds < MaxRewinds
    /\ h < chain
    /\ chain' = h
    /\ rewinds' = rewinds + 1
    /\ stored' = IF SetHeadDeletes
                 THEN {b \in stored : b.n <= h \/ b.v # ver[b.n]}
                 ELSE stored
    /\ UNCHANGED <<cfgVars, ver, pending, block, pc, hash, newBlockNumber, batch,
                   lastBlock, delivered, cancelled, checkpoint,
                   restarts>>

(* Mutant: the config is stored after the slot is published (after the   *)
(* unlock), and the iterator runs in between.                           *)
OnNewHeadConfigLate(cc) ==
    /\ pending # <<>>
    /\ block' = Head(pending)
    /\ pending' = Tail(pending)
    /\ UNCHANGED <<chain, ver, stored, rewinds, pc, hash, newBlockNumber,
                   batch, lastBlock, delivered, cancelled, checkpoint,
                   restarts, cfgVars>>

(* onNewHead(cc, bl): under the lock, overwrite the slot and chainConfig  *)
(* and signal. The write of chainConfig races with the iterator's read   *)
(* at line 80, which takes no lock: that read may return this value too. *)
OnNewHead(cc) ==
    /\ pending # <<>>
    /\ block' = Head(pending)
    /\ pending' = Tail(pending)
    /\ chainConfig' = cc
    /\ visible' = visible \cup {cc}
    /\ UNCHANGED <<chain, ver, stored, rewinds, pc, hash, newBlockNumber,
                   batch, lastBlock, delivered, cancelled, checkpoint,
                   restarts, receiptsConfig>>

-----------------------------------------------------------------------------
(* The iterator goroutine. *)

(* Mutant: lastBlock moves to the head taken, not to the last height read. *)
EndBatchToHead(b) ==
    IF b = <<>>
    THEN pc' = "wait" /\ UNCHANGED lastBlock
    ELSE pc' = "yield" /\ lastBlock' = newBlockNumber

(* Mutant: an empty batch returns from the iterator instead of continuing. *)
EndBatchReturnOnEmpty(b) ==
    IF b = <<>>
    THEN pc' = "done" /\ UNCHANGED lastBlock
    ELSE pc' = "yield" /\ lastBlock' = Last(b).n

(* The end of the inner func: an empty batch goes back to waiting         *)
(* (continue); otherwise lastBlock moves to the batch's last height and   *)
(* the batch is yielded.                                                  *)
EndBatch(b) ==
    IF b = <<>>
    THEN pc' = "wait" /\ UNCHANGED lastBlock
    ELSE pc' = "yield" /\ lastBlock' = Last(b).n

(* Under the lock: wait while the slot is nil, take it, clear it. A head  *)
(* at or below lastBlock gives an empty batch.                            *)
TakeHead ==
    /\ pc = "wait"
    /\ block # NoBlock
    /\ newBlockNumber' = block
    /\ block' = NoBlock
    /\ batch' = <<>>
    /\ IF block <= lastBlock THEN EndBatch(<<>>) ELSE pc' = "read" /\ UNCHANGED lastBlock
    \* the lock orders every earlier write of chainConfig before the reads
    \* that follow: they return the current value or a later one
    /\ visible' = {chainConfig}
    /\ UNCHANGED <<chain, ver, stored, rewinds, pending, hash, delivered,
                   cancelled, checkpoint,
                   restarts, chainConfig, receiptsConfig>>

(* Mutant: the cap is off by one. *)
BatchSizeOffByOne == IF BatchLimit + 1 < newBlockNumber - lastBlock
                     THEN BatchLimit + 1 ELSE newBlockNumber - lastBlock

BatchSize == IF BatchLimit < newBlockNumber - lastBlock
             THEN BatchLimit ELSE newBlockNumber - lastBlock

(* The height the read loop is at: lastBlock + i + 1. *)
BlockNumber == lastBlock + Len(batch) + 1

(* The block the canonical hash just read names, if it is stored. *)
HashedBlock == {b \in stored : b.n = BlockNumber /\ b.v = hash}

(* ReadCanonicalHash: a missing hash ends the batch with what has been   *)
(* read so far.                                                          *)
ReadHash ==
    /\ pc = "read"
    /\ IF BlockNumber > chain
       THEN EndBatch(batch) /\ UNCHANGED hash
       ELSE hash' = ver[BlockNumber] /\ pc' = "receipts" /\ UNCHANGED lastBlock
    /\ UNCHANGED <<cfgVars, chain, ver, stored, rewinds, pending, block, newBlockNumber,
                   batch, delivered, cancelled, checkpoint,
                   restarts>>

(* ReadBlock, then ReadReceipts with bl.NumberU64() and chainConfig: bl   *)
(* is not checked, so a block gone since its hash was read is a nil      *)
(* dereference (the goroutine panics). Receipts are written and deleted  *)
(* with their block, so when bl is there its receipts are too; their     *)
(* fields are derived with the chainConfig the unlocked read returns.    *)
ReadReceipts ==
    /\ pc = "receipts"
    /\ pc' = IF HashedBlock = {} THEN "panic" ELSE "block"
    /\ \E c \in visible : receiptsConfig' = c
    /\ UNCHANGED <<chain, ver, stored, rewinds, pending, block, hash,
                   newBlockNumber, batch, lastBlock, delivered, cancelled, checkpoint,
                   restarts, chainConfig, visible>>

(* The second ReadBlock is checked: a block gone by now ends the batch.  *)
(* Otherwise it is converted and appended; the batch also ends after     *)
(* BatchSize blocks.                                                     *)
ReadBlock ==
    /\ pc = "block"
    /\ IF HashedBlock = {}
       THEN EndBatch(batch) /\ UNCHANGED batch
       ELSE /\ batch' = Append(batch, CHOOSE b \in HashedBlock : TRUE)
            /\ IF Len(batch') = BatchSize
               THEN EndBatch(batch')
               ELSE pc' = "read" /\ UNCHANGED lastBlock
    /\ UNCHANGED <<cfgVars, chain, ver, stored, rewinds, pending, block, hash,
                   newBlockNumber, delivered, cancelled, checkpoint,
                   restarts>>

(* yield(batch) returns true: the consumer has taken the batch. *)
Accept ==
    /\ pc = "yield"
    /\ delivered' = delivered \o batch
    /\ checkpoint' = Last(batch).n
    /\ pc' = "wait"
    /\ batch' = <<>>
    /\ UNCHANGED <<cfgVars, chain, ver, stored, rewinds, pending, block, hash,
                   newBlockNumber, lastBlock, cancelled, restarts>>

(* yield(batch) returns false: the iterator returns. *)
Cancel ==
    /\ pc = "yield"
    /\ pc' = "done"
    /\ cancelled' = TRUE
    /\ UNCHANGED <<cfgVars, chain, ver, stored, rewinds, pending, block, hash,
                   newBlockNumber, batch, lastBlock, delivered, checkpoint,
                   restarts>>

(* The node restarts, at any point of the iterator (a panic included):   *)
(* the database is kept, the slot and the queued head events are lost,  *)
(* and a new iterator is built with the consumer's persisted checkpoint. *)
(* The consumer persists its state with the checkpoint, so it keeps the *)
(* batches up to it.                                                     *)
Restart ==
    /\ restarts < MaxRestarts
    /\ restarts' = restarts + 1
    /\ pending' = <<>>
    /\ block' = NoBlock
    /\ pc' = "wait"
    /\ batch' = <<>>
    /\ newBlockNumber' = checkpoint
    /\ lastBlock' = checkpoint
    /\ delivered' = SubSeq(delivered, 1, checkpoint - StartBlock)
    /\ cancelled' = FALSE
    /\ chainConfig' = NoConfig
    /\ visible' = {NoConfig}
    /\ UNCHANGED <<chain, ver, stored, rewinds, hash, checkpoint, receiptsConfig>>

(* Nothing can happen any more: the iterator waits on the condition (or   *)
(* has returned or crashed), no head event is pending and the chain is    *)
(* at its bound.                                                          *)
Idle ==
    /\ pc \in {"done", "panic"} \/ (pc = "wait" /\ block = NoBlock)
    /\ pending = <<>> /\ chain = MaxHead
    /\ UNCHANGED vars

Next ==
    \/ Commit \/ \E h \in 0 .. MaxHead : Rewind(h)
    \/ \E cc \in Configs : OnNewHead(cc)
    \/ TakeHead \/ ReadHash \/ ReadReceipts \/ ReadBlock \/ Accept \/ Cancel
    \/ Restart
    \/ Idle

Consumer == TakeHead \/ ReadHash \/ ReadReceipts \/ ReadBlock \/ Accept

(* The sequencer keeps producing blocks, the chain's event loop delivers  *)
(* every head event, and the iterator goroutine is scheduled; the         *)
(* consumer need not cancel and the chain need not rewind.                *)
Spec == Init /\ [][Next]_vars
        /\ WF_vars(Commit) /\ WF_vars(\E cc \in Configs : OnNewHead(cc))
        /\ WF_vars(Consumer)

-----------------------------------------------------------------------------
TypeOK ==
    /\ chain \in Heights /\ rewinds \in Versions
    /\ ver \in [Heights -> Versions] /\ stored \subseteq Blocks
    /\ pending \in Seq(1 .. MaxHead)
    /\ block \in (1 .. MaxHead) \cup {NoBlock}
    /\ pc \in {"wait", "read", "receipts", "block", "yield", "done", "panic"}
    /\ hash \in Versions
    /\ newBlockNumber \in Nat /\ lastBlock \in Nat
    /\ batch \in Seq(Blocks) /\ Len(batch) <= BatchLimit
    /\ delivered \in Seq(Blocks)
    /\ cancelled \in BOOLEAN
    /\ checkpoint \in StartBlock .. MaxHead /\ restarts \in 0 .. MaxRestarts
    /\ chainConfig \in Configs \cup {NoConfig}
    /\ visible \subseteq Configs \cup {NoConfig}
    /\ receiptsConfig \in Configs \cup {NoConfig}

(* The consumer sees a gapless stream: the accepted batches, concatenated, *)
(* are exactly the heights StartBlock+1, StartBlock+2, ..., each once,     *)
(* whatever heads were coalesced, ignored or missing on the way.          *)
DeliveredGapless ==
    \A i \in 1 .. Len(delivered) : delivered[i].n = StartBlock + i

(* A head stored in the slot is eventually taken by the iterator, unless  *)
(* the consumer has stopped it: no wake-up is lost and the iterator does  *)
(* not return on its own.                                                  *)
HeadEventuallyTaken ==
    (block # NoBlock) ~> (block = NoBlock \/ cancelled)

(* Every committed height is eventually delivered, unless the consumer    *)
(* stops the stream (spec.md 4.6: Next blocks only until a head newer     *)
(* than lastDelivered is available).                                       *)
EventuallyCaughtUp ==
    <>[](cancelled \/ lastBlock >= chain)

(* A batch is all or nothing: the yielded batch covers every height from  *)
(* lastBlock+1 to min(head, lastBlock+BatchLimit) (spec.md 4.6: a missing *)
(* height discards the whole batch without advancing lastDelivered).      *)
BatchAllOrNothing ==
    [][(pc \in {"read", "block"} /\ pc' = "yield") => Len(batch') = BatchSize]_vars

(* The iterator never dereferences a block that is not in the database:   *)
(* between ReadCanonicalHash and ReadBlock a SetHead may delete the       *)
(* block, and bl is used at line 80 before any nil check.                 *)
NoNilBlockDeref ==
    pc # "panic"

(* The consumer receives a chain: each delivered block is the child of the *)
(* block delivered before it. A reorg at or below lastBlock, or one that  *)
(* lands in the middle of a batch, breaks this unless the iterator checks *)
(* parent hashes, which it does not.                                      *)
DeliveredLinked ==
    \A i \in 2 .. Len(delivered) : delivered[i].parent = delivered[i - 1].v

(* Receipts are never derived with a nil chain config: the iterator reads *)
(* chainConfig at line 80 without the lock while onNewHead may be writing *)
(* it, and only the lock taken before the wake-up orders the first write *)
(* before that read.                                                      *)
ReceiptsConfigured ==
    pc = "block" => receiptsConfig # NoConfig
=============================================================================
