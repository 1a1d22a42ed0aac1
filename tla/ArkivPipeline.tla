--------------------------- MODULE ArkivPipeline ---------------------------
(***************************************************************************)
(* The two halves of Arkiv composed: block processing (BlockProcessing)   *)
(* writes the housekeeping receipt and the storage transactions of each   *)
(* block, blockToEvents (BlockToEvents) turns that block into operations, *)
(* and an indexer applies the operations of each finished block to its    *)
(* replica of the live entities and their expiration blocks. The         *)
(* housekeeping transaction is the block's first transaction; it is not  *)
(* addressed to the processor, so only its receipt's logs are read.      *)
(***************************************************************************)
EXTENDS BlockProcessing, Integers

CONSTANTS
    MaxBlockTxs   \* storage transactions per block

ASSUME MaxBlockTxs \in Nat \ {0}

VARIABLES
    ptxs,      \* the storage transactions of the current block, in order
    replica    \* the indexer's view: expiration block of each live key, or -1

pvars == <<vars, ptxs, replica>>

NotLive == -1

Kinds == {"create", "update", "extend", "changeOwner", "delete"}

Payloads == [key : KeyOrNull, n : Heights]

BTE == INSTANCE BlockToEvents
           WITH NoKey <- NullKey, Payloads <- Payloads, MaxTxs <- MaxBlockTxs + 1,
                MaxLogs <- Cardinality(Keys), MaxOps <- 2,
                txs <- ptxs, firstLogs <- <<>>

(* A transaction of the block as blockToEvents sees it: the operations of *)
(* one kind, the created logs of its receipt, its status.                *)
StorageTx(kind, ps, createdKeys, ok) ==
    [toProcessor |-> TRUE, success |-> ok,
     ops |-> [kd \in Kinds |-> IF kd = kind THEN ps ELSE <<>>],
     created |-> createdKeys]

HousekeepingTx ==
    [toProcessor |-> FALSE, success |-> TRUE,
     ops |-> [kd \in Kinds |-> <<>>], created |-> <<>>]

(* The housekeeping receipt: one log per expired entity with topics       *)
(* (ArkivEntityExpired, key, owner) and the key as its 32 data bytes.    *)
HousekeepingReceipt ==
    [i \in 1 .. Len(logs) |-> [topic |-> "expired", key |-> logs[i].key]]

BlockOps == BTE!blockToEvents(<<HousekeepingTx>> \o ptxs, HousekeepingReceipt)

(* The indexer: Create and Update set the expiry to the block number plus *)
(* BTL, ExtendBTL adds NumberOfBlocks, Delete and Expire remove the key.  *)
ApplyOp(r, o, b) ==
    CASE o.kind \in {"create", "update"} -> [r EXCEPT ![o.key] = (b + o.n) % U64]
      [] o.kind = "extend"               -> [r EXCEPT ![o.key] = (@ + o.n) % U64]
      [] o.kind = "changeOwner"          -> r
      [] o.kind \in {"delete", "expire"} -> [r EXCEPT ![o.key] = NotLive]

RECURSIVE ApplyOps(_, _, _)
ApplyOps(r, ops, b) ==
    IF ops = <<>> THEN r ELSE ApplyOps(ApplyOp(r, Head(ops), b), Tail(ops), b)

(* The processor's live entities as the indexer should see them. *)
LiveView == [k \in Keys |-> IF Live(k) THEN Expiry(k) ELSE NotLive]

PInit ==
    /\ Init
    /\ ptxs = <<>>
    /\ replica = [k \in Keys |-> NotLive]

-----------------------------------------------------------------------------
(* The transaction is appended to the block, which has room for it. *)
Recorded(tx) ==
    /\ Len(ptxs) < MaxBlockTxs
    /\ ptxs' = Append(ptxs, tx)
    /\ UNCHANGED replica

PHousekeeping == Housekeeping /\ UNCHANGED <<ptxs, replica>>

(* The block is finished and streamed: the indexer applies its operations. *)
PNewBlock ==
    /\ NewBlock
    /\ replica' = ApplyOps(replica, BlockOps, block)
    /\ ptxs' = <<>>

PCreate(k, a, b) ==
    /\ CreateEntity(k, a, b)
    /\ Recorded(StorageTx("create", <<[key |-> NullKey, n |-> b]>>, <<k>>, TRUE))

(* Two Create operations in one transaction: the executor creates the    *)
(* entities in payload order and its receipt has one created log for     *)
(* each, in the same order.                                              *)
PCreate2(k1, k2, a, b1, b2) ==
    /\ UserTx
    /\ k1 # k2 /\ {k1, k2} \cap created = {}
    /\ st' = Store(Store(st, k1, [owner |-> a, expiresAtBlock |-> (block + b1) % U64]),
                   k2, [owner |-> a, expiresAtBlock |-> (block + b2) % U64])
    /\ created' = created \cup {k1, k2}
    /\ UNCHANGED <<block, swept, halted, logs, gone>>
    /\ Recorded(StorageTx("create", <<[key |-> NullKey, n |-> b1],
                                      [key |-> NullKey, n |-> b2]>>,
                           <<k1, k2>>, TRUE))

PUpdate(k, b) ==
    /\ UpdateEntity(k, b)
    /\ Recorded(StorageTx("update", <<[key |-> k, n |-> b]>>, <<>>, TRUE))

PExtend(k, n) ==
    /\ ExtendEntity(k, n)
    /\ Recorded(StorageTx("extend", <<[key |-> k, n |-> n]>>, <<>>, TRUE))

PChangeOwner(k, a) ==
    /\ ChangeOwner(k, a)
    /\ Recorded(StorageTx("changeOwner", <<[key |-> k, n |-> 0]>>, <<>>, TRUE))

PDelete(k) ==
    /\ DeleteOp(k)
    /\ Recorded(StorageTx("delete", <<[key |-> k, n |-> 0]>>, <<>>, TRUE))

(* An operation on a key with no metadata fails; the transaction is      *)
(* reverted and its receipt has status failed.                           *)
PFailed(kind, k) ==
    /\ UserTx
    /\ MetaDataMissing(st, k)
    /\ UNCHANGED vars
    /\ Recorded(StorageTx(kind, <<[key |-> k, n |-> 1]>>, <<>>, FALSE))

PStopped == Stopped /\ UNCHANGED <<ptxs, replica>>

PNext ==
    \/ PHousekeeping
    \/ PNewBlock
    \/ \E k \in Keys :
          \/ \E a \in Addresses, b \in BTLs : PCreate(k, a, b)
          \/ \E b \in BTLs : PUpdate(k, b)
          \/ \E n \in Extensions : PExtend(k, n)
          \/ \E a \in Addresses : PChangeOwner(k, a)
          \/ PDelete(k)
          \/ \E kind \in Kinds \ {"create"} : PFailed(kind, k)
    \/ \E k1, k2 \in Keys, a \in Addresses, b1, b2 \in BTLs : PCreate2(k1, k2, a, b1, b2)
    \/ PStopped

PSpec == PInit /\ [][PNext]_pvars

-----------------------------------------------------------------------------
(* An indexer that applies the derived operations of every block sees     *)
(* exactly the live entities of the processor and their expiration       *)
(* blocks: before a block's housekeeping its replica is the live view,    *)
(* and applying the block so far (expirations from the first receipt,    *)
(* then the successful storage transactions) gives the live view.        *)
ReplicaAgrees ==
    IF swept THEN ApplyOps(replica, BlockOps, block) = LiveView
             ELSE replica = LiveView

=============================================================================
