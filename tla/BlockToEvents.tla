--------------------------- MODULE BlockToEvents ---------------------------
(***************************************************************************)
(* dbevents.blockToEvents: one block's transactions and receipts turned    *)
(* into the ordered list of semantic operations of the event stream.       *)
(* Content type, payload, attributes and owners are left out; an         *)
(* operation keeps its transaction index, operation index, kind, entity   *)
(* key (from the logs for Create and Expire, from the payload otherwise)  *)
(* and its BTL or NumberOfBlocks.                                         *)
(*                                                                         *)
(* The function is pure; the module checks it over every block of a       *)
(* bounded shape, chosen in Init.                                          *)
(***************************************************************************)
EXTENDS Naturals, Sequences, SequencesExt

CONSTANTS
    Keys,       \* entity keys carried by logs
    NoKey,      \* unused key value (kept for the instances of this module)
    Payloads,   \* operation payloads: [key, n] (entity key, BTL / blocks)
    MaxTxs,     \* transactions per block
    MaxLogs,    \* logs in the first receipt
    MaxOps      \* operations of one kind in a storage transaction

(* The five operation lists of a storage transaction, in the order the    *)
(* function walks them.                                                   *)
OpKinds == <<"create", "update", "extend", "changeOwner", "delete">>

(* A log: its first topic (none for a log without topics) and the key it  *)
(* carries; the expiration log has at least 32 bytes of data.            *)
Logs == [topic : {"expired", "created", "other", "none"}, key : Keys]

(* A transaction of the block with its receipt. A transaction that is not *)
(* addressed to the processor (or has no recipient) is skipped, as is one *)
(* that failed. A successful storage transaction emits one created log   *)
(* per Create, in order.                                                  *)
Txs == [toProcessor : BOOLEAN, success : BOOLEAN,
        ops : [Range(OpKinds) -> BoundedSeq(Payloads, MaxOps)],
        created : BoundedSeq(Keys, MaxOps)]

VARIABLES
    txs,        \* the block's transactions with their receipts
    firstLogs   \* the logs of the first receipt (the housekeeping receipt)

vars == <<txs, firstLogs>>

Op(tx, idx, kind, key, n) ==
    [txIndex |-> tx, opIndex |-> idx, kind |-> kind, key |-> key, n |-> n]

(* The Expire operations: one per expiration log of the first receipt;   *)
(* the operation index is the log's index within the receipt.            *)
ExpireOps(logs) ==
    LET idx == SelectSeq([i \in 1 .. Len(logs) |-> i],
                         LAMBDA i : logs[i].topic = "expired")
    IN  [j \in 1 .. Len(idx) |-> Op(0, idx[j] - 1, "expire", logs[idx[j]].key, 0)]

(* The operations of transaction number i (0-based): each kind's list in  *)
(* turn, the operation index counting from 0 within that list; a Create  *)
(* takes the next key of the receipt's created logs, the others the key  *)
(* of their payload.                                                      *)
TxOps(i, t) ==
    FlattenSeq([n \in 1 .. Len(OpKinds) |->
        LET kind == OpKinds[n]
            ops  == t.ops[kind]
        IN  [j \in 1 .. Len(ops) |->
               Op(i, j - 1, kind,
                  IF kind = "create" THEN t.created[j] ELSE ops[j].key, ops[j].n)]])

(* Mutant: the receipt status is not checked. *)
DerivedIgnoresStatus(t) == t.toProcessor

Derived(t) == t.toProcessor /\ t.success

blockToEvents(b, logs) ==
    IF b = <<>> THEN <<>>
    ELSE ExpireOps(logs) \o
         FlattenSeq([i \in 1 .. Len(b) |-> IF Derived(b[i]) THEN TxOps(i - 1, b[i]) ELSE <<>>])

-----------------------------------------------------------------------------
(* Executed blocks only: a successful storage transaction has one created *)
(* log per Create.                                                        *)
Executed(t) == Derived(t) => Len(t.created) = Len(t.ops["create"])
NoCreated(t) == ~Derived(t) => t.created = <<>>

Init ==
    /\ txs \in UNION {[1 .. n -> {t \in Txs : Executed(t) /\ NoCreated(t)}]
                      : n \in 1 .. MaxTxs}
    /\ firstLogs \in UNION {[1 .. n -> Logs] : n \in 0 .. MaxLogs}
    \* The first transaction is the system transaction whose receipt holds
    \* the expiration logs, not a storage transaction.
    /\ ~Derived(txs[1])

Next == UNCHANGED vars

Spec == Init /\ [][Next]_vars

-----------------------------------------------------------------------------
TypeOK ==
    /\ txs \in Seq(Txs)
    /\ firstLogs \in Seq(Logs)

(* (TxIndex, OpIndex) identifies an operation of the block: no two derived *)
(* operations share it (spec.md 3 and 4.5: a sequential OpIndex within    *)
(* the transaction establishes the total order within a block).           *)
OpIndexUnique ==
    LET ops == blockToEvents(txs, firstLogs)
    IN  \A p, q \in 1 .. Len(ops) :
            p # q => <<ops[p].txIndex, ops[p].opIndex>> # <<ops[q].txIndex, ops[q].opIndex>>
=============================================================================
