-------------------------- MODULE BlockProcessing --------------------------
(***************************************************************************)
(* Block processing of the Arkiv storage layer: at every block the         *)
(* housekeeping transaction (housekeepingtx.ExecuteTransaction) runs first *)
(* and expires the entities whose ExpiresAtBlock is the block number; the  *)
(* storage transactions of the block then create, update, extend,          *)
(* re-own and delete entities. All of it runs in one thread, one           *)
(* transaction at a time; a transaction that fails is reverted, so a       *)
(* failing operation is a step that is not taken.                          *)
(***************************************************************************)
EXTENDS EntityStore, SequencesExt

CONSTANTS
    MaxBlock,       \* the last block of the model
    BTLs,           \* BTL values of Create and Update operations
    Extensions,     \* NumberOfBlocks values of ExtendBTL operations
    ExtendBound     \* ExtendBTL is applied only to entities expiring below it

ASSUME /\ MaxBlock \in 1 .. (U64 - 1)
       /\ BTLs \subseteq Heights \ {0}
       /\ Extensions \subseteq Heights
       /\ ExtendBound \in Heights

VARIABLES
    st,        \* the processor's storage: [meta, node, head]
    block,     \* number of the block being processed
    swept,     \* has this block's housekeeping transaction run?
    halted,    \* a housekeeping transaction returned an error
    logs,      \* the expiration logs of this block's housekeeping receipt
    created,   \* history: keys ever created
    gone       \* history: keys deleted or expired

vars == <<st, block, swept, halted, logs, created, gone>>

Live(k) == st.meta[k] # ZeroMeta
LiveKeys == {k \in Keys : Live(k)}
Expiry(k) == st.meta[k].expiresAtBlock

InitialStorage ==
    [meta |-> [k \in Keys |-> ZeroMeta],
     node |-> [k \in Keys |-> ZeroNode],
     head |-> [h \in Heights |-> NullKey]]

Init ==
    /\ st = InitialStorage
    /\ block = 1
    /\ swept = FALSE
    /\ halted = FALSE
    /\ logs = <<>>
    /\ created = {}
    /\ gone = {}

-----------------------------------------------------------------------------
(* Mutant: the owner logged is read back from storage after Delete. *)
DeleteEntityOwnerAfterDelete(acc, k) ==
    IF acc.failed \/ MetaDataMissing(acc.st, k)
    THEN [acc EXCEPT !.failed = TRUE]
    ELSE LET r == Delete(acc.st, k)
         IN  [st |-> r.st, failed |-> FALSE,
              logs |-> Append(acc.logs, [key |-> k,
                                         owner |-> GetEntityMetaData(r.st, k).owner])]

(* housekeepingtx.ExecuteTransaction: collect the whole list of the       *)
(* block's height first, then delete each key in turn, logging its key    *)
(* and owner; the first failing Delete aborts with an error.              *)
DeleteEntity(acc, k) ==
    IF acc.failed \/ MetaDataMissing(acc.st, k)
    THEN [acc EXCEPT !.failed = TRUE]
    ELSE LET r == Delete(acc.st, k)
         IN  [st |-> r.st, failed |-> FALSE,
              logs |-> Append(acc.logs, [key |-> k, owner |-> r.owner])]

RECURSIVE DeleteAll(_, _)
DeleteAll(acc, toDelete) ==
    IF toDelete = <<>> THEN acc
    ELSE DeleteAll(DeleteEntity(acc, Head(toDelete)), Tail(toDelete))

(* Mutant: keys deleted while the list is walked; the walk stops at the  *)
(* first deleted key, whose next pointer has been cleared.               *)
ExecuteTransactionLazy(s, blockNumber) ==
    LET first == s.head[blockNumber]
        acc   == [st |-> s, logs |-> <<>>, failed |-> FALSE]
    IN  IF first = NullKey THEN acc ELSE DeleteEntity(acc, first)

(* Mutant: the block sweeps the height before its own. *)
ExecuteTransactionPrevHeight(s, blockNumber) ==
    LET toDelete == IteratorOfEntitiesToExpireAtBlock(s, blockNumber - 1)
    IN  DeleteAll([st |-> s, logs |-> <<>>, failed |-> FALSE], toDelete)

ExecuteTransaction(s, blockNumber) ==
    LET toDelete == IteratorOfEntitiesToExpireAtBlock(s, blockNumber)
    IN  DeleteAll([st |-> s, logs |-> <<>>, failed |-> FALSE], toDelete)

Housekeeping ==
    /\ ~halted /\ ~swept
    /\ LET r == ExecuteTransaction(st, block)
       IN  IF r.failed
           THEN /\ halted' = TRUE
                /\ UNCHANGED <<st, swept, logs, gone>>
           ELSE /\ st' = r.st
                /\ logs' = r.logs
                /\ gone' = gone \cup {e.key : e \in ToSet(r.logs)}
                /\ swept' = TRUE
                /\ UNCHANGED halted
    /\ UNCHANGED <<block, created>>

(* The next block starts; its housekeeping transaction has not run yet. *)
NewBlock ==
    /\ ~halted /\ swept
    /\ block < MaxBlock
    /\ block' = block + 1
    /\ swept' = FALSE
    /\ logs' = <<>>
    /\ UNCHANGED <<st, halted, created, gone>>

-----------------------------------------------------------------------------
(* Storage transactions of the current block, after housekeeping. *)
UserTx == ~halted /\ swept

(* Create: the key is derived from the transaction hash and the payload,  *)
(* so it is fresh; the entity expires BTL blocks after this block.        *)
CreateEntity(k, sender, btl) ==
    /\ UserTx
    /\ k \notin created
    /\ st' = Store(st, k, [owner |-> sender,
                           expiresAtBlock |-> (block + btl) % U64])
    /\ created' = created \cup {k}
    /\ UNCHANGED <<block, swept, halted, logs, gone>>

(* Update: a new BTL counted from this block; the owner is kept. *)
UpdateEntity(k, btl) ==
    /\ UserTx
    /\ ~MetaDataMissing(st, k)
    /\ LET md  == GetEntityMetaData(st, k)
           new == [md EXCEPT !.expiresAtBlock = (block + btl) % U64]
       IN  st' = StoreEntityMetaData(
                   AddToEntitiesToExpireAtBlock(
                     RemoveFromEntitiesToExpire(st, md.expiresAtBlock, k),
                     new.expiresAtBlock, k),
                   k, new)
    /\ UNCHANGED <<block, swept, halted, logs, created, gone>>

ExtendEntity(k, n) ==
    /\ UserTx
    /\ ~MetaDataMissing(st, k)
    /\ Expiry(k) < ExtendBound
    /\ st' = ExtendBTL(st, k, n)
    /\ UNCHANGED <<block, swept, halted, logs, created, gone>>

ChangeOwner(k, newOwner) ==
    /\ UserTx
    /\ ~MetaDataMissing(st, k)
    /\ st' = StoreEntityMetaData(st, k,
               [GetEntityMetaData(st, k) EXCEPT !.owner = newOwner])
    /\ UNCHANGED <<block, swept, halted, logs, created, gone>>

DeleteOp(k) ==
    /\ UserTx
    /\ ~MetaDataMissing(st, k)
    /\ st' = Delete(st, k).st
    /\ gone' = gone \cup {k}
    /\ UNCHANGED <<block, swept, halted, logs, created>>

(* The chain has reached the model's last block, or stopped on an error. *)
Stopped ==
    /\ halted \/ (swept /\ block = MaxBlock)
    /\ UNCHANGED vars

Next ==
    \/ Housekeeping
    \/ NewBlock
    \/ \E k \in Keys :
          \/ \E a \in Addresses, b \in BTLs : CreateEntity(k, a, b)
          \/ \E b \in BTLs : UpdateEntity(k, b)
          \/ \E n \in Extensions : ExtendEntity(k, n)
          \/ \E a \in Addresses : ChangeOwner(k, a)
          \/ DeleteOp(k)
    \/ Stopped

(* The sequencer produces a block after every interval and every block    *)
(* starts with its housekeeping transaction; users need not act.          *)
Spec == Init /\ [][Next]_vars /\ WF_<<swept, halted>>(Housekeeping) /\ WF_vars(NewBlock)

-----------------------------------------------------------------------------
TypeOK ==
    /\ st.meta \in [Keys -> MetaWords]
    /\ st.node \in [Keys -> [prev : KeyOrNull, next : KeyOrNull]]
    /\ st.head \in [Heights -> KeyOrNull]
    /\ block \in 1 .. MaxBlock
    /\ swept \in BOOLEAN /\ halted \in BOOLEAN
    /\ logs \in Seq([key : Keys, owner : Addresses])
    /\ created \subseteq Keys /\ gone \subseteq Keys

(* The index agrees with the metadata after any sequence of operations:   *)
(* the list of every height, walked by next pointers, holds each live key *)
(* whose ExpiresAtBlock is that height exactly once and nothing else; its *)
(* prev pointers mirror its next pointers; a key outside every list has   *)
(* a cleared node. Delete, ExtendBTL and the sweep all rely on it, since  *)
(* they unlink a key from the height its metadata records.                *)
ExpirationIndexConsistent ==
    /\ \A h \in Heights :
         LET l == IteratorOfEntitiesToExpireAtBlock(st, h)
         IN  /\ ToSet(l) = {k \in LiveKeys : Expiry(k) = h}
             /\ Len(l) = Cardinality(ToSet(l))
             /\ \A i \in 1 .. Len(l) :
                  st.node[l[i]].prev = IF i = 1 THEN NullKey ELSE l[i - 1]
    /\ \A k \in Keys \ LiveKeys : st.node[k] = ZeroNode

(* Expiration is exact: once a block's housekeeping has run, no live      *)
(* entity expires at or before that block, and before it runs none        *)
(* expires before it. An entity left behind would never be swept again.  *)
NoOverdueEntity ==
    \A k \in LiveKeys : IF swept THEN Expiry(k) > block ELSE Expiry(k) >= block

(* A deleted or expired entity never becomes live again, and only created *)
(* keys are ever live: no operation on a missing key brings it to life.  *)
NoResurrection ==
    /\ LiveKeys \subseteq created
    /\ \A k \in gone : ~Live(k)

(* A housekeeping step succeeds and removes exactly the entities expiring *)
(* at this block, touching no other entity, and logs each of them once    *)
(* with the owner it had.                                                 *)
ExpireExactlyDue ==
    [][~swept /\ (swept' \/ halted') =>
         LET due == {k \in LiveKeys : Expiry(k) = block}
         IN  /\ ~halted'
             /\ {k \in Keys : st'.meta[k] # ZeroMeta} = LiveKeys \ due
             /\ Len(logs') = Cardinality(due)
             /\ \A i \in 1 .. Len(logs') :
                  logs'[i].key \in due /\ logs'[i].owner = st.meta[logs'[i].key].owner
      ]_vars

(* Every live entity whose expiration block the chain reaches is          *)
(* eventually removed, unless it is extended past the model's last block. *)
ExpiredEventually ==
    \A k \in Keys :
        (Live(k) /\ Expiry(k) <= MaxBlock) ~> (~Live(k) \/ Expiry(k) > MaxBlock)

-----------------------------------------------------------------------------
(* Refinement. The metadata words are the abstract entity map, the unset *)
(* word is the abstract "not live"; the expiration index has no abstract *)
(* counterpart. A failing housekeeping transaction is an abstract stutter *)
(* after which the abstract sweep stays enabled and is never taken.      *)
Lifecycle == INSTANCE EntityLifecycle
                 WITH meta <- st.meta, NoEntity <- ZeroMeta, Horizon <- U64 - 1

(* The storage of the processor, as created, updated, extended, re-owned, *)
(* deleted and swept through the linked expiration index, implements the *)
(* abstract entity lifecycle: every step is an abstract step or leaves    *)
(* the metadata alone, and every block is swept.                          *)
RefinesLifecycle == Lifecycle!Spec
=============================================================================
