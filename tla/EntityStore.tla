---------------------------- MODULE EntityStore ----------------------------
(***************************************************************************)
(* The entity primitives of arkiv/storageutil/entity over the processor's *)
(* storage: the metadata word of an entity and its membership of the       *)
(* expiration index. Every operator maps a storage record s (see           *)
(* EntityExpiration) to the storage after the call.                        *)
(***************************************************************************)
EXTENDS EntityExpiration

CONSTANTS
    Addresses,              \* sender / owner addresses (model values)
    ZeroAddress,            \* the all-zero address
    Width,                  \* bit width of ExpiresAtBlock (64 in the code)
    MissingMetaDataIsError  \* which GetEntityMetaData is built, see below

ASSUME /\ ZeroAddress \notin Addresses
       /\ Width \in Nat \ {0}
       /\ MissingMetaDataIsError \in BOOLEAN

U64 == 2 ^ Width
Heights == 0 .. (U64 - 1)

(* EntityMetaData. Marshal packs Owner into bytes 0..19 and ExpiresAtBlock *)
(* into bytes 24..31 of one word; Unmarshal inverts it, so the word is     *)
(* represented by the record it encodes and the unset word by ZeroMeta.    *)
ZeroMeta == [owner |-> ZeroAddress, expiresAtBlock |-> 0]
MetaWords == [owner : Addresses \cup {ZeroAddress}, expiresAtBlock : Heights]

(* GetEntityMetaData. The source holds two versions of it: the one beside *)
(* Delete fails on an unset word, the one in get_entity_metadata.go       *)
(* returns the unmarshalled zero word with no error.                      *)
GetEntityMetaData(s, k) == s.meta[k]

(* Mutant: the check for an unset word dropped. *)
MetaDataMissingUnchecked(s, k) == FALSE

MetaDataMissing(s, k) == MissingMetaDataIsError /\ s.meta[k] = ZeroMeta

StoreEntityMetaData(s, k, emd) == [s EXCEPT !.meta[k] = emd]

DeleteEntityMetadata(s, k) == [s EXCEPT !.meta[k] = ZeroMeta]

(* Store: write the metadata word, then link the key into its height. *)
Store(s, k, emd) ==
    AddToEntitiesToExpireAtBlock(StoreEntityMetaData(s, k, emd),
                                 emd.expiresAtBlock, k)

(* Mutant: the owner is read back after the metadata word is cleared. *)
DeleteOwnerAfterClear(s, k) ==
    LET md  == GetEntityMetaData(s, k)
        st1 == DeleteEntityMetadata(
                 RemoveFromEntitiesToExpire(s, md.expiresAtBlock, k), k)
    IN  [owner |-> GetEntityMetaData(st1, k).owner, st |-> st1]

(* Delete: read the metadata (fails when missing), unlink the key from the *)
(* height the metadata records, clear the metadata word; returns the owner *)
(* and the new storage. Defined where ~MetaDataMissing(s, k).              *)
Delete(s, k) ==
    LET md == GetEntityMetaData(s, k)
    IN  [owner |-> md.owner,
         st    |-> DeleteEntityMetadata(
                      RemoveFromEntitiesToExpire(s, md.expiresAtBlock, k), k)]

(* Mutant: the key is not unlinked from its old height. *)
ExtendBTLNoUnlink(s, k, numberOfBlocks) ==
    LET md  == GetEntityMetaData(s, k)
        new == [md EXCEPT !.expiresAtBlock = (@ + numberOfBlocks) % U64]
    IN  StoreEntityMetaData(
            AddToEntitiesToExpireAtBlock(s, new.expiresAtBlock, k), k, new)

(* Mutant: the index moves to the new height but the metadata word keeps *)
(* the old ExpiresAtBlock (a copy stored before the increment).          *)
ExtendBTLStoreOld(s, k, numberOfBlocks) ==
    LET md  == GetEntityMetaData(s, k)
        new == [md EXCEPT !.expiresAtBlock = (@ + numberOfBlocks) % U64]
    IN  StoreEntityMetaData(
            AddToEntitiesToExpireAtBlock(
                RemoveFromEntitiesToExpire(s, md.expiresAtBlock, k),
                new.expiresAtBlock, k),
            k, md)

(* ExtendBTL: unlink from the old height, add numberOfBlocks with uint64   *)
(* wrap-around, link into the new height, store the metadata.             *)
(* Defined where ~MetaDataMissing(s, k).                                   *)
ExtendBTL(s, k, numberOfBlocks) ==
    LET md  == GetEntityMetaData(s, k)
        new == [md EXCEPT !.expiresAtBlock = (@ + numberOfBlocks) % U64]
    IN  StoreEntityMetaData(
            AddToEntitiesToExpireAtBlock(
                RemoveFromEntitiesToExpire(s, md.expiresAtBlock, k),
                new.expiresAtBlock, k),
            k, new)
=============================================================================
