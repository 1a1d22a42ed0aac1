-------------------------- MODULE EntityLifecycle --------------------------
(***************************************************************************)
(* What the Arkiv entity store promises (spec.md 3 and 4.1-4.4), with no  *)
(* expiration index: a map from entity keys to metadata, where a record   *)
(* exists exactly while the entity is live. A key is created once; Update *)
(* sets a new expiry after the current block and keeps the owner;         *)
(* ExtendBTL never moves the expiry earlier and keeps the owner;          *)
(* ChangeOwner keeps the expiry; Delete removes the record. At every      *)
(* block the sweep removes, in one step, exactly the entities whose       *)
(* ExpiresAtBlock is the block number, before any user operation of that  *)
(* block.                                                                 *)
(***************************************************************************)
EXTENDS Naturals

CONSTANTS
    Keys,        \* entity keys
    Addresses,   \* owners
    NoEntity,    \* the record of a key that is not live
    Horizon,     \* the largest expiration block
    MaxBlock     \* the last block

VARIABLES meta, block, swept, created

vars == <<meta, block, swept, created>>

Records == [owner : Addresses, expiresAtBlock : 0 .. Horizon]

IsLive(k) == meta[k] # NoEntity

Init ==
    /\ meta = [k \in Keys |-> NoEntity]
    /\ block = 1
    /\ swept = FALSE
    /\ created = {}

(* Expiration of the block: every due entity goes, every other stays. *)
Sweep ==
    /\ ~swept
    /\ swept' = TRUE
    /\ meta' = [k \in Keys |->
                  IF IsLive(k) /\ meta[k].expiresAtBlock = block
                  THEN NoEntity ELSE meta[k]]
    /\ UNCHANGED <<block, created>>

Advance ==
    /\ swept /\ block < MaxBlock
    /\ block' = block + 1
    /\ swept' = FALSE
    /\ UNCHANGED <<meta, created>>

(* User operations of a block run after its sweep. *)
Put(k, r) ==
    /\ swept
    /\ meta' = [meta EXCEPT ![k] = r]
    /\ UNCHANGED <<block, swept>>

Create(k) ==
    /\ k \notin created
    /\ created' = created \cup {k}
    /\ \E r \in Records : r.expiresAtBlock > block /\ Put(k, r)

Update(k) ==
    /\ IsLive(k)
    /\ \E r \in Records : /\ r.owner = meta[k].owner
                          /\ r.expiresAtBlock > block
                          /\ Put(k, r)
    /\ UNCHANGED created

Extend(k) ==
    /\ IsLive(k)
    /\ \E r \in Records : /\ r.owner = meta[k].owner
                          /\ r.expiresAtBlock >= meta[k].expiresAtBlock
                          /\ Put(k, r)
    /\ UNCHANGED created

ChangeOwner(k) ==
    /\ IsLive(k)
    /\ \E r \in Records : /\ r.expiresAtBlock = meta[k].expiresAtBlock
                          /\ Put(k, r)
    /\ UNCHANGED created

Delete(k) ==
    /\ IsLive(k)
    /\ Put(k, NoEntity)
    /\ UNCHANGED created

Next ==
    \/ Sweep
    \/ Advance
    \/ \E k \in Keys : Create(k) \/ Update(k) \/ Extend(k) \/ ChangeOwner(k) \/ Delete(k)

(* Every block is swept and the chain moves on to the last block. *)
Spec == Init /\ [][Next]_vars /\ WF_vars(Sweep) /\ WF_vars(Advance)
=============================================================================
