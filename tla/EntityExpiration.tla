-------------------------- MODULE EntityExpiration --------------------------
(***************************************************************************)
(* The expiration index of the Arkiv storage layer: for every block height *)
(* a doubly-linked list of the entity keys that expire at that height,     *)
(* kept in fixed-size storage words of the processor account.             *)
(*                                                                         *)
(* The package entityexpiration is not part of the source tree at hand;    *)
(* its three functions are modelled from spec.md section 4.2.              *)
(*                                                                         *)
(* The processor's storage is a record s with three kinds of slots, each   *)
(* derived with its own salt:                                              *)
(*   s.meta[k]  the metadata word of entity k (see EntityStore)            *)
(*   s.node[k]  the list node of entity k: [prev, next]                    *)
(*   s.head[h]  the first key of the list of height h                      *)
(* An unset slot reads as zero: ZeroNode for a node, NullKey for a head.   *)
(***************************************************************************)
EXTENDS Naturals, Sequences, FiniteSets

CONSTANTS
    Keys,       \* entity keys (model values)
    NullKey     \* the all-zero hash, used as the null pointer

ASSUME NullKey \notin Keys

KeyOrNull == Keys \cup {NullKey}

ZeroNode == [prev |-> NullKey, next |-> NullKey]

(* Add(height, key): prepend key to the list of height. *)
AddToEntitiesToExpireAtBlock(s, h, k) ==
    LET old == s.head[h]
    IN  IF old = NullKey
        THEN [s EXCEPT !.head[h] = k, !.node[k] = ZeroNode]
        ELSE [s EXCEPT !.head[h] = k,
                       !.node = [@ EXCEPT ![k] = [prev |-> NullKey, next |-> old],
                                          ![old].prev = k]]

(* Remove(height, key): splice key out of the list of height without a    *)
(* scan, then clear its node. The caller supplies the height.             *)
RemoveFromEntitiesToExpire(s, h, k) ==
    LET n     == s.node[k]
        node1 == IF n.prev # NullKey
                 THEN [s.node EXCEPT ![n.prev].next = n.next] ELSE s.node
        node2 == IF n.next # NullKey
                 THEN [node1 EXCEPT ![n.next].prev = n.prev] ELSE node1
        head1 == IF n.prev = NullKey
                 THEN [s.head EXCEPT ![h] = n.next] ELSE s.head
    IN  [s EXCEPT !.node = [node2 EXCEPT ![k] = ZeroNode], !.head = head1]

(* The keys reached from k by next pointers. The fuel stops the walk on a *)
(* corrupted (cyclic) list one step after it has visited every key, so    *)
(* that a cycle shows as a repetition.                                    *)
RECURSIVE FollowNext(_, _, _)
FollowNext(s, k, fuel) ==
    IF k = NullKey \/ fuel = 0 THEN <<>>
    ELSE <<k>> \o FollowNext(s, s.node[k].next, fuel - 1)

(* Sweep(height): the keys of the list of height, in list order. *)
IteratorOfEntitiesToExpireAtBlock(s, h) ==
    FollowNext(s, s.head[h], Cardinality(Keys) + 1)
=============================================================================
