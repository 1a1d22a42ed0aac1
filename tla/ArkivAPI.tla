------------------------------ MODULE ArkivAPI ------------------------------
(***************************************************************************)
(* eth.arkivAPI: the arkiv_ RPC handlers that read the chain. Each handler *)
(* reads the current head and then reads more of the chain, and the chain  *)
(* moves on (a new block, or a SetHead/reorg that sets the head back)      *)
(* between the two reads; RPC calls run on their own goroutines, so a      *)
(* handler's steps interleave with the chain's. One call is in flight at  *)
(* a time: the handlers keep no state, so two calls never interact.       *)
(*                                                                         *)
(* A header is its height, its version (the fork it was made on), the     *)
(* version of its parent and its timestamp; its hash is <<n, v>>. Query    *)
(* forwards to the external SQLite store, whose answer is not modelled:   *)
(* only the block the query is pinned to is.                              *)
(***************************************************************************)
EXTENDS Naturals

CONSTANTS
    MaxHead,        \* the chain makes no block above it
    MaxRewinds,     \* head rewinds in a behaviour
    Gaps,           \* seconds between a block and its parent
    Width,          \* bit width of header.Time and of the duration
    NoAtBlock       \* Options with a nil AtBlock (or no Options at all)

ASSUME /\ MaxHead \in Nat /\ MaxRewinds \in Nat /\ Width \in Nat \ {0}
       /\ Gaps \subseteq Nat \ {0} /\ Gaps # {} /\ NoAtBlock \notin Nat

VARIABLES
    head,      \* the canonical head's height
    canon,     \* canon[n]: version of the canonical header at height n
    stored,    \* headers (with their states) in the database
    written,   \* history: every header ever made
    rewinds,   \* rewinds so far
    pc,        \* the handler: "idle", "timing", "slots"
    hdr,       \* the header the handler read first
    result     \* the last answer: its kind, and the duration or the state

vars == <<head, canon, stored, written, rewinds, pc, hdr, result>>

U64 == 2 ^ Width
Heights == 0 .. MaxHead
Versions == 0 .. MaxRewinds
MaxGap == CHOOSE g \in Gaps : \A x \in Gaps : x <= g
Times == 0 .. (MaxHead * MaxGap)
Headers == [n : Heights, v : Versions, parent : Versions, time : Times]

Genesis == [n |-> 0, v |-> 0, parent |-> 0, time |-> 0]
NoResult == [kind |-> "none"]

(* The stored header with the given hash, as a set of zero or one. *)
ByHash(n, v) == {h \in stored : h.n = n /\ h.v = v}

CurrentHeader == CHOOSE h \in stored : h.n = head /\ h.v = canon[head]

Init ==
    /\ head = 0
    /\ canon = [n \in Heights |-> 0]
    /\ stored = {Genesis}
    /\ written = {Genesis}
    /\ rewinds = 0
    /\ pc = "idle"
    /\ hdr = Genesis
    /\ result = NoResult

-----------------------------------------------------------------------------
(* The chain. *)

(* A block on top of the head, on this fork, some seconds after it. *)
Commit(gap) ==
    /\ head < MaxHead
    /\ LET b == [n |-> head + 1, v |-> rewinds, parent |-> canon[head],
                 time |-> CurrentHeader.time + gap]
       IN  /\ stored' = stored \cup {b}
           /\ written' = written \cup {b}
    /\ head' = head + 1
    /\ canon' = [canon EXCEPT ![head + 1] = rewinds]
    /\ UNCHANGED <<rewinds, pc, hdr, result>>

(* The head is set back: a reorg keeps the headers above it, a SetHead   *)
(* deletes them with their states.                                       *)
Rewind(h, deletes) ==
    /\ rewinds < MaxRewinds
    /\ h < head
    /\ head' = h
    /\ rewinds' = rewinds + 1
    /\ stored' = IF deletes
                 THEN {b \in stored : b.n <= h \/ b.v # canon[b.n]}
                 ELSE stored
    /\ UNCHANGED <<canon, written, pc, hdr, result>>

-----------------------------------------------------------------------------
(* The handlers. *)

(* Mutant: a nil AtBlock is passed on to the store as it is. *)
QueryNoDefault(given) ==
    /\ pc = "idle"
    /\ \E ok \in BOOLEAN :
          result' = IF ok THEN [kind |-> "query", atBlock |-> given]
                    ELSE [kind |-> "error"]
    /\ UNCHANGED <<head, canon, stored, written, rewinds, pc, hdr>>

(* Query: with no options or no AtBlock the query is pinned to the        *)
(* current head's number; the store then answers it, or fails.           *)
Query(given) ==
    /\ pc = "idle"
    /\ \E ok \in BOOLEAN :
          result' = IF ok THEN [kind |-> "query",
                                atBlock |-> IF given = NoAtBlock THEN head ELSE given]
                    ELSE [kind |-> "error"]
    /\ UNCHANGED <<head, canon, stored, written, rewinds, pc, hdr>>

(* GetBlockTiming and GetNumberOfUsedSlots: the current header (or block) *)
(* is read first.                                                         *)
ReadHead(next) ==
    /\ pc = "idle"
    /\ pc' = next
    /\ hdr' = CurrentHeader
    /\ UNCHANGED <<head, canon, stored, written, rewinds, result>>

(* Mutant: the previous header is the canonical one at the height below. *)
TimingParentByNumber ==
    /\ pc = "timing"
    /\ pc' = "idle"
    /\ LET prev == IF hdr.n = 0 \/ hdr.n - 1 > head THEN {}
                   ELSE ByHash(hdr.n - 1, canon[hdr.n - 1])
       IN  result' =
             IF prev = {} THEN [kind |-> "error"]
             ELSE [kind |-> "timing", block |-> hdr.n, time |-> hdr.time,
                   duration |-> (hdr.time - (CHOOSE p \in prev : TRUE).time) % U64]
    /\ UNCHANGED <<head, canon, stored, written, rewinds, hdr>>

(* GetBlockTiming: the previous header is looked up by the parent hash;  *)
(* genesis has none (its parent hash is zero), and a header deleted      *)
(* since is missing: both are errors. The duration is a uint64           *)
(* subtraction.                                                          *)
TimingParent ==
    /\ pc = "timing"
    /\ pc' = "idle"
    /\ LET prev == IF hdr.n = 0 THEN {} ELSE ByHash(hdr.n - 1, hdr.parent)
       IN  result' =
             IF prev = {} THEN [kind |-> "error"]
             ELSE [kind |-> "timing", block |-> hdr.n, time |-> hdr.time,
                   duration |-> (hdr.time - (CHOOSE p \in prev : TRUE).time) % U64]
    /\ UNCHANGED <<head, canon, stored, written, rewinds, hdr>>

(* storageaccounting.GetNumberOfUsedSlots: the counter word of the       *)
(* processor in the given state; a state is named by its block's hash.  *)
UsedSlotsCounter(h) == [kind |-> "slots", n |-> h.n, v |-> h.v]

(* GetNumberOfUsedSlots: the state at the block's root, gone if the       *)
(* block was deleted since, is an error; otherwise the counter is read    *)
(* from that state.                                                       *)
SlotsState ==
    /\ pc = "slots"
    /\ pc' = "idle"
    /\ result' = IF ByHash(hdr.n, hdr.v) = {} THEN [kind |-> "error"]
                 ELSE UsedSlotsCounter(hdr)
    /\ UNCHANGED <<head, canon, stored, written, rewinds, hdr>>

Next ==
    \/ \E g \in Gaps : Commit(g)
    \/ \E h \in Heights, d \in BOOLEAN : Rewind(h, d)
    \/ \E given \in Heights \cup {NoAtBlock} : Query(given)
    \/ ReadHead("timing") \/ TimingParent
    \/ ReadHead("slots") \/ SlotsState

Spec == Init /\ [][Next]_vars

-----------------------------------------------------------------------------
TypeOK ==
    /\ head \in Heights /\ canon \in [Heights -> Versions]
    /\ stored \subseteq Headers /\ written \subseteq Headers
    /\ rewinds \in Versions
    /\ pc \in {"idle", "timing", "slots"}
    /\ hdr \in Headers
    /\ result \in {NoResult, [kind |-> "error"]}
                  \cup [kind : {"query"}, atBlock : Heights]
                  \cup [kind : {"timing"}, block : Heights, time : Times,
                         duration : 0 .. U64 - 1]
                  \cup [kind : {"slots"}, n : Heights, v : Versions]

(* GetBlockTiming reports how long the block it names took: its duration *)
(* is the header's timestamp minus that of the header's own parent, and  *)
(* is positive (no uint64 wrap), whatever reorg or SetHead moved the      *)
(* head between the CurrentHeader read and the previous-header read.      *)
TimingIsParentGap ==
    [][(pc = "timing" /\ pc' = "idle" /\ result'.kind = "timing") =>
         /\ result'.block = hdr.n /\ result'.time = hdr.time
         /\ \E p \in written : /\ p.n = hdr.n - 1 /\ p.v = hdr.parent
                               /\ result'.duration = hdr.time - p.time
         /\ result'.duration > 0]_vars
=============================================================================
