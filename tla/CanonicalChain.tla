--------------------------- MODULE CanonicalChain ---------------------------
(***************************************************************************)
(* What the sidecar's store promises about canonicality, stated without   *)
(* tables, transactions or SQL: the set of known blocks only grows, and   *)
(* the canonical chain is the ancestry of a highest known block.  A block *)
(* that is higher than every known block takes the chain over ("longest   *)
(* chain wins"); a block at or below the tip height leaves the chain as   *)
(* it was ("ties prefer the already-canonical side").  Spec sections 4.3  *)
(* (tie-breaks and ordering) and invariants I1, I2.                       *)
(***************************************************************************)
EXTENDS Naturals, FiniteSets

CONSTANTS
    Blocks,     \* index_block_hash of every block the node may announce
    Height,     \* Height[b]: block_height of b
    Parent,     \* Parent[b]: parent_index_block_hash of b
    NoBlock     \* the parent hash of a genesis block: no block has it

ASSUME Height \in [Blocks -> Nat \ {0}]
ASSUME Parent \in [Blocks -> Blocks \cup {NoBlock}]
ASSUME \A b \in Blocks :
         Height[b] > 1 => Parent[b] \in Blocks /\ Height[Parent[b]] = Height[b] - 1

VARIABLES
    known,      \* the blocks stored so far
    chain       \* the blocks that are canonical

abstractVars == <<known, chain>>

(* The block b and all blocks it descends from. *)
RECURSIVE Ancestors(_)
Ancestors(b) ==
    {b} \cup (IF Height[b] = 1 THEN {} ELSE Ancestors(Parent[b]))

(* The height of the highest known block, 0 when nothing is known. *)
KnownHeight ==
    IF known = {} THEN 0
    ELSE CHOOSE h \in {Height[b] : b \in known} : \A c \in known : Height[c] <= h

Init ==
    /\ known = {}
    /\ chain = {}

(* A new block whose parent is known is stored; it becomes the canonical  *)
(* tip, together with its whole ancestry, only if it is higher than every *)
(* known block.                                                           *)
Receive(b) ==
    /\ b \notin known
    /\ Height[b] = 1 \/ Parent[b] \in known
    /\ known' = known \cup {b}
    /\ chain' = IF Height[b] > KnownHeight THEN Ancestors(b) ELSE chain

Next == \E b \in Blocks : Receive(b)

Spec == Init /\ [][Next]_abstractVars

(* The chain is the ancestry of one of the highest known blocks. *)
ChainIsAncestryOfTip ==
    known # {} =>
        \E t \in known : Height[t] = KnownHeight /\ chain = Ancestors(t)

=============================================================================
