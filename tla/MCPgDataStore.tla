---------------------------- MODULE MCPgDataStore ----------------------------
(***************************************************************************)
(* A block tree for checking PgDataStore: genesis g, a fork A (a2, a3)     *)
(* and a longer fork B (b2, b3, b4).  Delivered in the order the node      *)
(* produced them, B overtakes A only at b4, which restores b3 and b2 and   *)
(* orphans a3 and a2: the deep reorg of spec scenario 4.  b3 arriving      *)
(* while a3 is the tip is the equal-height sibling of scenario 2.          *)
(***************************************************************************)
EXTENDS PgDataStore

CONSTANTS g, a2, a3, b2, b3, b4,   \* index_block_hash values
          t1, t2, t3,              \* tx ids
          alice, bob               \* STX principals

MCBlocks == {g, a2, a3, b2, b3, b4}

MCHeight == (g :> 1) @@ (a2 :> 2) @@ (a3 :> 3) @@ (b2 :> 2) @@ (b3 :> 3) @@ (b4 :> 4)

MCParent == (g :> NoBlock) @@ (a2 :> g) @@ (a3 :> a2) @@ (b2 :> g) @@ (b3 :> b2) @@ (b4 :> b3)

(* Every kind of entity row appears in some block that a reorg flips. *)
MCTablesOf ==
    (g  :> {"txs", "stx_events"}) @@
    (a2 :> {"txs", "stx_events", "ft_events", "nft_events"}) @@
    (a3 :> {"txs", "contract_logs"}) @@
    (b2 :> {"txs", "smart_contracts", "contract_logs"}) @@
    (b3 :> {"txs", "stx_events"}) @@
    (b4 :> {"txs"})

MCTxsOf ==
    (g :> <<t1>>) @@ (a2 :> <<t1, t2>>) @@ (a3 :> <<t3>>) @@
    (b2 :> <<t2>>) @@ (b3 :> <<t2, t3>>) @@ (b4 :> <<t1>>)

(* g mints 100 to alice; a2 moves 30 of it to bob; b3, on the other fork, *)
(* moves 50 and burns 5.                                                  *)
MCStxEventsOf ==
    (g  :> {[idx |-> 0, sender |-> NoAddress, recipient |-> alice, amount |-> 100]}) @@
    (a2 :> {[idx |-> 0, sender |-> alice, recipient |-> bob, amount |-> 30]}) @@
    (a3 :> {}) @@
    (b2 :> {}) @@
    (b3 :> {[idx |-> 0, sender |-> alice, recipient |-> bob, amount |-> 50],
            [idx |-> 1, sender |-> bob, recipient |-> NoAddress, amount |-> 5]}) @@
    (b4 :> {})

MCAddresses == {alice, bob}

=============================================================================
