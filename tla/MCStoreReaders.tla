---------------------------- MODULE MCStoreReaders ----------------------------
(***************************************************************************)
(* Readers against a two-fork tree: genesis g; a2 and b2 are the same     *)
(* Stacks block (block_hash h2, tx t2) anchored in two burnchain forks,    *)
(* so the tx id and the block hash each have two stored versions; b3      *)
(* extends b2, and its arrival orphans a2.  b3's events are stored in the  *)
(* tables in an order other than their event_index order.                  *)
(***************************************************************************)
EXTENDS StoreReaders

CONSTANTS g, a2, b2, b3,     \* index_block_hash values
          h1, h2, h3,        \* block_hash values
          t1, t2, t3, t4,    \* tx ids
          c1,                \* contract_id
          alice, bob         \* STX principals

MCBlocks == {g, a2, b2, b3}
MCHeight == (g :> 1) @@ (a2 :> 2) @@ (b2 :> 2) @@ (b3 :> 3)
MCParent == (g :> NoBlock) @@ (a2 :> g) @@ (b2 :> g) @@ (b3 :> b2)
MCBlockHashOf == (g :> h1) @@ (a2 :> h2) @@ (b2 :> h2) @@ (b3 :> h3)

MCTablesOf ==
    (g  :> {"txs", "stx_events"}) @@
    (a2 :> {"txs", "stx_events", "ft_events", "smart_contracts"}) @@
    (b2 :> {"txs", "stx_events", "ft_events", "smart_contracts"}) @@
    (b3 :> {"txs", "stx_events", "ft_events", "nft_events", "contract_logs"})

MCTxsOf == (g :> <<t1>>) @@ (a2 :> <<t2>>) @@ (b2 :> <<t2>>) @@ (b3 :> <<t3, t4>>)

MCStxEventsOf ==
    (g  :> {[idx |-> 0, sender |-> NoAddress, recipient |-> alice, amount |-> 100]}) @@
    (a2 :> {[idx |-> 0, sender |-> alice, recipient |-> bob, amount |-> 30]}) @@
    (b2 :> {[idx |-> 0, sender |-> alice, recipient |-> bob, amount |-> 30]}) @@
    (b3 :> {[idx |-> 2, sender |-> alice, recipient |-> bob, amount |-> 5]})

(* Event rows: g mints 100 STX to alice; h2 (a2 and b2 alike) moves 30   *)
(* STX to bob and mints 10 "tok" to alice; b3 sends bob an NFT alice never *)
(* received, logs, moves 5 STX and 4 "tok".                                *)
Ev(tx, table, idx, asset, from, to, amount) ==
    [tx |-> tx, table |-> table, idx |-> idx, asset |-> asset,
     sender |-> from, recipient |-> to, amount |-> amount]

MCEventRowsOf ==
    (g  :> {Ev(t1, "stx_events", 0, "stx", NoAddress, alice, 100)}) @@
    (a2 :> {Ev(t2, "stx_events", 0, "stx", alice, bob, 30),
            Ev(t2, "ft_events", 1, "tok", NoAddress, alice, 10)}) @@
    (b2 :> {Ev(t2, "stx_events", 0, "stx", alice, bob, 30),
            Ev(t2, "ft_events", 1, "tok", NoAddress, alice, 10)}) @@
    (b3 :> {Ev(t3, "nft_events", 0, "pic", alice, bob, 1),
            Ev(t3, "contract_logs", 1, "none", NoAddress, NoAddress, 0),
            Ev(t3, "stx_events", 2, "stx", alice, bob, 5),
            Ev(t3, "ft_events", 3, "tok", alice, bob, 4)})

(* t2 deploys c1, so both versions of block h2 hold it. *)
MCContractsOf == (g :> {}) @@ (a2 :> {c1}) @@ (b2 :> {c1}) @@ (b3 :> {})

MCAddresses == {alice, bob}

=============================================================================
