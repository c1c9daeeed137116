----------------------------- MODULE PgDataStore -----------------------------
(***************************************************************************)
(* The ingestion path of PgDataStore (src/src/datastore/postgres-store.ts):*)
(* update() opens a transaction, reads the chain tip, runs handleReorg     *)
(* (which may call restoreOrphanedChain recursively), stores the block and *)
(* its txs and events as canonical or not, commits, and then emits         *)
(* blockUpdate and txUpdate to the in-process listeners.                   *)
(*                                                                         *)
(* Readers see only committed rows (READ COMMITTED, one writer), so the    *)
(* whole transaction is one step: it either commits or rolls back.  The    *)
(* rows of a table for one block always carry the same canonical flag      *)
(* (every write in the code filters by index_block_hash only), so a table  *)
(* is kept per block: entities[<<t, b>>] is the flag of block b's rows in  *)
(* table t.  Hashes, payloads, amounts' encoding and logging are left out. *)
(***************************************************************************)
EXTENDS Integers, Sequences, FiniteSets, FiniteSetsExt, TLC

CONSTANTS
    Blocks,         \* index_block_hash of every block the node may announce
    Height,         \* Height[b]: block_height
    Parent,         \* Parent[b]: parent_index_block_hash
    NoBlock,        \* parent hash of a genesis block, and "no block yet"
    TablesOf,       \* TablesOf[b]: the entity tables block b has rows in
    TxsOf,          \* TxsOf[b]: the tx ids of block b, in data.txs order
    StxEventsOf,    \* StxEventsOf[b]: b's STX events [idx, sender, recipient, amount]
    Addresses,      \* STX principals
    NoAddress,      \* sender of a mint, recipient of a burn
    MaxDeliveries   \* bound on the messages the node delivers

(* The entity tables that update() writes and markEntitiesCanonical flips. *)
Tables == {"txs", "stx_events", "ft_events", "nft_events",
           "contract_logs", "smart_contracts"}

ASSUME TablesOf \in [Blocks -> SUBSET Tables]
ASSUME \A b \in Blocks : ("stx_events" \in TablesOf[b]) <=> StxEventsOf[b] # {}
ASSUME MaxDeliveries \in Nat

VARIABLES
    blocks,       \* committed blocks table: index_block_hash -> canonical
    entities,     \* committed entity rows: <<table, index_block_hash>> -> canonical
    notified,     \* emit calls made so far, per notification, counted up to 2
    lastUpdate,   \* outcome of the latest update() call, and whether it committed
    deliveries    \* update() calls so far

vars == <<blocks, entities, notified, lastUpdate, deliveries>>

(* The refinement mapping: the stored blocks are the known ones, and the  *)
(* canonical flags name the chain.                                        *)
Abstract == INSTANCE CanonicalChain
              WITH known <- DOMAIN blocks,
                   chain <- {b \in DOMAIN blocks : blocks[b]}

(* Keys of the entity rows of the blocks in bs. *)
EntityKeys(bs) == UNION {{<<t, b>> : t \in TablesOf[b]} : b \in bs}

(* blockUpdate(b) and txUpdate(tx) for each tx of b, in emission order. *)
Emissions(b) ==
    << <<"block", b, NoBlock>> >> \o [i \in 1..Len(TxsOf[b]) |-> <<"tx", b, TxsOf[b][i]>>]

Notes == UNION {{Emissions(b)[i] : i \in 1..Len(Emissions(b))} : b \in Blocks}

(* Results of the steps inside the transaction: ok, and the working state. *)
Ok(st) == [ok |-> TRUE, st |-> st]
Failed(st) == [ok |-> FALSE, st |-> st]

-----------------------------------------------------------------------------
(* getChainTipHeight: the height of a canonical block at the maximum      *)
(* height of ALL blocks, and 0 when no canonical block is at that height. *)
GetChainTipHeight(bl) ==
    LET maxH == IF DOMAIN bl = {} THEN 0 ELSE Max({Height[b] : b \in DOMAIN bl})
    IN  IF \E b \in DOMAIN bl : bl[b] /\ Height[b] = maxH THEN maxH ELSE 0

(* Mutant: a markEntitiesCanonical that forgets the smart_contracts table. *)
MarkEntitiesCanonicalNoContracts(st, ib, canonical) ==
    LET e == st.entities
    IN  [st EXCEPT !.entities =
            [k \in DOMAIN e |-> IF k[2] = ib /\ k[1] # "smart_contracts"
                                THEN canonical ELSE e[k]]]

(* markEntitiesCanonical: one UPDATE per entity table, setting the flag   *)
(* of every row of the block ib.  The counts it adds up are only logged.  *)
MarkEntitiesCanonical(st, ib, canonical) ==
    LET e == st.entities
    IN  [st EXCEPT !.entities =
            [k \in DOMAIN e |-> IF k[2] = ib THEN canonical ELSE e[k]]]

(* One level of restoreOrphanedChain, for a block ib found non-canonical: *)
(* mark it canonical, orphan every other canonical block at its height    *)
(* and the entities of the first one returned, then mark ib's entities    *)
(* canonical.  The UPDATE's RETURNING order is unspecified; CHOOSE takes  *)
(* one of the rows (there is at most one while ChainIsAncestryOfTip holds).*)
RestoreBlock(st, ib) ==
    LET h        == Height[ib]
        restored == [st EXCEPT !.blocks[ib] = TRUE]
        bl       == restored.blocks
        orphaned == {o \in DOMAIN bl : Height[o] = h /\ o # ib /\ bl[o]}
        flipped  == [restored EXCEPT !.blocks =
                        [o \in DOMAIN bl |-> IF o \in orphaned THEN FALSE ELSE bl[o]]]
        marked   == IF orphaned = {} THEN flipped
                    ELSE MarkEntitiesCanonical(flipped, CHOOSE o \in orphaned : TRUE, FALSE)
    IN  MarkEntitiesCanonical(marked, ib, TRUE)

(* Mutant: restore only the first orphaned block, never its ancestors. *)
RestoreOrphanedChainShallow(st, ib) ==
    IF ib \notin DOMAIN st.blocks \/ st.blocks[ib] THEN Failed(st)
    ELSE Ok(RestoreBlock(st, ib))

(* restoreOrphanedChain: fails when ib is not a stored non-canonical      *)
(* block (rowCount 0; rowCount > 1 cannot happen, index_block_hash is     *)
(* unique); otherwise restores ib and recurses into its parent while that *)
(* parent (at height - 1) is non-canonical.                               *)
RECURSIVE RestoreOrphanedChain(_, _)
RestoreOrphanedChain(st, ib) ==
    IF ib \notin DOMAIN st.blocks \/ st.blocks[ib] THEN Failed(st)
    ELSE LET s == RestoreBlock(st, ib)
             p == Parent[ib]
         IN  IF /\ p \in DOMAIN s.blocks
                /\ Height[p] = Height[ib] - 1
                /\ ~s.blocks[p]
             THEN RestoreOrphanedChain(s, p)
             ELSE Ok(s)

(* Mutant: the parent lookup also requires canonical = true. *)
HandleReorgCanonicalParent(st, b, tip) ==
    IF Height[b] <= 1 THEN Ok(st)
    ELSE LET p == Parent[b]
         IN  IF ~(p \in DOMAIN st.blocks /\ Height[p] = Height[b] - 1 /\ st.blocks[p])
             THEN Failed(st)
             ELSE Ok(st)

(* handleReorg: above height 1 the parent (height - 1, parent hash) must  *)
(* be stored, else "DB does not contain a parent block"; when it is       *)
(* non-canonical and the new block is above the tip, the parent's chain   *)
(* is restored.                                                           *)
HandleReorg(st, b, tip) ==
    IF Height[b] <= 1 THEN Ok(st)
    ELSE LET p == Parent[b]
         IN  IF ~(p \in DOMAIN st.blocks /\ Height[p] = Height[b] - 1) THEN Failed(st)
             ELSE IF ~st.blocks[p] /\ Height[b] > tip THEN RestoreOrphanedChain(st, p)
             ELSE Ok(st)

(* Mutant: an upsert (ON CONFLICT DO UPDATE) in place of DO NOTHING. *)
UpdateBlockUpsert(st, b, canonical) ==
    [rows |-> 1,
     st   |-> [st EXCEPT !.blocks =
                 [x \in DOMAIN st.blocks \cup {b} |->
                     IF x = b THEN canonical ELSE st.blocks[x]]]]

(* updateBlock: INSERT ... ON CONFLICT (index_block_hash) DO NOTHING,     *)
(* returning the row count.                                               *)
UpdateBlock(st, b, canonical) ==
    IF b \in DOMAIN st.blocks THEN [rows |-> 0, st |-> st]
    ELSE [rows |-> 1, st |-> [st EXCEPT !.blocks = st.blocks @@ (b :> canonical)]]

(* updateTx and the event and smart-contract inserts of block b, all with *)
(* the canonical flag update() decided for the batch.                     *)
InsertTxData(st, b, canonical) ==
    LET e == st.entities
        new == EntityKeys({b})
    IN  [st EXCEPT !.entities =
            [k \in DOMAIN e \cup new |-> IF k \in new THEN canonical ELSE e[k]]]

(* Mutant: the tx and event inserts guarded by the inverted row count. *)
UpdateTxnInverted(st, b) ==
    LET tip       == GetChainTipHeight(st.blocks)
        reorg     == HandleReorg(st, b, tip)
        canonical == ~(Height[b] <= tip)
        ins       == UpdateBlock(reorg.st, b, canonical)
    IN  [ok  |-> reorg.ok,
         st  |-> IF ins.rows = 0 THEN InsertTxData(ins.st, b, canonical) ELSE ins.st]

(* The body of update()'s transaction: tip, reorg, canonical decision,    *)
(* block insert, and the tx and event inserts when the block was new.     *)
UpdateTxn(st, b) ==
    LET tip       == GetChainTipHeight(st.blocks)
        reorg     == HandleReorg(st, b, tip)
        canonical == ~(Height[b] <= tip)
        ins       == UpdateBlock(reorg.st, b, canonical)
    IN  [ok  |-> reorg.ok,
         st  |-> IF ins.rows # 0 THEN InsertTxData(ins.st, b, canonical) ELSE ins.st]

Committed == [blocks |-> blocks, entities |-> entities]

-----------------------------------------------------------------------------
Init ==
    /\ blocks = <<>>
    /\ entities = <<>>
    /\ notified = [n \in Notes |-> 0]
    /\ lastUpdate = [outcome |-> "none", committed |-> FALSE]
    /\ deliveries = 0

(* The node delivers any block, in any order, again and again, and any   *)
(* delivery may fail, for MaxDeliveries messages; after that it delivers  *)
(* only blocks that are not stored yet, and none of those fails but for a *)
(* missing parent.  The bound is on the environment, in the guards, so    *)
(* that behaviours stay whole for the liveness check.                     *)
DeliveryAllowed(b) == deliveries < MaxDeliveries \/ b \notin DOMAIN blocks

(* update(data) commits.  After COMMIT it emits blockUpdate and then one  *)
(* txUpdate per tx; emit runs the listeners synchronously, so a listener  *)
(* that throws at the k-th emit ends the loop there and the error goes to *)
(* the catch block: ROLLBACK (a no-op after COMMIT) and rethrow.          *)
UpdateCommit(b) ==
    /\ DeliveryAllowed(b)
    /\ \E r \in {UpdateTxn(Committed, b)} :
       LET notes == Emissions(b)
       IN  /\ r.ok
           /\ blocks' = r.st.blocks
           /\ entities' = r.st.entities
           /\ \E k \in 1..Len(notes) + 1 :
                LET emitted == {notes[i] : i \in 1..Min({k, Len(notes)})}
                IN  /\ notified' = [n \in Notes |->
                                      IF n \in emitted THEN Min({notified[n] + 1, 2})
                                      ELSE notified[n]]
                    /\ lastUpdate' = [outcome   |-> IF k <= Len(notes) THEN "error" ELSE "ok",
                                      committed |-> TRUE]
    /\ deliveries' = Min({deliveries + 1, MaxDeliveries})

(* update(data) rolls back: a statement of the transaction failed (any    *)
(* query may fail), or handleReorg threw (parent missing).  Nothing is    *)
(* committed and nothing is emitted.                                      *)
UpdateRollback(b) ==
    /\ deliveries < MaxDeliveries
    /\ lastUpdate' = [outcome |-> "error", committed |-> FALSE]
    /\ deliveries' = deliveries + 1
    /\ UNCHANGED <<blocks, entities, notified>>

Next == \E b \in Blocks : UpdateCommit(b) \/ UpdateRollback(b)

Spec == Init /\ [][Next]_vars

(* When update(b) would commit: the state predicate ENABLED UpdateCommit(b)*)
(* stands for, evaluated directly rather than by TLC's ENABLED.           *)
CanCommit(b) == DeliveryAllowed(b) /\ UpdateTxn(Committed, b).ok

(* The node's event observer posts each block until the sidecar accepts   *)
(* it (spec sections 6 and 7: at-least-once delivery, the upstream        *)
(* replays after ParentMissing): weak fairness on the commit of every     *)
(* block, written out over CanCommit, and none on failures.               *)
LiveSpec ==
    /\ Spec
    /\ \A b \in Blocks : <>[]CanCommit(b) => []<><<UpdateCommit(b)>>_vars

-----------------------------------------------------------------------------
(* Read side: the rows getStxBalance sums.                                *)

(* Mutant: getStxBalance without the canonical = true filter. *)
GetStxBalanceAllRows(a) ==
    LET rows == UNION {{[blk |-> b, ev |-> e] : e \in StxEventsOf[b]} :
                         b \in {x \in DOMAIN blocks : "stx_events" \in TablesOf[x]}}
        sent == MapThenSumSet(LAMBDA r : r.ev.amount, {r \in rows : r.ev.sender = a})
        recv == MapThenSumSet(LAMBDA r : r.ev.amount, {r \in rows : r.ev.recipient = a})
    IN  [balance |-> recv - sent, totalSent |-> sent, totalReceived |-> recv]

(* getStxBalance: credit and debit sums over the canonical stx_events     *)
(* rows where a is recipient or sender; balance = received - sent.        *)
GetStxBalance(a) ==
    LET canon == {x \in DOMAIN blocks : <<"stx_events", x>> \in DOMAIN entities
                                         /\ entities[<<"stx_events", x>>]}
        rows == UNION {{[blk |-> b, ev |-> e] : e \in StxEventsOf[b]} : b \in canon}
        sent == MapThenSumSet(LAMBDA r : r.ev.amount, {r \in rows : r.ev.sender = a})
        recv == MapThenSumSet(LAMBDA r : r.ev.amount, {r \in rows : r.ev.recipient = a})
    IN  [balance |-> recv - sent, totalSent |-> sent, totalReceived |-> recv]

-----------------------------------------------------------------------------
(* Properties                                                              *)

(* The shape of the committed state: every stored block has exactly one  *)
(* row per entity table it has rows in, and nothing else is stored.       *)
TypeOK ==
    /\ DOMAIN blocks \subseteq Blocks
    /\ \A b \in DOMAIN blocks : blocks[b] \in BOOLEAN
    /\ DOMAIN entities = EntityKeys(DOMAIN blocks)
    /\ \A k \in DOMAIN entities : entities[k] \in BOOLEAN
    /\ notified \in [Notes -> 0..2]
    /\ lastUpdate \in [outcome : {"none", "ok", "error"}, committed : BOOLEAN]
    /\ deliveries \in 0..MaxDeliveries

(* I3: every tx, event, log and contract row of a block has the block's   *)
(* canonical flag, through sibling inserts, deep restorations by          *)
(* restoreOrphanedChain and the orphaning of the replaced blocks.         *)
EntitiesFollowBlock ==
    \A k \in DOMAIN entities : entities[k] = blocks[k[2]]

(* The canonical tips: canonical blocks at getChainTipHeight. *)
TipBlocks == {b \in DOMAIN blocks : blocks[b] /\ Height[b] = GetChainTipHeight(blocks)}

(* P3 and scenario 6: once anything is stored there is a canonical tip,   *)
(* and what getStxBalance returns for every address is the net of the STX *)
(* events of exactly the blocks from that tip back to genesis, so the     *)
(* balance follows reorgs without any row being deleted.                  *)
BalanceMatchesChain ==
    DOMAIN blocks # {} =>
        /\ TipBlocks # {}
        /\ \A t \in TipBlocks, a \in Addresses :
             LET evs  == UNION {{[blk |-> c, ev |-> e] : e \in StxEventsOf[c]} :
                                  c \in Abstract!Ancestors(t)}
                 net(r) == (IF r.ev.recipient = a THEN r.ev.amount ELSE 0)
                           - (IF r.ev.sender = a THEN r.ev.amount ELSE 0)
             IN  GetStxBalance(a).balance = MapThenSumSet(net, evs)

(* P4: an update() of a block that is already stored (at-least-once       *)
(* delivery, or a retry after an error) changes no row: the canonical     *)
(* decision and handleReorg both leave an existing block alone.           *)
RedeliveryIsNoop ==
    [][\A b \in DOMAIN blocks :
           UpdateCommit(b) => /\ blocks' = blocks
                              /\ entities' = entities]_vars

(* The stored blocks and their canonical flags implement CanonicalChain:  *)
(* a block higher than every stored block makes its ancestry the          *)
(* canonical chain (restoring orphaned ancestors, orphaning the replaced  *)
(* blocks), and any other update leaves every flag as it was.             *)
CanonicalChainRefined == Abstract!Spec

(* Spec scenario 4 and P1, whatever the order of delivery: a child that  *)
(* arrives before its parent is rolled back (handleReorg finds no parent) *)
(* and not buffered, so only the node's redelivery brings it back; with   *)
(* that, every block is eventually stored and the canonical flags settle  *)
(* on the ancestry of a highest block.                                    *)
EventuallyIndexed ==
    <>[](/\ DOMAIN blocks = Blocks
         /\ \E t \in TipBlocks : {b \in DOMAIN blocks : blocks[b]} = Abstract!Ancestors(t))

(* Spec section 4.3 step 5 and scenario 5: a duplicate delivery commits   *)
(* nothing and emits no notification, so blockUpdate is emitted at most   *)
(* once per block however often the node delivers it.                     *)
NotifiedOncePerBlock ==
    \A b \in Blocks : notified[<<"block", b, NoBlock>>] <= 1

(* Spec section 7: update() fails only with its transaction rolled back;  *)
(* a listener failure after COMMIT is logged and does not turn the        *)
(* committed write into an error.                                         *)
ErrorMeansRolledBack ==
    lastUpdate.outcome = "error" => ~lastUpdate.committed

=============================================================================
