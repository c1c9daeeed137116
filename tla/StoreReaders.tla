----------------------------- MODULE StoreReaders -----------------------------
(***************************************************************************)
(* The read queries of PgDataStore (src/src/datastore/postgres-store.ts)   *)
(* run by one API request while update() keeps committing.  Each SQL       *)
(* statement is one step that sees the committed state of the moment (one  *)
(* statement, one snapshot, READ COMMITTED); the steps of the writer,      *)
(* taken from PgDataStore, interleave between a query's statements.  The   *)
(* JavaScript after a query's last await reads no shared state and is      *)
(* folded into its last statement.  Rows are abstracted to their keys:     *)
(* (block, tx_index) for txs, (tx, table, event_index) for events.         *)
(***************************************************************************)
EXTENDS Integers, Sequences, FiniteSets, SequencesExt, TLC

CONSTANTS
    Blocks, Height, Parent, NoBlock, TablesOf, TxsOf, StxEventsOf,
    Addresses, NoAddress, MaxDeliveries,
    BlockHashOf,    \* BlockHashOf[b]: block_hash; equal across burnchain forks
    EventRowsOf,    \* EventRowsOf[b]: b's events [tx, table, idx, asset, sender,
                    \*   recipient, amount]
    ContractsOf,    \* ContractsOf[b]: contract_id of b's smart_contracts rows
    PageLimits,     \* limit values a request may pass
    PageOffsets     \* offset values a request may pass

VARIABLES
    blocks, entities, notified, lastUpdate, deliveries,   \* PgDataStore
    rop,      \* the query in progress and its arguments, or NoRead
    rdone,    \* its statements that have run
    racc,     \* what they returned
    rres      \* what the last query that finished returned

W == INSTANCE PgDataStore

writerVars == <<blocks, entities, notified, lastUpdate, deliveries>>
readerVars == <<rop, rdone, racc, rres>>
vars == <<writerVars, readerVars>>

EventTables == {"stx_events", "ft_events", "nft_events", "contract_logs"}
AssetTables == {"stx_events", "ft_events", "nft_events"}

ASSUME \A b \in Blocks :
         /\ \A e \in EventRowsOf[b] : e.table \in TablesOf[b] /\ e.tx \in Range(TxsOf[b])
         /\ TxsOf[b] # <<>> => "txs" \in TablesOf[b]
         /\ ("smart_contracts" \in TablesOf[b]) <=> ContractsOf[b] # {}

TxIds == UNION {Range(TxsOf[b]) : b \in Blocks}
BlockHashes == Range(BlockHashOf)
ContractIds == UNION {ContractsOf[b] : b \in Blocks}

NoRead == [name |-> "none"]
EmptyAcc == [count |-> 0, blocks |-> <<>>, txs |-> <<>>, events |-> <<>>, balances |-> <<>>]
NoResult == [req |-> NoRead, total |-> 0, blocks |-> <<>>, txs |-> <<>>, events |-> <<>>,
             balances |-> <<>>]

-----------------------------------------------------------------------------
(* The committed rows a statement sees.                                     *)

(* The canonical column of block b's rows in table t. *)
Canon(t, b) == entities[<<t, b>>]

(* txs rows: (index_block_hash, tx_index). *)
TxRows == UNION {{[blk |-> b, index |-> i - 1] : i \in 1..Len(TxsOf[b])} : b \in DOMAIN blocks}
TxIdOf(r) == TxsOf[r.blk][r.index + 1]

EventRows(tables) ==
    UNION {{[blk |-> b] @@ e : e \in {x \in EventRowsOf[b] : x.table \in tables}} :
             b \in DOMAIN blocks}

(* Key tuple k sorts before l in ORDER BY k DESC. *)
Above(k, l) == \E i \in 1..Len(k) : k[i] > l[i] /\ \A j \in 1..i - 1 : k[j] = l[j]

(* ORDER BY key DESC, LIMIT limit OFFSET offset, over rows whose keys are  *)
(* distinct: the rank of a row is one more than the rows above it.         *)
Page(S, key, limit, offset) ==
    LET above(r) == Cardinality({s \in S : Above(key[s], key[r])})
        inPage   == {r \in S : offset <= above(r) /\ above(r) < offset + limit}
    IN  SortSeq(SetToSeq(inPage), LAMBDA x, y : Above(key[x], key[y]))

Rows(seq) == Range(seq)

(* A statement without ORDER BY returns its rows in whatever order the    *)
(* engine produces.                                                        *)
AnyOrder(S) == SetToSeqs(S)

(* ORDER BY canonical DESC, block_height DESC LIMIT 1: the rows no other  *)
(* row precedes (two orphaned versions at one height tie).                 *)
First(S, canonical) ==
    {r \in S : \A s \in S : /\ canonical[s] => canonical[r]
                            /\ canonical[s] = canonical[r] => Height[s.blk] <= Height[r.blk]}

(* Array.prototype.sort as V8 runs it on short arrays: each element goes  *)
(* after the last element it does not compare below (binary insertion,    *)
(* stable).  For a comparator that is never negative V8's TimSort finds   *)
(* one ascending run and leaves the array as it is, as this does.         *)
JsSort(s, cmp) ==
    LET insert(acc, x) ==
          LET k == CHOOSE j \in 0..Len(acc) :
                     /\ \A i \in j + 1..Len(acc) : cmp[x, acc[i]] < 0
                     /\ j = 0 \/ cmp[x, acc[j]] >= 0
          IN  SubSeq(acc, 1, k) \o <<x>> \o SubSeq(acc, k + 1, Len(acc))
    IN  FoldLeft(insert, <<>>, s)

-----------------------------------------------------------------------------
(* The statements, each the set of results it may return.                  *)

(* getBlock: blocks WHERE block_hash = $1, canonical version first. *)
BlockByHash(h) ==
    LET S == {[blk |-> b] : b \in {x \in DOMAIN blocks : BlockHashOf[x] = h}}
    IN  IF S = {} THEN {<<>>} ELSE {<<r.blk>> : r \in First(S, [r \in S |-> blocks[r.blk]])}

(* Mutant: getTx ordered by block_height only. *)
TxByIdHeightOnly(tx) ==
    LET S == {r \in TxRows : TxIdOf(r) = tx}
    IN  IF S = {} THEN {<<>>} ELSE {<<r>> : r \in First(S, [r \in S |-> TRUE])}

(* getTx: txs WHERE tx_id = $1 ORDER BY canonical DESC, block_height DESC  *)
(* LIMIT 1.                                                                 *)
TxById(tx) ==
    LET S == {r \in TxRows : TxIdOf(r) = tx}
    IN  IF S = {} THEN {<<>>} ELSE {<<r>> : r \in First(S, [r \in S |-> Canon("txs", r.blk)])}

(* getSmartContract: smart_contracts WHERE contract_id = $1 ORDER BY      *)
(* canonical DESC, block_height DESC LIMIT 1.                               *)
ContractById(c) ==
    LET S == {[blk |-> b] : b \in {x \in DOMAIN blocks : c \in ContractsOf[x]}}
    IN  IF S = {} THEN {<<>>}
        ELSE {<<r.blk>> : r \in First(S, [r \in S |-> Canon("smart_contracts", r.blk)])}

CanonicalBlocks == {b \in DOMAIN blocks : blocks[b]}

(* getBlocks' page: canonical blocks ORDER BY block_height DESC. *)
BlocksPage(limit, offset) ==
    LET S == {[blk |-> b] : b \in CanonicalBlocks}
        p == Page(S, [r \in S |-> <<Height[r.blk]>>], limit, offset)
    IN  [i \in 1..Len(p) |-> p[i].blk]
CanonicalTxRows == {r \in TxRows : Canon("txs", r.blk)}
TxKey(r) == <<Height[r.blk], r.index>>
TxKeys == [r \in CanonicalTxRows |-> TxKey(r)]

(* getTxEvents' four selects: the rows of one table for (tx_id,           *)
(* index_block_hash), with no canonical filter.                            *)
EventsOf(table, tx, b) == {[blk |-> b] @@ e : e \in {x \in EventRowsOf[b] :
                                                      x.table = table /\ x.tx = tx}}

(* getAddressAssetEvents: the canonical stx, ft and nft events of which a *)
(* is sender or recipient (UNION ALL), ordered by (block_height, tx_index, *)
(* event_index) DESC.                                                      *)
CanonicalAssetEvents(a) ==
    {e \in EventRows(AssetTables) : Canon(e.table, e.blk) /\ a \in {e.sender, e.recipient}}
AssetKey(e) == <<Height[e.blk], SelectInSeq(TxsOf[e.blk], LAMBDA t : t = e.tx), e.idx>>

(* The transfers CTE of getFungibleTokenBalances and                     *)
(* getNonFungibleTokenCounts: canonical rows of table with a as a party.   *)
Transfers(table, a) ==
    {e \in EventRows({table}) : Canon(table, e.blk) /\ a \in {e.sender, e.recipient}}

(* getFungibleTokenBalances: credit and debit sums per asset_identifier,  *)
(* FULL JOIN, a missing side coalesced to 0; balance = received - sent.    *)
FtBalances(a) ==
    LET tr == Transfers("ft_events", a)
        sum(S) == MapThenSumSet(LAMBDA r : r.amount, S)
        credit(x) == sum({r \in tr : r.recipient = a /\ r.asset = x})
        debit(x) == sum({r \in tr : r.sender = a /\ r.asset = x})
        assets == {r.asset : r \in {e \in tr : e.recipient = a}}
                  \cup {r.asset : r \in {e \in tr : e.sender = a}}
    IN  [x \in assets |-> [balance |-> credit(x) - debit(x),
                           totalSent |-> debit(x), totalReceived |-> credit(x)]]

(* Mutant: the credit and debit counts joined with LEFT JOIN. *)
NftCountsLeftJoin(a) ==
    LET tr == Transfers("nft_events", a)
        received(x) == Cardinality({r \in tr : r.recipient = a /\ r.asset = x})
        sent(x) == Cardinality({r \in tr : r.sender = a /\ r.asset = x})
        assets == {r.asset : r \in {e \in tr : e.recipient = a}}
    IN  [x \in assets |-> [balance |-> received(x) - sent(x),
                           totalSent |-> sent(x), totalReceived |-> received(x)]]

(* getNonFungibleTokenCounts: the same with a COUNT per asset_identifier;   *)
(* count = received - sent.                                                 *)
NftCounts(a) ==
    LET tr == Transfers("nft_events", a)
        received(x) == Cardinality({r \in tr : r.recipient = a /\ r.asset = x})
        sent(x) == Cardinality({r \in tr : r.sender = a /\ r.asset = x})
        assets == {r.asset : r \in {e \in tr : e.recipient = a}}
                  \cup {r.asset : r \in {e \in tr : e.sender = a}}
    IN  [x \in assets |-> [balance |-> received(x) - sent(x),
                           totalSent |-> sent(x), totalReceived |-> received(x)]]

(* Which statements a query runs and in what order: getBlocks awaits its  *)
(* two with Promise.all, so either may run first; the others await each   *)
(* in turn.                                                                 *)
Statements ==
    [getBlock              |-> <<"blockByHash">>,
     getBlocks             |-> <<"blockCount", "blockPage">>,
     getBlockTxs           |-> <<"blockTxs">>,
     getTx                 |-> <<"txById">>,
     getSmartContract      |-> <<"contractById">>,
     getTxList             |-> <<"txCount", "txPage">>,
     getTxEvents           |-> <<"stx_events", "ft_events", "nft_events", "contract_logs">>,
     getAddressAssetEvents |-> <<"assetEvents">>,
     getAddressTxs         |-> <<"addressTxs">>,
     getFungibleTokenBalances  |-> <<"ftBalances">>,
     getNonFungibleTokenCounts |-> <<"nftCounts">>]

Pending ==
    LET st == Statements[rop.name]
    IN  IF rop.name = "getBlocks" THEN Range(st) \ rdone
        ELSE {st[Cardinality(rdone) + 1]}

(* What statement s adds to the accumulated results acc. *)
Run(s, acc) ==
    CASE s = "blockByHash" -> {[acc EXCEPT !.blocks = r] : r \in BlockByHash(rop.hash)}
      [] s = "txById"      -> {[acc EXCEPT !.txs = r] : r \in TxById(rop.tx)}
      [] s = "contractById" -> {[acc EXCEPT !.blocks = r] : r \in ContractById(rop.hash)}
      [] s = "blockCount"  -> {[acc EXCEPT !.count = Cardinality(CanonicalBlocks)]}
      [] s = "blockPage"   -> {[acc EXCEPT !.blocks = BlocksPage(rop.limit, rop.offset)]}
      [] s = "txCount"     -> {[acc EXCEPT !.count = Cardinality(CanonicalTxRows)]}
      [] s = "txPage"      -> {[acc EXCEPT !.txs = Page(CanonicalTxRows, TxKeys, rop.limit, rop.offset)]}
      [] s = "blockTxs"    -> {[acc EXCEPT !.txs = o] : o \in AnyOrder({r \in TxRows : r.blk = rop.blk})}
      [] s \in EventTables -> {[acc EXCEPT !.events = acc.events \o o] :
                                 o \in AnyOrder(EventsOf(s, rop.tx, rop.blk))}
      [] s = "assetEvents" ->
            LET S == CanonicalAssetEvents(rop.addr)
            IN  {[acc EXCEPT !.events = Page(S, [e \in S |-> AssetKey(e)], rop.limit, rop.offset)]}
      [] s = "ftBalances"  -> {[acc EXCEPT !.balances = FtBalances(rop.addr)]}
      [] s = "nftCounts"   -> {[acc EXCEPT !.balances = NftCounts(rop.addr)]}
      [] s = "addressTxs"  ->
            LET p == Page(CanonicalTxRows, TxKeys, rop.limit, rop.offset)
            IN  {[acc EXCEPT !.txs = p, !.count = Cardinality(CanonicalTxRows)]}

(* getBlockTxs sorts with result.rows.sort(tx => tx.tx_index): a one-     *)
(* argument comparator, which compares a row's tx_index with zero.         *)
ByTxIndex(a, b) == a.index

(* Mutant: getTxEvents sorting with the one-argument comparator of        *)
(* getBlockTxs.                                                            *)
ByEventIndexOneArg(a, b) == a.idx

(* getTxEvents: events.sort((a, b) => a.event_index - b.event_index). *)
ByEventIndex(a, b) == a.idx - b.idx

(* The JavaScript after the last await: getBlocks and getTxList return    *)
(* the COUNT as total; getBlockTxs and getTxEvents sort; getAddressTxs    *)
(* takes the window count from its first row, 0 when no row came back;    *)
(* getAddressAssetEvents returns total 0.                                   *)
Result(acc) ==
    [req    |-> rop,
     total  |-> CASE rop.name \in {"getBlocks", "getTxList"} -> acc.count
                  [] rop.name = "getAddressTxs" -> IF Len(acc.txs) > 0 THEN acc.count ELSE 0
                  [] OTHER -> 0,
     blocks |-> acc.blocks,
     txs    |-> IF rop.name = "getBlockTxs" THEN JsSort(acc.txs, [p \in Rows(acc.txs) \X Rows(acc.txs) |-> ByTxIndex(p[1], p[2])]) ELSE acc.txs,
     events |-> IF rop.name = "getTxEvents" THEN JsSort(acc.events, [p \in Rows(acc.events) \X Rows(acc.events) |-> ByEventIndex(p[1], p[2])]) ELSE acc.events,
     balances |-> acc.balances]

-----------------------------------------------------------------------------
(* A request's arguments; stored records whether the block named was      *)
(* committed when the query began (history, read by TxEventsComplete).     *)
(* args: the arguments the query takes (hash: a block hash or contract id). *)
Req(name, args) ==
    LET q == args @@ [hash |-> NoBlock, tx |-> NoBlock, blk |-> NoBlock, addr |-> NoAddress,
                      limit |-> 0, offset |-> 0]
    IN  [name |-> name, hash |-> q.hash, tx |-> q.tx, blk |-> q.blk, addr |-> q.addr,
         limit |-> q.limit, offset |-> q.offset, stored |-> q.blk \in DOMAIN blocks]

Requests ==
    LET paged(name, as) == {Req(name, [addr |-> a, limit |-> l, offset |-> o]) :
                              a \in as, l \in PageLimits, o \in PageOffsets}
    IN  {Req("getBlock", [hash |-> h]) : h \in BlockHashes}
        \cup {Req("getBlockTxs", [blk |-> b]) : b \in Blocks}
        \cup {Req("getTx", [tx |-> t]) : t \in TxIds}
        \cup {Req("getSmartContract", [hash |-> c]) : c \in ContractIds}
        \cup UNION {{Req("getTxEvents", [tx |-> t, blk |-> b]) : t \in Range(TxsOf[b])} : b \in Blocks}
        \cup {Req("getFungibleTokenBalances", [addr |-> a]) : a \in Addresses}
        \cup {Req("getNonFungibleTokenCounts", [addr |-> a]) : a \in Addresses}
        \cup paged("getBlocks", {NoAddress}) \cup paged("getTxList", {NoAddress})
        \cup paged("getAddressAssetEvents", Addresses) \cup paged("getAddressTxs", {NoAddress})

Init ==
    /\ W!Init
    /\ rop = NoRead
    /\ rdone = {}
    /\ racc = EmptyAcc
    /\ rres = NoResult

(* An API handler calls a query (the previous one's result is gone). *)
StartRead ==
    /\ rop = NoRead
    /\ \E q \in Requests : rop' = q
    /\ rres' = NoResult
    /\ UNCHANGED <<writerVars, rdone, racc>>

(* A statement of the query runs and the query awaits the next one. *)
ReadStatement ==
    /\ rop # NoRead
    /\ \E s \in Pending : \E acc \in Run(s, racc) :
         /\ rdone \cup {s} # Range(Statements[rop.name])
         /\ rdone' = rdone \cup {s}
         /\ racc' = acc
    /\ UNCHANGED <<writerVars, rop, rres>>

(* The query's last statement runs and the query returns. *)
ReadLastStatement ==
    /\ rop # NoRead
    /\ \E s \in Pending : \E acc \in Run(s, racc) :
         /\ rdone \cup {s} = Range(Statements[rop.name])
         /\ rres' = Result(acc)
    /\ rop' = NoRead
    /\ rdone' = {}
    /\ racc' = EmptyAcc
    /\ UNCHANGED writerVars

Next ==
    \/ W!Next /\ UNCHANGED readerVars
    \/ StartRead
    \/ ReadStatement
    \/ ReadLastStatement

Spec == Init /\ [][Next]_vars

-----------------------------------------------------------------------------
(* Properties                                                              *)

(* The step in which a query named n returns. *)
Returns(n) == rop.name = n /\ rop' = NoRead

(* getTx, getBlock and getSmartContract: a tx id, block_hash or contract  *)
(* stored in several forks is returned in its canonical version whenever  *)
(* one is stored (ORDER BY canonical DESC), and is found exactly when     *)
(* some version is stored, at the moment of the statement, whatever       *)
(* reorgs have run.                                                        *)
LookupPrefersCanonical ==
    [][/\ Returns("getTx") =>
           LET S == {r \in TxRows : TxIdOf(r) = rop.tx}
           IN  /\ (rres'.txs = <<>>) = (S = {})
               /\ (\E r \in S : Canon("txs", r.blk)) => Canon("txs", rres'.txs[1].blk)
       /\ Returns("getBlock") =>
           LET S == {b \in DOMAIN blocks : BlockHashOf[b] = rop.hash}
           IN  /\ (rres'.blocks = <<>>) = (S = {})
               /\ (\E b \in S : blocks[b]) => blocks[rres'.blocks[1]]
       /\ Returns("getSmartContract") =>
           LET S == {b \in DOMAIN blocks : rop.hash \in ContractsOf[b]}
           IN  /\ (rres'.blocks = <<>>) = (S = {})
               /\ (\E b \in S : Canon("smart_contracts", b))
                    => Canon("smart_contracts", rres'.blocks[1])]_vars

(* Spec section 4.2: getTxEvents returns every STX, FT, NFT and log event *)
(* of (tx, block), sorted by event_index: with no canonical filter, the   *)
(* four statements find all of a stored block's events even when a reorg  *)
(* commits between them, and the sort merges the four tables.              *)
TxEventsComplete ==
    rres.req # NoRead /\ rres.req.name = "getTxEvents" /\ rres.req.stored =>
        rres.events = SortSeq(SetToSeq(UNION {EventsOf(t, rres.req.tx, rres.req.blk) : t \in EventTables}),
                              LAMBDA x, y : x.idx < y.idx)

(* Spec section 4.2 and P3: the FT balances and NFT counts returned for   *)
(* an address are, per asset_identifier, the received, sent and net       *)
(* amounts (FT) or transfers (NFT) of exactly the events of the chain     *)
(* from a canonical tip back to genesis, with an entry for every asset    *)
(* the address received or sent there, as of the statement.                *)
AssetBalancesMatchChain ==
    [][\A n \in {"getFungibleTokenBalances", "getNonFungibleTokenCounts"} :
         Returns(n) =>
           LET table == IF n = "getFungibleTokenBalances" THEN "ft_events" ELSE "nft_events"
               a == rop.addr
               chain == IF W!TipBlocks = {} THEN {} ELSE W!Abstract!Ancestors(CHOOSE t \in W!TipBlocks : TRUE)
               evs == {e \in UNION {{[blk |-> c] @@ x : x \in EventRowsOf[c]} : c \in chain} :
                         e.table = table}
               amt(e) == IF table = "ft_events" THEN e.amount ELSE 1
               tot(S) == MapThenSumSet(amt, S)
               got(x) == tot({e \in evs : e.asset = x /\ e.recipient = a})
               gave(x) == tot({e \in evs : e.asset = x /\ e.sender = a})
               assets == {e.asset : e \in {x \in evs : a \in {x.sender, x.recipient}}}
           IN  rres'.balances = [x \in assets |-> [balance |-> got(x) - gave(x),
                                                   totalSent |-> gave(x), totalReceived |-> got(x)]]]_vars

(* Spec section 4.2: getAddressTxs returns, with its page, the windowed   *)
(* total of the canonical txs of the address.                              *)
AddressTxsTotalIsCount ==
    [][Returns("getAddressTxs") => rres'.total = Cardinality(CanonicalTxRows)]_vars

(* getBlockTxs returns the tx ids of a block in tx_index order, the order *)
(* its sort(tx => tx.tx_index) is written to produce.                      *)
BlockTxsInIndexOrder ==
    rres.req # NoRead /\ rres.req.name = "getBlockTxs" =>
        \A i \in 1..Len(rres.txs) - 1 : rres.txs[i].index < rres.txs[i + 1].index

====
