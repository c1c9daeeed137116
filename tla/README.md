# TLA+ models of the Stacks sidecar's data store

This directory holds TLA+ specifications of the sidecar in `src/`. The sidecar receives
block messages from a Stacks node, writes them into Postgres through
`PgDataStore.update()` (`src/src/datastore/postgres-store.ts`), and serves them
through a REST API (`src/src/api/routes/*.ts`). Every model is checked with TLC.

## The system's parts and how they interact

| Part | Source | State | Operations |
|---|---|---|---|
| Decoder | `src/unnamed/part_002` (`createDbTxFromCoreMsg`, `getAssetEventId`) | none | builds `DbTx`/event rows from a core message; throws on poison-microblock payloads |
| Store write path | `postgres-store.ts` 197-556, 626-664, 944-1050 | tables `blocks`, `txs`, `stx_events`, `ft_events`, `nft_events`, `contract_logs`, `smart_contracts`, each row with a `canonical` flag | `update` (tip read, `handleReorg`, `restoreOrphanedChain`, `markEntitiesCanonical`, `updateBlock`, `updateTx`, event inserts, COMMIT/ROLLBACK) |
| Notifier | `postgres-store.ts` 261-264, `DataStoreEventEmitter` in `part_002` | listeners | `emit('blockUpdate')`, `emit('txUpdate')` after COMMIT, synchronously |
| Store readers | `postgres-store.ts` 558-1370 | none (reads the tables) | `getBlock(s)`, `getTx(List)`, `getTxEvents`, `getStxBalance`, `getFungibleTokenBalances`, `getAddressTxs`, `getAddressAssetEvents`, ... |
| Connection and migrations | `postgres-store.ts` 52-95, 483-533; `part_003` | pool, schema | `connect` (retry loop), `runMigrations`, `cycleMigrations` |
| Address routes | `src/src/api/routes/address.ts` | none | validate the principal, call a reader, send one response |
| Faucet | `postgres-store.ts` (faucet queries) | `faucet_requests` | insert and list |

The core interaction is between the node, which delivers blocks at least once and possibly
on several forks, and the store. The store keeps every block it has ever seen and
marks the longest chain canonical; reorgs flip flags and delete nothing. Readers see
only committed rows. The notifier runs inside `update()` after COMMIT.

Behaviours that are hard to test, and that the models target:
- deep reorgs, where `restoreOrphanedChain` recurses once per height;
- the `<=` / `>` boundary between the sibling decision and the reorg decision;
- the tip read before the reorg and used after it;
- redelivery of a stored block;
- a listener that throws after COMMIT.

`PROJECT.json` lists every hazard at the line where it occurs.

## Modules

- **`CanonicalChain.tla`**: the abstract promise. `known` is the set of stored blocks
  and `chain` is the set of canonical blocks. `Receive(b)` stores a block whose parent
  is known. The block's ancestry becomes the chain only if the block is higher than
  every known block ("longest chain wins"). Ties keep the canonical side.
- **`PgDataStore.tla`**: the write path of `update()` as one atomic transaction.
  - State: `blocks` (hash -> canonical), `entities` (<<table, block>> -> canonical),
    `notified` (emit count per notification, saturated at 2), `lastUpdate` (what the
    caller sees, and whether the transaction committed), and `deliveries`.
  - Rows of one table for one block always share a flag, because every write in the
    code filters by `index_block_hash`. So each pair (table, block) is one entry.
  - Each code function is one operator over a snapshot record `st`:
    `GetChainTipHeight`, `MarkEntitiesCanonical`, `RestoreBlock`/`RestoreOrphanedChain`
    (RECURSIVE, like the code), `HandleReorg`, `UpdateBlock` (returns `rowCount`),
    `InsertTxData`, `UpdateTxn`.
  - Action `UpdateCommit(b)` is the transaction committing. Then the emits run, and a
    listener may throw at any one of them.
  - Action `UpdateRollback(b)` is any statement failing, or `handleReorg` throwing.
  - `DeliveryAllowed(b)` is the node's side. For `MaxDeliveries` messages it sends any
    block, in any order, and any update may fail. After that it sends only blocks not
    yet stored, and these fail only for a missing parent. The bound sits in the guards,
    not in a state constraint, so behaviours stay complete for the liveness check.
  - `LiveSpec` adds weak fairness on `UpdateCommit(b)` for every block: the node posts
    each block until it is accepted. The fairness is written out over `CanCommit(b)`,
    the state predicate under which `UpdateCommit(b)` is enabled. TLC's `ENABLED` would
    evaluate the recursive transaction operators over and over and is far too slow here.
  - `Abstract == INSTANCE CanonicalChain WITH known <- DOMAIN blocks,
    chain <- {canonical blocks}` is the refinement mapping.
  - `GetStxBalance(a)` models the balance query over the committed rows.
- **`AddressRoutes.tla`**: the handlers of `createAddressRouter`
  (`src/src/api/routes/address.ts`). Each handler is the table of its steps, in source
  order (`HandlerStx`, `HandlerBalances`, ...). A step is one of:
  - a principal check that returns 400;
  - the `/mempool` C32 check that sends 400 without returning;
  - `isUnanchoredRequest`, or the `?height` filter;
  - limit/offset parsing, which throws on bad input;
  - `getCurrentBlockHeight` (500 when there is no block);
  - the send-many contract check;
  - an awaited query, which may reject;
  - `res.json`.

  There is one action per step kind. A send after headers were sent throws
  (`ERR_HTTP_HEADERS_SENT`). `ErrorPath` is `next(err)`, which answers only if nothing
  was sent. `IngestBlock` is the first block's commit, racing `getCurrentBlockHeight`.
  A request's inputs are chosen on arrival from their validity classes. Handler steps
  are weakly fair: every awaited promise settles, and the event loop runs every ready
  continuation.
- **`TxDecoder.tla`**: `createDbTxFromCoreMsg` (`src/unnamed/part_002`) as an operator.
  It covers `parseEnum`, then the payload switch with one case per payload type,
  PoisonMicroblock throwing, and the default throwing. It is applied to every message
  class: payload type byte (including an unknown one), auth type, success flag, hash
  mode and version. The result is compared with `SpecColumns`, the spec's tagged sum
  of payloads (sections 4.1 and 9).
  - The decoded row is then stored and read back, as `getTx` would. `UpdateTx` binds
    the 25 entries of `updateTx`'s parameter array (`UpdateTxValues`) to the 25
    columns of `TX_COLUMNS` (`TxColumns`) by position, and an undefined field becomes
    NULL. `ParseTxQueryResult` copies the common columns, then the columns of the
    row's `type_id` branch, and throws for any other `type_id`.
  - A value is abstracted to its field's name, so a value in the wrong column shows.
  - `WithBlock` adds `index_block_hash` and `burn_block_time`. The decoder does not
    set these; the indexer, which is not in `src/`, copies them from the block.
- **`StoreReaders.tla`**: the read queries of `PgDataStore`, composed with the writer.
  - It declares `PgDataStore`'s variables and takes its steps through
    `W == INSTANCE PgDataStore`. So `update()` commits (`W!Next`) interleave with the
    statements of one reader.
  - Reader state: `rop` is the query in progress and its arguments, `rdone` the
    statements that have run, `racc` what they returned, `rres` the result of the
    query that returned last.
  - Each SQL statement is one step on the committed state of that moment.
    `Statements` lists a query's statements: `getBlocks` has two, awaited together with
    `Promise.all` and so in either order; `getTxList` has two in turn; `getTxEvents` has
    four in turn, on one client outside a transaction.
  - `Run(s, acc)` gives what statement `s` may return:
    - `Page` is `ORDER BY ... DESC LIMIT OFFSET`;
    - `First` is `ORDER BY canonical DESC, block_height DESC LIMIT 1`;
    - `AnyOrder` covers a statement without `ORDER BY`.
  - `Result` is the JavaScript after the last await. `JsSort` is
    `Array.prototype.sort` as V8 runs it, so a comparator that is never negative leaves
    the array as it is.
  - Rows are reduced to their keys: (block, `tx_index`) for txs and
    (tx, table, `event_index`) for events.
- **`PgConnect.tla`**: `PgDataStore.connect()` and `runMigrations()`.
  - `Probe` is one iteration of the do-while: one attempt, error classification, and
    `client.end` in `finally`.
  - `RetryWait` is `await timeout(2000)` and the `< 10000` condition.
  - `Migrate` is `runMigrations` on its own client. `PoolConnect` is `pool.connect`,
    then `release`.
  - `ServerFlip` is the database going down or coming back, at most `MaxFlips` times.
  - Time is `elapsed`, in seconds. An attempt takes 0 or 1 s. The code only asks
    whether less than ten seconds have passed, so `Elapse` stops the clock at
    `RetryWindow`, and a loop that never exits is a finite cycle TLC can find.
- **`MCStoreReaders.tla`**: genesis `g`; `a2` and `b2`, one Stacks block (block hash
  `h2`, tx `t2`, contract `c1`, an FT mint) anchored in two burnchain forks; and `b3` on `b2`,
  whose arrival orphans `a2`. So a tx id, a block hash and a contract each have two
  stored versions. `b3` has two txs, and its events sit in the tables in an order other
  than their `event_index` order. Its NFT goes from alice, who never received
  one, to bob.
- **`MCPgDataStore.tla`**: a block tree for TLC. Genesis `g` is at height 1. Fork A is
  `a2`, `a3`. Fork B is `b2`, `b3`, `b4`. Txs and events cover every entity table, and
  STX transfers between `alice` and `bob` include a mint and a burn.

## Runs

| Run | cfg | Expect | What it shows |
|---|---|---|---|
| `ingest_reorg` | `MCPgDataStore.cfg` | pass | See below. |
| `duplicate_notifies` | `MCPgDataStoreNotify.cfg` | violation | Redelivering a stored block emits `blockUpdate`/`txUpdate` again (spec 4.3 says zero notifications). |
| `address_routes` | `MCAddressRoutes.cfg` | pass | For every route, input class and query outcome: the first response is 200 only for a valid request and 400 only for an invalid one (`FirstResponseMatchesInput`, spec section 7), and every started request is answered (`EveryRequestAnswered`, under the fairness above). |
| `mempool_double_response` | `MCAddressRoutesMempool.cfg` | violation | `/mempool` with an invalid address sends 400, then awaits `getMempoolTxList` and calls `res.json` again (`AtMostOneResponse`). The run allows only `?unanchored` values that `isUnanchoredRequest` accepts, so the second send is the handler's own, not the helper's. A code bug at `address.ts:427`: the `return` is missing. |
| `decode_payloads` | `TxDecoder.cfg` | pass | `StoredTxMatchesPayload`: a decoded row carries exactly the payload columns of its type, and the message's status and sponsorship. An unknown type yields no row. The row `updateTx` writes is read back by `parseTxQueryResult` as the same tx. |
| `poison_microblock_not_decoded` | `TxDecoderPoison.cfg` | violation | A PoisonMicroblock tx makes the decoder throw `NotImplementedError`. The spec says it captures both headers (`EveryPayloadTypeDecodes`). |
| `listener_error_after_commit` | `MCPgDataStoreError.cfg` | violation | A throwing listener makes `update()` reject a committed batch (spec section 7 says notifier failures never fail a write). |
| `reads_during_ingest` | `MCStoreReaders.cfg` | pass | One reader runs any query while the blocks are delivered (3 arbitrary deliveries, then the blocks still missing), a reorg included, and they commit between its statements. `TxEventsComplete`: `getTxEvents` of a block stored when it began returns all of that tx's events, sorted by `event_index`. This holds because its four selects have no canonical filter. `LookupPrefersCanonical`: `getTx`, `getBlock` and `getSmartContract` return the canonical version whenever one exists at their statement, and find a row exactly when one is stored. `AssetBalancesMatchChain`: the FT balances and NFT counts equal the tip chain's per-asset totals, with an entry for an asset the address only sent (the `FULL JOIN`). |
| `address_txs_total_on_empty_page` | `MCStoreReadersAddressTotal.cfg` | violation | With `offset` at or past the number of canonical txs, `getAddressTxs` returns `total: 0`. The count is read from the first row, and there is none (`postgres-store.ts:1335`). |
| `block_txs_unsorted` | `MCStoreReadersBlockTxs.cfg` | violation | `getBlockTxs` sorts with `tx => tx.tx_index`. That comparator is never negative, so the ids come back in whatever row order Postgres used (`postgres-store.ts:622`). |
| `connect_settles` | `PgConnect.cfg` | pass | `connect()` eventually returns or rejects, whatever the server does, because its loop is bounded by the clock rather than by success (`EventuallySettles`). `TypeOK` includes that only ECONNREFUSED and terminated connections are ever retried. |
| `connect_gives_up_early` | `PgConnectWindow.cfg` | violation | If the server accepts the probe and then restarts, `runMigrations`' connect fails with ECONNREFUSED and `connect()` rejects at once. Spec section 4.2 says connection failures are retried for ten seconds. |

The `ingest_reorg` run covers any sequence of 5 deliveries, in any order, with
redelivery, failures and throwing listeners, followed by the blocks still missing. It
checks six properties:
- `EntitiesFollowBlock` (I3): every entity row has its block's flag.
- `BalanceMatchesChain` (P3): `getStxBalance` equals the net of the tip's ancestry.
- `RedeliveryIsNoop` (P4).
- `CanonicalChainRefined`: the store implements `CanonicalChain`.
- `EventuallyIndexed` (liveness, under `LiveSpec`): whatever the order of delivery,
  every block is eventually stored and the flags settle on the ancestry of the highest
  block. A child delivered before its parent is rolled back and not buffered
  (`postgres-store.ts:455`), so this holds only through the node's redelivery.
- `TypeOK`.

Each of these properties is broken by a mutant of the code listed in `PROJECT.json`:
- entity flags not flipped for `smart_contracts`;
- a restoration that does not recurse;
- an upsert instead of `ON CONFLICT DO NOTHING`;
- a balance without the `canonical` filter;
- the `rowCount` test inverted;
- a parent lookup that also requires `canonical = true`. Only `EventuallyIndexed`
  catches this one: the store then refuses every child of an orphaned block, and no
  safety property can see a block that is never stored.

More mutants are listed in `PROJECT.json`:
- a handler that does not stop after `res.json`;
- a `?height` filter without the `< 1` check;
- a "no current block" path that returns without answering;
- a lenient payload type;
- `updateTx`'s parameters for the two smart-contract columns swapped;
- `getTx` ordered by `block_height` only, without `canonical DESC`;
- `getTxEvents` sorting with `getBlockTxs`' one-argument comparator;
- NFT counts joined with `LEFT JOIN` instead of `FULL JOIN`;
- the retry loop run `while (!connectionOkay)` instead of against the clock, which
  never settles while the server stays down;
- every connect error retried (the `code`/`message` classification dropped).

### Bounds

- Five arbitrary deliveries are followed by the missing blocks in any parent-first
  order. So all six blocks are stored in every order that climbs fork A and then
  overtakes it with fork B. That case needs a two-level restoration (`b4` restores
  `b2` and `b3`).
- The five arbitrary deliveries allow a child before its parent, redeliveries, failures
  and ties at heights 2 and 3. The run has about 20,000 states (40 s). With 7, it took
  3 minutes for safety alone.
- Two txs in one block give the listener a throw point between txUpdates.
- Two addresses with a mint and a burn exercise every filter of the balance query.

- `MCAddressRoutes` uses one request. Requests share nothing but the store, so two
  requests would only multiply states. Every route meets every input class: an invalid
  address, each bad `?height` form, a bad `?unanchored`, and bad paging. Every query
  may reject, and the first block may arrive before or during the request.
- `TxDecoder` decodes every one of the 192 message classes.
- `MCStoreReaders` allows 3 arbitrary deliveries, then the missing blocks. So all four
  blocks are always stored and `b3` orphans `a2`. A redelivery or failure can come
  first. Limits are {1}
  and offsets {0, 1}: with one canonical tx, offset 1 is past the end. The run has
  about 86,000 states (75 s).
- `PgConnect` allows 3 server changes. That is enough for down-up-down around the
  probe and the migration connect. Ten seconds, two-second waits and 0-1 s attempts
  give up to five probes.

Deadlock is not checked in the `PgDataStore` runs: ingestion stops when the node
stops sending. Nor in `PgConnect`: `connect()` ends when it returns or rejects.
`MCStoreReaders` checks deadlock, because a reader can always start another query.

### Fairness

`PgDataStore`'s `Spec` has none, and every safety property is checked without any.
`LiveSpec` adds weak fairness on the commit of each block. This is an assumption about
the node, not about this code. Spec sections 6 and 7 make delivery at-least-once and
leave replay after `ParentMissing` to the upstream. Failures get no fairness; after
the bound, there are no transient failures. `AddressRoutes` assumes weak fairness of each started
handler only. Node's event loop runs every continuation whose promise has settled. The
pg pool and Express settle every query and write, by error if need be. Request arrival
and block ingestion are not fair.
`PgConnect` assumes weak fairness of `connect()`'s own steps. Each awaited connect or
timer settles and its continuation runs. The server's changes are not fair. The
retry loop ends only because its condition is the clock and time advances in every
iteration (`RetryWait`'s two seconds), not because of fairness. The model assumes
that every awaited `client.connect()`, `PgMigrate` and `pool.connect()` settles.
The code sets no connection timeout, so a server that accepts TCP and never answers
would hang `connect()`. That behaviour belongs to node-postgres and the network, and
is not modelled.
`StoreReaders` checks only safety, so it assumes no fairness.

## What is not modelled, and why

- **Concurrent `update()` calls.** The code takes no lock. The spec requires one writer.
- **What `/balances` reads between its awaits.** The handler pins the STX balance to
  the height it read first, but reads FT and NFT balances at whatever the tip is by
  then. Spec section 5 allows a response to straddle a commit like this. The store
  methods it calls (`getCurrentBlockHeight`, `getStxBalanceAtBlock`, ...) are not in
  this repository's `PgDataStore`, so `AddressRoutes` keeps each as one awaited query.
- **The ROLLBACK failure path.** `update()` is one step with an ok or error outcome.
  When ROLLBACK itself rejects, its error replaces the original one, and the client
  still goes back to the pool. What happens to that client next is node-postgres pool
  behaviour, which is not in this repository.
- **Hashes (`getAssetEventId`) and serialisation.** These are out of TLC's reach, or
  pure formatting.
- **The generated Rosetta client, configuration and changelog.** They hold no state.
- **The numeric edges of `tx_index` (smallint) and `fee_rate` (u64 in a bigint
  column).** Consensus bounds fees by the STX supply and bounds the tx count by block
  size, so neither edge can be reached.
- **The helpers `isValidPrincipal`, `isUnanchoredRequest`, `parseLimitQuery` and
  `validate`.** They are not in this repository. Their outcomes are the request's input
  classes.
- **Faucet queries.** They are outside the spec's scope (section 1), and the route
  that calls them is not in this repository. The code is one INSERT in its own
  transaction and two SELECTs with no ORDER BY that return `rows[0]`. Nothing states
  which of an address's requests should come back, so no property can be stated.
  PROJECT.json lists the unordered `rows[0]` as a hazard.
- **`getAddressAssetEvents`' `total`.** The query is modelled, but no run checks its
  total. The code returns the literal `0`, which spec section 9 already calls a bug.
- **`getAddressTxs`' address filter.** Txs carry no sender in the model, so every
  modelled tx belongs to the queried address. Events do carry sender and recipient, so
  the asset queries filter as the SQL does.
- **`getTxList`'s `txTypeFilter`.** The model has no tx types. The filtered branch has
  the same two statements and the same order.
- **Row contents in `StoreReaders`.** The properties there concern which rows come
  back, and in what order. The tx column mapping is checked in `TxDecoder`. The event
  row conversions only copy columns.
- **The hex and bigint conversions of `updateTx` and `parseTxQueryResult`.**
  `hexToBuffer`/`bufferToHexPrefixString` and bigint-as-text/`BigInt` are inverse on
  the lowercase hashes and integers the decoder produces.
- **The column conversion of `contract_call_function_args`.** The DbTx has a `Buffer[]`
  there, and node-postgres turns an array parameter into an array literal. Whether that
  round-trips depends on the column's type, and the migration in `src/` does not
  define that column.
- **The `canonical` flag carried by the emitted objects.** A redelivered block at or
  below the tip is emitted with `data.block.canonical` set to false. This is part of
  the duplicate emission that `duplicate_notifies` already shows.

## Further work

1. **`PgDataStore`**: a two-writer variant. Two `update()` calls would interleave at
   statement level, reading one tip. This would show what the single-writer
   assumption of spec section 5 protects. It needs a run of its own, and it models a
   deployment that the spec rules out.
