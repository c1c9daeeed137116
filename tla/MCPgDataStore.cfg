CONSTANTS
    g = g
    a2 = a2
    a3 = a3
    b2 = b2
    b3 = b3
    b4 = b4
    t1 = t1
    t2 = t2
    t3 = t3
    alice = alice
    bob = bob
    NoBlock = NoBlock
    NoAddress = NoAddress
    Blocks <- MCBlocks
    Height <- MCHeight
    Parent <- MCParent
    TablesOf <- MCTablesOf
    TxsOf <- MCTxsOf
    StxEventsOf <- MCStxEventsOf
    Addresses <- MCAddresses
    MaxDeliveries = 5

SPECIFICATION LiveSpec

\* Ingestion stops when the node stops sending: MaxDeliveries is that point.
CHECK_DEADLOCK FALSE

INVARIANTS
    TypeOK
    EntitiesFollowBlock
    BalanceMatchesChain

PROPERTIES
    RedeliveryIsNoop
    CanonicalChainRefined
    EventuallyIndexed
