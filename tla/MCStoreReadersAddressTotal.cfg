CONSTANTS
    g = g  a2 = a2  b2 = b2  b3 = b3
    h1 = h1  h2 = h2  h3 = h3
    t1 = t1  t2 = t2  t3 = t3  t4 = t4
    c1 = c1
    alice = alice  bob = bob
    NoBlock = NoBlock
    NoAddress = NoAddress
    Blocks <- MCBlocks
    Height <- MCHeight
    Parent <- MCParent
    BlockHashOf <- MCBlockHashOf
    TablesOf <- MCTablesOf
    TxsOf <- MCTxsOf
    StxEventsOf <- MCStxEventsOf
    EventRowsOf <- MCEventRowsOf
    ContractsOf <- MCContractsOf
    Addresses <- MCAddresses
    MaxDeliveries = 4
    PageLimits = {1}
    PageOffsets = {0, 1}
SPECIFICATION Spec
PROPERTY AddressTxsTotalIsCount
