\* Every message class of the wire format, decoded one per step.
SPECIFICATION Spec
INVARIANTS
    TypeOK
    StoredTxMatchesPayload
