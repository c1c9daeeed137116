------------------------------ MODULE TxDecoder ------------------------------
(***************************************************************************)
(* createDbTxFromCoreMsg (src/unnamed/part_002): the decoding of one       *)
(* parsed core-node transaction message into the DbTx row the store        *)
(* inserts.  The function is pure; the module decodes one message per step *)
(* so that every message class of the wire format is decoded and its       *)
(* result compared with the spec's tagged sum of payloads (sections 4.1    *)
(* and 9).  Addresses, hashes, amounts and the c32 encoding are abstracted *)
(* to which columns are set: the spec and the code agree on their values'  *)
(* sources, and the properties are about which payload a row carries.      *)
(* The decoded DbTx is then written by updateTx and read back by           *)
(* parseTxQueryResult (src/src/datastore/postgres-store.ts), as getTx      *)
(* does: a value of a field is its name, so that a value landing in        *)
(* another field's column shows.                                           *)
(***************************************************************************)
EXTENDS Integers, Sequences, Functions, TLC

(* TransactionPayloadTypeID on the wire (a byte); 5 stands for any value   *)
(* that is not one of the five payload types.                              *)
TokenTransfer == 0
SmartContract == 1
ContractCall == 2
PoisonMicroblock == 3
Coinbase == 4
WireTypeIds == 0..5

(* The messages: payload type, authorization type, the core's success     *)
(* flag, the origin hash mode and the transaction version.                 *)
Messages == [typeId   : WireTypeIds,
             auth     : {"Standard", "Sponsored"},
             success  : BOOLEAN,
             hashMode : 0..3,
             version  : {"mainnet", "testnet"}]

(* parseEnum(DbTxTypeId, typeId) throws unless typeId names a DbTxTypeId. *)
DbTxTypeIds == {TokenTransfer, SmartContract, ContractCall, PoisonMicroblock, Coinbase}

(* The payload columns each switch case sets. *)
TokenTransferColumns ==
    {"token_transfer_recipient_address", "token_transfer_amount", "token_transfer_memo"}
SmartContractColumns == {"smart_contract_contract_id", "smart_contract_source_code"}
ContractCallColumns ==
    {"contract_call_contract_id", "contract_call_function_name", "contract_call_function_args"}
CoinbaseColumns == {"coinbase_payload"}

NoTx == [none |-> TRUE]

VARIABLES
    msg,        \* the message decoded last
    result,     \* what createDbTxFromCoreMsg returned for it, or threw
    stored      \* what parseTxQueryResult returns for the row updateTx wrote

vars == <<msg, result, stored>>

(* The dbTx literal's fields.  index_block_hash and burn_block_time are   *)
(* not among them: the indexer adds them from the block.                   *)
LiteralFields == {"tx_id", "tx_index", "block_hash", "block_height", "type_id", "status",
                  "fee_rate", "sender_address", "origin_hash_mode", "sponsored",
                  "canonical", "post_conditions"}

(* The row: the dbTx literal and the payload columns the switch sets.  A   *)
(* field whose value the properties do not tell apart holds its own name.  *)
Decoded(m, cols) ==
    [ok |-> TRUE,
     tx |-> [f \in LiteralFields \cup cols |->
               CASE f = "type_id"          -> m.typeId
                 [] f = "status"           -> IF m.success THEN 1 ELSE -1
                 [] f = "sponsored"        -> m.auth = "Sponsored"
                 [] f = "canonical"        -> TRUE
                 [] f = "origin_hash_mode" -> m.hashMode
                 [] OTHER                  -> f]]
Thrown == [ok |-> FALSE, tx |-> NoTx]

(* Mutant: type_id taken from the payload without parseEnum, and a switch *)
(* default that breaks instead of throwing.                                *)
CreateDbTxFromCoreMsgLenient(m) ==
    CASE m.typeId = TokenTransfer    -> Decoded(m, TokenTransferColumns)
      [] m.typeId = SmartContract    -> Decoded(m, SmartContractColumns)
      [] m.typeId = ContractCall     -> Decoded(m, ContractCallColumns)
      [] m.typeId = PoisonMicroblock -> Thrown
      [] m.typeId = Coinbase         -> Decoded(m, CoinbaseColumns)
      [] OTHER                       -> Decoded(m, {})

(* parseEnum first (it throws for an unknown type id), then the switch on *)
(* the payload type: each case sets its payload's columns and breaks;     *)
(* PoisonMicroblock throws NotImplementedError; default throws.           *)
CreateDbTxFromCoreMsg(m) ==
    IF m.typeId \notin DbTxTypeIds THEN Thrown
    ELSE CASE m.typeId = TokenTransfer    -> Decoded(m, TokenTransferColumns)
           [] m.typeId = SmartContract    -> Decoded(m, SmartContractColumns)
           [] m.typeId = ContractCall     -> Decoded(m, ContractCallColumns)
           [] m.typeId = PoisonMicroblock -> Thrown
           [] m.typeId = Coinbase         -> Decoded(m, CoinbaseColumns)

-----------------------------------------------------------------------------
(* The store's side: updateTx's INSERT ... ON CONFLICT DO NOTHING binds    *)
(* $i to the i-th entry of its parameter array and writes it in the i-th   *)
(* column of TX_COLUMNS; an undefined field is bound as NULL.  The hex and *)
(* bigint conversions on the way in and out are inverse on the values the  *)
(* decoder produces and are left out; so is the conversion of            *)
(* contract_call_function_args (a Buffer[]), whose column type the         *)
(* repository's migration does not define.                                 *)

Null == "NULL"

(* TX_COLUMNS, in order. *)
TxColumns ==
    <<"tx_id", "tx_index", "index_block_hash", "block_hash", "block_height",
      "burn_block_time", "type_id", "status", "canonical", "post_conditions",
      "fee_rate", "sponsored", "sender_address", "origin_hash_mode",
      "token_transfer_recipient_address", "token_transfer_amount", "token_transfer_memo",
      "smart_contract_contract_id", "smart_contract_source_code",
      "contract_call_contract_id", "contract_call_function_name",
      "contract_call_function_args",
      "poison_microblock_header_1", "poison_microblock_header_2", "coinbase_payload">>

(* Mutant: the parameter array with the two smart-contract fields swapped. *)
UpdateTxValuesSwapped ==
    [TxColumns EXCEPT ![18] = "smart_contract_source_code",
                      ![19] = "smart_contract_contract_id"]

(* updateTx's parameter array: the DbTx field bound to $1 .. $25. *)
UpdateTxValues ==
    <<"tx_id", "tx_index", "index_block_hash", "block_hash", "block_height",
      "burn_block_time", "type_id", "status", "canonical", "post_conditions",
      "fee_rate", "sponsored", "sender_address", "origin_hash_mode",
      "token_transfer_recipient_address", "token_transfer_amount", "token_transfer_memo",
      "smart_contract_contract_id", "smart_contract_source_code",
      "contract_call_contract_id", "contract_call_function_name",
      "contract_call_function_args",
      "poison_microblock_header_1", "poison_microblock_header_2", "coinbase_payload">>

(* The indexer completes the decoded tx with its block's fields. *)
WithBlock(tx) ==
    tx @@ [index_block_hash |-> "index_block_hash", burn_block_time |-> "burn_block_time"]

(* The row updateTx writes for tx: column TxColumns[i] gets $i. *)
UpdateTx(tx) ==
    [c \in Range(TxColumns) |->
        LET f == UpdateTxValues[CHOOSE i \in DOMAIN TxColumns : TxColumns[i] = c]
        IN  IF f \in DOMAIN tx THEN tx[f] ELSE Null]

(* The columns parseTxQueryResult copies for every row, and those of each  *)
(* type_id branch.                                                         *)
ParsedCommon == {"tx_id", "tx_index", "index_block_hash", "block_hash", "block_height",
                 "burn_block_time", "type_id", "status", "canonical", "post_conditions",
                 "fee_rate", "sponsored", "sender_address", "origin_hash_mode"}
ParsedPayload ==
    [t \in DbTxTypeIds |->
        CASE t = TokenTransfer    -> TokenTransferColumns
          [] t = SmartContract    -> SmartContractColumns
          [] t = ContractCall     -> ContractCallColumns
          [] t = PoisonMicroblock -> {"poison_microblock_header_1", "poison_microblock_header_2"}
          [] t = Coinbase         -> CoinbaseColumns]

(* parseTxQueryResult: the common fields, then the payload fields of the   *)
(* row's type_id; any other type_id throws.                                *)
ParseTxQueryResult(row) ==
    IF row.type_id \notin DbTxTypeIds THEN Thrown
    ELSE [ok |-> TRUE,
          tx |-> [f \in ParsedCommon \cup ParsedPayload[row.type_id] |-> row[f]]]

-----------------------------------------------------------------------------
Init ==
    /\ msg = NoTx
    /\ result = Thrown
    /\ stored = Thrown

(* The indexer decodes one transaction message of a block and, when that  *)
(* yields a row, stores it; getTx later reads the row back.               *)
Decode ==
    \E m \in Messages :
        LET r == CreateDbTxFromCoreMsg(m)
        IN  /\ msg' = m
            /\ result' = r
            /\ stored' = IF r.ok THEN ParseTxQueryResult(UpdateTx(WithBlock(r.tx))) ELSE Thrown

Spec == Init /\ [][Decode]_vars

-----------------------------------------------------------------------------
(* The reference: spec section 4.1's payload-specific derivations as a    *)
(* tagged sum, one payload per type; PoisonMicroblock captures the two     *)
(* conflicting microblock headers.                                         *)
SpecColumns ==
    [t \in DbTxTypeIds |->
        CASE t = TokenTransfer    -> {"token_transfer_recipient_address",
                                      "token_transfer_amount", "token_transfer_memo"}
          [] t = SmartContract    -> {"smart_contract_contract_id", "smart_contract_source_code"}
          [] t = ContractCall     -> {"contract_call_contract_id", "contract_call_function_name",
                                      "contract_call_function_args"}
          [] t = PoisonMicroblock -> {"poison_microblock_header_1", "poison_microblock_header_2"}
          [] t = Coinbase         -> {"coinbase_payload"}]

(* The payload columns of a decoded or stored tx. *)
PayloadOf(tx) == DOMAIN tx \ (LiteralFields \cup ParsedCommon)

(* The decoded row has a DbTxTypeId, a DbTxStatus and only payload        *)
(* columns of the spec's payload types, and so has the one read back.     *)
TypeOK ==
    /\ msg \in Messages \cup {NoTx}
    /\ result.ok \in BOOLEAN
    /\ \A r \in {result, stored} :
         r.ok =>
           /\ r.tx.type_id \in DbTxTypeIds
           /\ r.tx.status \in {-1, 0, 1}
           /\ PayloadOf(r.tx) \subseteq UNION {SpecColumns[t] : t \in DbTxTypeIds}

(* Spec sections 3, 4.2 and 9: a row carries exactly the payload of its   *)
(* type_id (the nullable columns are gated by type_id), its status is     *)
(* Success or Failed after the core's flag, and it is sponsored exactly   *)
(* when its authorization is; a message of an unknown type yields no row. *)
(* And getTx returns what was stored: every value updateTx binds lands in *)
(* the column parseTxQueryResult reads it from, through the 25 positional *)
(* parameters and the type_id branches of both.                           *)
StoredTxMatchesPayload ==
    msg # NoTx =>
        /\ result.ok => /\ PayloadOf(result.tx) = SpecColumns[result.tx.type_id]
                        /\ result.tx.type_id = msg.typeId
                        /\ result.tx.status = IF msg.success THEN 1 ELSE -1
                        /\ result.tx.sponsored = (msg.auth = "Sponsored")
                        /\ stored = [ok |-> TRUE, tx |-> WithBlock(result.tx)]
        /\ msg.typeId \notin DbTxTypeIds => ~result.ok

(* Spec section 4.1: every one of the five payload types decodes; for a   *)
(* PoisonMicroblock the decoder captures both conflicting headers.         *)
EveryPayloadTypeDecodes ==
    msg # NoTx /\ msg.typeId \in DbTxTypeIds => result.ok

=============================================================================
