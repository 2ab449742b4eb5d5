----------------------------- MODULE ReceiptVerifier -----------------------------
(* The check of a bridge claim against a receipt (src/src/eth/bridge_event.cpp). *)
(* The receipt is what eth_getTransactionReceipt returned, as                    *)
(* parse_transaction_receipt_response builds it: its logs and, next to them, the *)
(* index of each one in its block.                                               *)
EXTENDS Naturals, Sequences

Positions(indices, index) == {i \in DOMAIN indices : indices[i] = index}

(* The place of the claimed log in the receipt, counted from one; out of the    *)
(* receipt's range when the log is not there.                                   *)
Place(receipt, claim) ==
    LET at == Positions(receipt.log_indices, claim.log_index)
    IN  IF receipt.log_indices = <<>> THEN claim.log_index + 1
        ELSE IF at = {} THEN 0
        ELSE CHOOSE i \in at : \A j \in at : i <= j

verify_receipt_log(receipt, claim) ==
    LET i   == Place(receipt, claim)
        log == receipt.logs[i]
    IN  IF receipt.status = <<>>                      THEN "kMissingReceiptStatus"
        ELSE IF receipt.status = <<FALSE>>            THEN "kReceiptFailed"
        ELSE IF receipt.block_hash # claim.block_hash THEN "kBlockHashMismatch"
        ELSE IF receipt.tx_hash # claim.tx_hash       THEN "kTxHashMismatch"
        ELSE IF i \notin DOMAIN receipt.logs          THEN "kLogIndexOutOfRange"
        ELSE IF log.address # claim.bridge_contract   THEN "kContractMismatch"
        ELSE IF log.topics = <<>>                     THEN "kTopic0Mismatch"
        ELSE IF log.topics[1] # claim.event_topic0    THEN "kTopic0Mismatch"
        ELSE IF claim.topics # <<>> /\ log.topics # claim.topics THEN "kTopicsMismatch"
        ELSE IF log.words # claim.data                THEN "kDataMismatch"
        ELSE ""

================================================================================
