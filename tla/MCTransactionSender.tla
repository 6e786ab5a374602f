------------------------ MODULE MCTransactionSender ------------------------
EXTENDS TransactionSender
=============================================================================
