--------------------------- MODULE MCMessageStore ---------------------------
EXTENDS MessageStore
=============================================================================
