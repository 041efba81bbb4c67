-------------------------- MODULE MCMessageHistory --------------------------
EXTENDS MessageHistory
=============================================================================
