------------------------- MODULE MCMessageLifecycle -------------------------
EXTENDS MessageLifecycle

CONSTANTS t1, a, b

\* The dialog that may close or lose its permissions.
MCChanging == {<<t1, b>>}
=============================================================================
