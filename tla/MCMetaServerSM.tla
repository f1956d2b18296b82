--------------------------- MODULE MCMetaServerSM ---------------------------
EXTENDS MetaServerSM
=============================================================================
