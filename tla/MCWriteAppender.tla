--------------------------- MODULE MCWriteAppender ---------------------------
EXTENDS WriteAppender
=============================================================================
