--------------------------- MODULE MCWriteStream ---------------------------
EXTENDS WriteStream
CONSTANTS ann, bob
=============================================================================
