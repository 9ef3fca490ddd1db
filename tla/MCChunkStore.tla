---------------------------- MODULE MCChunkStore ----------------------------
EXTENDS ChunkStore, TLC
CONSTANTS a, b

\* A file of one chunk, and one that shares it and has another.
OneShared == {<<a>>, <<a, b>>}

\* Connections that write are interchangeable.
Writers == Permutations(Writer)
=============================================================================
