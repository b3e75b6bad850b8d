----------------------------- MODULE MCTraceBuffer -----------------------------
EXTENDS TraceBuffer, TLC

\* Entries are only stored and compared: which is which does not matter.
Symmetry == Permutations(Entry)
=============================================================================
