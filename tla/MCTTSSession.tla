----------------------------- MODULE MCTTSSession -----------------------------
EXTENDS TTSSession, TLC

CONSTANTS s1, s2

\* Sessions differ in nothing but their identity.
Symmetry == Permutations({s1, s2})
===============================================================================
