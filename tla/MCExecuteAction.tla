-------------------------- MODULE MCExecuteAction --------------------------
\* Small instances of ExecuteAction for TLC.
EXTENDS ExecuteAction, TLC

\* Calls and services are interchangeable.
Symmetry == Permutations(Calls) \cup Permutations(Services)
=============================================================================
