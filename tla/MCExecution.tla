---------------------------- MODULE MCExecution ----------------------------
EXTENDS Execution, TLC

\* The worker processes are interchangeable.
Symmetry == Permutations(Workers)
============================================================================
