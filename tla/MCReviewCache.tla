---------------------------- MODULE MCReviewCache ----------------------------
EXTENDS ReviewCache, TLC

\* Request goroutines are interchangeable, and so are tokens.
Symmetry == Permutations(Calls) \cup Permutations(Tokens)
============================================================================
