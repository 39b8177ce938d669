-------------------------- MODULE MCReplacementMap --------------------------
EXTENDS ReplacementMap, TLC

CONSTANTS a, b, h1, h2

Symmetry == Permutations(Handles) \union Permutations(Bytes)

=============================================================================
