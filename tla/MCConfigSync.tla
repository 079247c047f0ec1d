------------------------------ MODULE MCConfigSync -----------------------------
EXTENDS ConfigSync, TLC

CONSTANTS c1, c2

Symmetry == Permutations({c1, c2})
================================================================================
