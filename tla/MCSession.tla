----------------------------- MODULE MCSession ------------------------------
EXTENDS Session, TLC

Symmetry == Permutations(Command) \cup Permutations(Phone)
=============================================================================
