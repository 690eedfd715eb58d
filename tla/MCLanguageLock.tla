---------------------------- MODULE MCLanguageLock ----------------------------
EXTENDS LanguageLock, TLC

Symmetry == Permutations(Languages) \union Permutations(Turns)
=============================================================================
