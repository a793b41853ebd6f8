------------------------------ MODULE MCTurns ------------------------------
EXTENDS Turns, TLC

Sym == Permutations(Commands) \cup Permutations(Posts)
=============================================================================
