--------------------------- MODULE MCAutomations ---------------------------
EXTENDS Automations, TLC

Sym == Permutations(Workers)
=============================================================================
