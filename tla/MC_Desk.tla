------------------------------ MODULE MC_Desk ------------------------------
EXTENDS Desk, TLC

WorkersAlike == Permutations(Workers)
=============================================================================
