---------------------------- MODULE MC_Warehouse ----------------------------
EXTENDS Warehouse

CONSTANTS l1, l2, c1, T1, T2

\* Prices, counterparties and instruments are replaced as positions and CSA
\* terms are, and no property tells them apart: they are left out here.
MCFacts == <<"exposure", "position", "call">>
MCDims == <<"csa_terms">>

\* Day 1 is the simulated book's, in a month of its own.
MCMonth(d) == IF d = 1 THEN 1 ELSE 2
Symmetry == Permutations(Loaders) \cup Permutations(TermsSets)
MCRaisedOn == [c \in {c1} |-> 2]
=============================================================================
