--------------------------- MODULE MC_Simulation ---------------------------
(***************************************************************************)
(* The closes a backfill gets and the walk over them, explored one at a    *)
(* time: the walk's exposures can be anything.                             *)
(***************************************************************************)
EXTENDS Simulation, History

\* The window is 3..13.  Two trading days are before it, then two quarters
\* have three each; the third quarter has none.
MCDates == <<1, 2, 4, 5, 6, 9, 10, 11>>
MCMonth(d) == IF d <= 6 THEN 1 ELSE IF d <= 12 THEN 2 ELSE 3
MCQuarter(d) == IF d <= 6 THEN 1 ELSE IF d <= 12 THEN 2 ELSE 3
MCWeights == [c \in {} |-> 0]

\* A's series is any; two others decide with it which days are trading days.
MCConstituents == {"A", "B", "C"}
MCSymbols == <<"A", "B", "C", "VIX">>
MCSeries == [s \in MCConstituents \cup {"VIX"} |->
  CASE s = "A" -> SUBSET (1..4)
    [] s = "B" -> {{1, 2, 3, 4}, {1, 2, 4}}
    [] s = "C" -> {{2, 3}, {}}
    [] s = "VIX" -> {{1, 2, 3, 4}, {1, 3, 4}}]

VARIABLE part

OneBook == CHOOSE b \in [Counterparties -> generate_counterparty] : TRUE
OnePrint == CHOOSE p \in [ToSet(Symbols) -> SUBSET (1..4)] : \A s \in ToSet(Symbols) : p[s] \in Series[s]

MCInit ==
  \/ part = "closes" /\ book = OneBook /\ wanted = <<>> /\ WalkInit /\ HistoryInit
  \/ part = "walk" /\ printed = OnePrint /\ WalkInit /\ HistoryInit

MCNext ==
  /\ UNCHANGED part
  /\ \/ part = "closes" /\ HistoryNext /\ UNCHANGED walkVars
     \/ part = "walk" /\ WalkNext /\ UNCHANGED historyVars
MCSpec == MCInit /\ [][MCNext]_<<walkVars, historyVars, part>>
=============================================================================
