------------------------------ MODULE Calendar ------------------------------
(***************************************************************************)
(* Days in calendar order, as sorted() lists them for the price matrix     *)
(* (warehouse/history.py) and for the chunks (warehouse/backfill.py).      *)
(***************************************************************************)
EXTENDS Naturals, FiniteSets

Ascends(s) == \A i, j \in DOMAIN s : i < j => s[i] < s[j]

\* A set of days as a list, in calendar order.
ascending(days) == CHOOSE s \in [1..Cardinality(days) -> days] : Ascends(s)
=============================================================================
