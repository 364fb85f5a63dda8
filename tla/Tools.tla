-------------------------------- MODULE Tools -------------------------------
(***************************************************************************)
(* The two standalone calculations: the collateral optimizer and the       *)
(* reconciliation of our positions with the counterparty's view of them.   *)
(* The state is one request and does not change: the question is what they *)
(* return for every request.  Haircuts are percentages, and values are     *)
(* such that a haircut divides them.                                       *)
(***************************************************************************)
EXTENDS Integers, FiniteSetsExt, Functions, SequencesExt

CONSTANTS
  Types,       \* collateral types
  Haircuts,    \* what a CSA may cut, in percent
  Values,      \* of an inventory item
  Required,
  Price,       \* per ticker
  Quantities,
  Tolerance

ASSUME PositionsAssumption ==
  Quantities \subseteq Int /\ \A t \in DOMAIN Price : Price[t] \in Int

VARIABLES
  inventory,   \* a sequence of [collateral_type, available_value_usd]
  eligible,
  haircuts,    \* of the types whose haircut the CSA names
  required_amount,
  ours,        \* our positions: a sequence of [ticker, quantity]
  theirs       \* the counterparty's

toolVars == <<inventory, eligible, haircuts, required_amount, ours, theirs>>

NoPositions == <<>>
SumOf(s) == FoldLeft(LAMBDA total, e : total + e, 0, s)

Positions == {p \in [ticker : DOMAIN Price, quantity : Quantities] : p.quantity # 0}

\* Dropped, with another quantity, or copied; and one trade we do not have.
counterparty_views(book) ==
  LET kept == [DOMAIN book -> {0} \cup Quantities]
      view(f) == SelectSeq([i \in DOMAIN book |-> [book[i] EXCEPT !.quantity = f[i]]],
                           LAMBDA p : p.quantity # 0)
  IN {view(f) : f \in kept} \cup {Append(view(f), extra) : f \in kept, extra \in Positions}

OptimizerRequests ==
  /\ inventory \in [1..2 -> [collateral_type : Types, available_value_usd : Values]]
  /\ eligible \in SUBSET Types
  /\ \E named \in SUBSET Types : haircuts \in [named -> Haircuts]
  /\ required_amount \in Required
  /\ ours = NoPositions /\ theirs = NoPositions

ReconcileRequests ==
  /\ inventory = <<>> /\ eligible = {} /\ haircuts = <<>> /\ required_amount = 0
  /\ ours \in {<<p>> : p \in Positions} \cup (Positions \X Positions)
  /\ \A i, j \in DOMAIN ours : ours[i].ticker = ours[j].ticker => i = j
  /\ theirs \in counterparty_views(ours)

----------------------------------------------------------------------------
\* haircuts.get
haircut_of(ty, default) == IF ty \in DOMAIN haircuts THEN haircuts[ty] ELSE default

\* Each item with the worse haircut first.
ranked_WorstFirst ==
  SortSeq(SelectSeq(inventory, LAMBDA i : i.collateral_type \in eligible),
          LAMBDA i, j : haircut_of(i.collateral_type, 100) > haircut_of(j.collateral_type, 100))

\* A type without a haircut ranks last.
ranked ==
  SortSeq(SelectSeq(inventory, LAMBDA i : i.collateral_type \in eligible),
          LAMBDA i, j : haircut_of(i.collateral_type, 100) < haircut_of(j.collateral_type, 100))

\* One item: a type without a haircut is credited in full.
post(remaining, item) ==
  LET rate == 100 - haircut_of(item.collateral_type, 0)
      raw_needed == (remaining * 100) \div rate
      raw_used == IF item.available_value_usd < raw_needed THEN item.available_value_usd ELSE raw_needed
  IN IF remaining <= 0 \/ rate <= 0 \/ item.available_value_usd <= 0
     THEN [raw |-> 0, credit |-> 0]
     ELSE [raw |-> raw_used, credit |-> (raw_used * rate) \div 100]

optimize_collateral ==
  FoldLeft(LAMBDA done, item :
             LET p == post(done.remaining, item)
             IN [remaining |-> done.remaining - p.credit, raw |-> done.raw + p.raw,
                 credit |-> done.credit + p.credit],
           [remaining |-> IF required_amount <= 0 THEN 0 ELSE required_amount, raw |-> 0, credit |-> 0],
           ranked)

fully_funded == optimize_collateral.remaining <= 0

----------------------------------------------------------------------------
\* Keyed by ticker: of two positions in one, the last.
by_ticker(book) ==
  [t \in {book[i].ticker : i \in DOMAIN book} |->
     book[CHOOSE i \in DOMAIN book : /\ book[i].ticker = t
                                     /\ \A j \in DOMAIN book : book[j].ticker = t => j <= i].quantity]

\* Trades only the counterparty has are not looked for.
diff_trades_OursOnly ==
  LET mine == by_ticker(ours) yours == by_ticker(theirs) IN
  {[ticker |-> t, our_quantity |-> mine[t], counterparty_quantity |-> IF t \in DOMAIN yours THEN yours[t] ELSE 0]
     : t \in {u \in DOMAIN mine : u \notin DOMAIN yours \/ mine[u] # yours[u]}}

\* Missing, mismatched, extra; a missing side is 0.
diff_trades ==
  LET mine == by_ticker(ours)
      yours == by_ticker(theirs)
      of(book, t) == IF t \in DOMAIN book THEN book[t] ELSE 0
  IN {[ticker |-> t, our_quantity |-> of(mine, t), counterparty_quantity |-> of(yours, t)]
        : t \in {u \in DOMAIN mine \cup DOMAIN yours :
                   u \notin DOMAIN mine \cap DOMAIN yours \/ mine[u] # yours[u]}}

total(book) == SumOf([i \in DOMAIN book |-> book[i].quantity * Price[book[i].ticker]])

Distance(a, b) == IF a >= b THEN a - b ELSE b - a

reconcile ==
  LET agreed == Distance(total(ours), total(theirs)) <= Tolerance
  IN [agreed |-> agreed, break_items |-> IF agreed THEN {} ELSE diff_trades]

----------------------------------------------------------------------------
\* Among all ways to post what is eligible, the proposal meets the required
\* amount when any does, never credits more, and then posts the least raw
\* value; when none does it posts everything.  Only where every eligible type
\* has a haircut: without one it ranks as the worst and is credited as the best.
CheapestToDeliver ==
  LET items == {i \in DOMAIN inventory : inventory[i].collateral_type \in eligible}
      rate(i) == 100 - haircuts[inventory[i].collateral_type]
      ways == {w \in [items -> 0..Max(Values)] : \A i \in items : w[i] <= inventory[i].available_value_usd}
      credit(w) == SumFunction([i \in items |-> w[i] * rate(i)])
      enough == {w \in ways : credit(w) >= required_amount * 100}
  IN eligible \subseteq DOMAIN haircuts =>
     /\ fully_funded <=> enough # {}
     /\ enough # {} => /\ optimize_collateral.credit = required_amount
                       /\ \A w \in enough : SumFunction(w) >= optimize_collateral.raw
     /\ \A w \in ways : optimize_collateral.remaining > 0 => credit(w) <= optimize_collateral.credit * 100

\* What some breaks are worth.
worth(breaks) == MapThenSumSet(LAMBDA b : (b.our_quantity - b.counterparty_quantity) * Price[b.ticker], breaks)

\* When the totals differ beyond the tolerance the breaks account for the
\* whole difference, trade by trade.  Only where the counterparty's view has
\* one position a ticker: its extra trade may be in one we hold.
BreaksExplainTheGap ==
  (\A i, j \in DOMAIN theirs : theirs[i].ticker = theirs[j].ticker => i = j) =>
    LET found == reconcile IN
    ~found.agreed => worth(found.break_items) = total(ours) - total(theirs)
=============================================================================
