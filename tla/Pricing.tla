------------------------------ MODULE Pricing ------------------------------
(***************************************************************************)
(* What a book costs: the price tag of a used book (orders/pricing.py) and *)
(* the lines of a wholesale order (orders/service.py).                     *)
(*                                                                         *)
(* Amounts are won; the factors of a price tag are applied one after the   *)
(* other on hundredths of a won, where the code multiplies floats.  A      *)
(* category is already one of the table: recognising it in the free text   *)
(* of a book is left out.                                                  *)
(***************************************************************************)
EXTENDS Integers, SequencesExt

(* Percentages of the list price: paid to a supplier, and asked for a used  *)
(* book in perfect condition; the seasonal index in percent.                *)
Supply == [IT |-> 55, Textbook |-> 55, SelfHelp |-> 45, Economy |-> 45, Novel |-> 40,
           Essay |-> 40, Children |-> 40, Comic |-> 30, Magazine |-> 30, General |-> 35]
Retail == [IT |-> 70, Textbook |-> 72, SelfHelp |-> 62, Economy |-> 62, Novel |-> 58,
           Essay |-> 58, Children |-> 55, Comic |-> 48, Magazine |-> 40, General |-> 55]
Season == [IT |-> 105, Textbook |-> 125, SelfHelp |-> 100, Economy |-> 102, Novel |-> 100,
           Essay |-> 100, Children |-> 98, Comic |-> 95, Magazine |-> 90, General |-> 100]
Categories == DOMAIN Supply
TrendSensitive == {"Comic", "Novel", "Magazine", "Children"}

Unscored     == -1   \* ubci_score is NULL
DefaultScore == 85
ScoreOf(s)     == IF s = Unscored THEN DefaultScore ELSE s
Part(x, n, d) == (x * n) \div d

(* Python's round to a multiple of unit: a tie goes to the even multiple.   *)
RoundTo(x, unit) ==
  LET q == x \div unit
      r == x % unit
  IN unit * (IF 2 * r < unit \/ (2 * r = unit /\ q % 2 = 0) THEN q ELSE q + 1)

-----------------------------------------------------------------------------
(* The price tag *)

(* calculate_b2b_price, rounded to 10 won.                                  *)
SupplyPrice(t) ==
  RoundTo(Part(t.list * Supply[t.category], ScoreOf(t.score), 100), 1000) \div 100

(* Mutant of DwellDiscount: without the cap of one year.                    *)
DwellUncapped(t) ==
  IF t.category \in TrendSensitive THEN Part(t.days, 100, 365) ELSE 0

(* In thousandths, at most a tenth, and only where fashion matters.         *)
DwellDiscount(t) ==
  IF t.category \in TrendSensitive THEN Min({Part(t.days, 100, 365), 100}) ELSE 0

(* calculate_used_retail_price: the condition counts for 40 of 100, the     *)
(* season by half its index, scarcity for 15 at most; never above the list. *)
RetailPrice(t) ==
  LET base     == t.list * Retail[t.category]
      worn     == Part(base, 600 + 4 * Max({0, Min({100, ScoreOf(t.score)})}), 1000)
      seasonal == Part(worn, 200 + (Season[t.category] - 100), 200)
      scarce   == Part(seasonal, 100 + Min({t.premium, 15}), 100)
      aged     == Part(scarce, 1000 - DwellDiscount(t), 1000)
  IN RoundTo(Min({aged, 100 * t.list}), 10000) \div 100

-----------------------------------------------------------------------------
(* The lines of an order *)

Discounts == {5 * k : k \in 1..17}

(* Mutant of RuleChance: a floor of 20 percent.                             *)
RuleChanceHighFloor(l, d) ==
  Max({730000, Min({3577000,
    1095000 + 29200 * d - 21900 * (100 - ScoreOf(l.score))
      + 14600 * (Season[l.category] - 100) - 1000 * Min({l.days, 365})})})

(* _rule_based_p_sold, the prediction without a model, in units of          *)
(* 1/3,650,000.                                                             *)
RuleChance(l, d) ==
  Max({182500, Min({3577000,
    1095000 + 29200 * d - 21900 * (100 - ScoreOf(l.score))
      + 14600 * (Season[l.category] - 100) - 1000 * Min({l.days, 365})})})

(* Mutant of BestDiscount: the likeliest sale, whatever it brings.          *)
LikeliestDiscount(chance) ==
  CHOOSE d \in Discounts : \A e \in Discounts : chance[e] <= chance[d]

(* The grid search: the first discount of the greatest expected revenue.    *)
BestDiscount(chance) ==
  LET Better(d, best) == IF chance[d] * (100 - d) > best.revenue
                         THEN [discount |-> d, revenue |-> chance[d] * (100 - d)]
                         ELSE best
  IN FoldLeft(LAMBDA best, k : Better(5 * k, best),
              [discount |-> 5, revenue |-> 0], [k \in 1..17 |-> k]).discount

UsedPrice(l, chance) ==
  RoundTo(Part(l.list * Supply[l.category], 100 - BestDiscount(chance), 100), 1000) \div 100

(* Mutants of NewPrice: to the whole won; always downwards.                 *)
NewPriceExact(l) == Part(l.list, 90, 100)
NewPriceDown(l)  == 10 * Part(l.list, 90, 1000)

(* A new book: the fixed book price law allows 10 percent off.              *)
NewPrice(l) == RoundTo(l.list * 90, 1000) \div 100

UnitPrice(l, chance) == IF l.isNew THEN NewPrice(l) ELSE UsedPrice(l, chance)

(* Mutant of Resolved: the quantity as it was sent.                         *)
AsSent(l) == l

(* _resolve_order_lines: a used book is one copy; of a new one, one at least.*)
Resolved(l) == [l EXCEPT !.quantity = IF l.isNew THEN Max({1, @}) ELSE 1]

ListDefault == 15000

(* calculate_order_pricing, before it prices a line: its defaults.          *)
Priced(l) == [l EXCEPT !.list = IF @ = 0 THEN ListDefault ELSE @,
                       !.days = Max({1, @}), !.quantity = Max({1, @})]

(* calculate_order_pricing: what the lines come to.                         *)
Amount(lines, units) == MapThenSumSet(LAMBDA i : units[i] * lines[i].quantity, DOMAIN lines)

(* create_order_with_items: the total stored with the order, next to the    *)
(* unit price stored with each line.                                        *)
Total(lines, units) == RoundTo(Amount(lines, units), 10)
=============================================================================
