------------------------------ MODULE PriceList ------------------------------
(***************************************************************************)
(* Price lists for one item and one unit (master-data/price-list), and the *)
(* price a sales line is given from them (sales/shared line-pricer).  A    *)
(* list is open to every customer or made for one; its lines are quantity  *)
(* tiers.  Lists and lines are only added, each after a look for another   *)
(* like it, and the keys on code and on (list, item, unit, tier) refuse    *)
(* the second of two that overlap.  Codes and line identifiers are ordered *)
(* as the code compares them.                                              *)
(***************************************************************************)
EXTENDS Integers, FiniteSets

\* Codes and lines are numbers.
CONSTANTS Pricer, Customer, Code, Line, MaxDate, MaxTier, MaxPrice

ASSUME CustomerAssumption == Customer \cap {"none", "any"} = {}
ASSUME KeysAssumption == Code \subseteq Nat /\ Line \subseteq Nat
ASSUME LimitsAssumption == MaxDate \in Nat /\ MaxTier \in Nat /\ MaxPrice \in Nat

VARIABLES lists, prices, entry

priceVars == <<lists, prices, entry>>

NoList == [customer |-> "none"]
NoLine == [list |-> -1]
NoEntry == [op |-> "none"]
AnyCustomer == "any"
Currencies == {"THB", "USD"}

Lists == {l \in Code : lists[l] # NoList}
Lines == {n \in Line : prices[n] # NoLine}

PriceInit ==
  /\ lists = [l \in Code |-> NoList]
  /\ prices = [n \in Line |-> NoLine]
  /\ entry = [p \in Pricer |-> NoEntry]

\* PriceList.create: the period may be open, and does not end before it starts.
NewList(customer, currency, from, to) ==
  [customer |-> customer, currency |-> currency, from |-> from, to |-> to]
Period == {d \in (0 .. MaxDate) \X (0 .. MaxDate) : d[2] >= d[1]}

StartList(p, l, row) ==
  /\ entry[p] = NoEntry
  /\ lists[l] = NoList
  /\ entry' = [entry EXCEPT ![p] = [op |-> "list", code |-> l, row |-> row]]
  /\ UNCHANGED <<lists, prices>>

CreateList(p) ==
  /\ entry[p].op = "list"
  /\ lists' = [lists EXCEPT ![entry[p].code] = IF @ = NoList THEN entry[p].row ELSE @]
  /\ entry' = [entry EXCEPT ![p] = NoEntry]
  /\ UNCHANGED prices

TierOf(l, tier) == {n \in Lines : prices[n].list = l /\ prices[n].tier = tier}
NewLine(l, tier, price) == [list |-> l, tier |-> tier, price |-> price]

StartLine(p, l, tier, price) ==
  /\ entry[p] = NoEntry /\ l \in Lists
  /\ TierOf(l, tier) = {}
  /\ entry' = [entry EXCEPT ![p] = [op |-> "line", row |-> NewLine(l, tier, price)]]
  /\ UNCHANGED <<lists, prices>>

AddLine(p, n) ==
  /\ entry[p].op = "line" /\ prices[n] = NoLine
  /\ LET row == entry[p].row
     IN prices' = [prices EXCEPT ![n] = IF TierOf(row.list, row.tier) = {} THEN row ELSE @]
  /\ entry' = [entry EXCEPT ![p] = NoEntry]
  /\ UNCHANGED lists

PriceNext ==
  \/ \E p \in Pricer, l \in Code, w \in Customer \cup {AnyCustomer}, c \in Currencies, d \in Period :
       StartList(p, l, NewList(w, c, d[1], d[2]))
  \/ \E p \in Pricer, l \in Code, tier \in 1 .. MaxTier, price \in 0 .. MaxPrice :
       StartLine(p, l, tier, price)
  \/ \E p \in Pricer : CreateList(p) \/ \E n \in Line : AddLine(p, n)

PriceSpec == PriceInit /\ [][PriceNext]_priceVars

(* Resolution. *)

IsValidOn(l, date) == lists[l].from <= date /\ date <= lists[l].to

\* candidatesFor: the lines of the lists open to the customer.
CandidatesFor(customer) ==
  {n \in Lines : lists[prices[n].list].customer \in {AnyCustomer, customer}}

\* Mutant: the period of the list is not looked at.
EligibleAnyDay(customer, date, qty) ==
  {n \in CandidatesFor(customer) : prices[n].tier <= qty}
Eligible(customer, date, qty) ==
  {n \in CandidatesFor(customer) : IsValidOn(prices[n].list, date) /\ prices[n].tier <= qty}

Scope(n) == IF lists[prices[n].list].customer = AnyCustomer THEN 1 ELSE 0

\* Mutant: no tiebreak beyond the start of the list.
BeforeByStart(m, n) ==
  LET from(k) == lists[prices[k].list].from
      key(k) == <<Scope(k), - prices[k].tier, - from(k)>>
  IN \E i \in 1 .. 3 : /\ key(m)[i] < key(n)[i]
                       /\ \A j \in 1 .. i - 1 : key(m)[j] = key(n)[j]

\* The comparison the eligible lines are sorted by: the customer's own list,
\* then the highest tier, then the newest list, then code and identifier.
Before(m, n) ==
  LET from(k) == lists[prices[k].list].from
      key(k) == <<Scope(k), - prices[k].tier, - from(k), prices[k].list, k>>
  IN \E i \in 1 .. 5 : /\ key(m)[i] < key(n)[i]
                       /\ \A j \in 1 .. i - 1 : key(m)[j] = key(n)[j]

\* The lines the sort may put first: more than one where it leaves a tie.
Best(customer, date, qty) ==
  LET eligible == Eligible(customer, date, qty)
  IN {n \in eligible : \A m \in eligible : ~ Before(m, n)}

Priced(source, price, list) == [source |-> source, price |-> price, list |-> list]

\* The price of a sales line: what the caller names, or what the lists say in
\* the currency of the document.  Empty: the line is refused.
PriceLine(customer, currency, date, qty, manual) ==
  IF manual >= 0 THEN {Priced("MANUAL", manual, -1)}
  ELSE {Priced("PRICE_LIST", prices[n].price, prices[n].list) :
          n \in {n \in Best(customer, date, qty) : lists[prices[n].list].currency = currency}}

Queries == Customer \X Currencies \X (0 .. MaxDate) \X (1 .. MaxTier)
Answer(q) == PriceLine(q[1], q[2], q[3], q[4], -1)

\* "A stable tiebreak so the same query always returns the same line"
\* (price-list.ts:240): whatever lists and tiers overlap, one line comes first.
OnePrice == \A q \in Queries : Cardinality(Best(q[1], q[3], q[4])) <= 1

\* A line changes a price only for those it is for: the customer of its list,
\* on the days of the list, from its tier up.  And once a customer has a price
\* of their own on a day, no list for everyone moves it.
OwnPrice ==
  \A q \in Queries :
    LET best == Best(q[1], q[3], q[4])
    IN \A n \in best : Scope(n) = 1 =>
         \A m \in Lines : lists[prices[m].list].customer = q[1] =>
           ~ IsValidOn(prices[m].list, q[3]) \/ prices[m].tier > q[4]

PriceMoves ==
  \A q \in Queries : Answer(q) # Answer(q)' =>
    \E n \in Lines' \ Lines :
      LET list == lists'[prices'[n].list]
      IN /\ list.customer \in {AnyCustomer, q[1]}
         /\ q[3] \in list.from .. list.to
         /\ prices'[n].tier <= q[4]
         /\ list.customer = AnyCustomer => \A m \in Best(q[1], q[3], q[4]) : Scope(m) = 1

PricesHoldTogether == OnePrice /\ OwnPrice
==============================================================================
