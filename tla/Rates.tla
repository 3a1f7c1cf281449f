-------------------------------- MODULE Rates --------------------------------
(***************************************************************************)
(* Exchange rates and tax codes (master-data/finance), the figures every   *)
(* document is valued with.  Rates against the base currency are one row a *)
(* day and currency, entered by hand or pulled from the bank's daily feed; *)
(* the pull reads the row, decides, and writes with nothing held in        *)
(* between.  Tax codes are added and pinned to items; an index keeps one   *)
(* default of a kind.  Amounts are minor units, rates scaled integers.     *)
(***************************************************************************)
EXTENDS Integers, FiniteSets, FiniteSetsExt

\* RATE_SCALE is 1000000 and BASIS_POINTS 10000 in the code.
CONSTANTS Sync, Currency, Day, MaxRate, RATE_SCALE,
          Keeper, TaxCode, Article, BASIS_POINTS, MaxMinor

ASSUME CurrencyAssumption == "none" \notin Currency
ASSUME ScalesAssumption == RATE_SCALE \in Nat \ {0} /\ BASIS_POINTS \in Nat \ {0}
ASSUME RangesAssumption == Day \subseteq Nat /\ MaxRate \in Nat /\ MaxMinor \in Nat

\* currencies: the known currencies beside the base; rates: the rate of a
\* currency and a day; pull: what each sync has read; entered and raced are
\* history: the rate last entered by hand, and the rows a pull overwrote whose
\* read was older than the entry.  codes, pinned, draft: tax codes, the code
\* pinned to an item for a kind, and the calls adding codes.
VARIABLES currencies, rates, pull, entered, raced, codes, pinned, draft

fxVars == <<currencies, rates, pull, entered, raced>>
taxVars == <<codes, pinned, draft>>
ratesVars == <<fxVars, taxVars>>

NoRate == [source |-> "NONE", rate |-> 0]
NoPull == [currency |-> "none"]
NoCode == [kind |-> "NONE"]
TaxKind == {"VAT", "WHT"}

RatesInit ==
  /\ currencies = [c \in Currency |-> -1]
  /\ rates = [q \in Currency \X Day |-> NoRate]
  /\ pull = [s \in Sync |-> NoPull]
  /\ entered = [q \in Currency \X Day |-> 0]
  /\ raced = {}
  /\ codes = [t \in TaxCode |-> NoCode]
  /\ pinned = [q \in Article \X TaxKind |-> {}]
  /\ draft = [k \in Keeper |-> NoCode]

(* Exchange rates. *)

\* A code is taken once; units is the number of decimals of the currency.
CreateCurrency(c, units) ==
  /\ currencies[c] = -1
  /\ currencies' = [currencies EXCEPT ![c] = units]
  /\ UNCHANGED <<rates, pull, entered, raced>>

Upserted(c, d, source, rate) == [rates EXCEPT ![<<c, d>>] = [source |-> source, rate |-> rate]]

ReadBy(s, c, d) == pull[s] # NoPull /\ pull[s].currency = c /\ pull[s].day = d

UpsertFxRate(c, d, rate) ==
  /\ currencies[c] # -1
  /\ rates' = Upserted(c, d, "MANUAL", rate)
  /\ entered' = [entered EXCEPT ![<<c, d>>] = rate]
  /\ raced' = IF \E s \in Sync : ReadBy(s, c, d) THEN raced \cup {<<c, d>>}
              ELSE raced \ {<<c, d>>}
  /\ UNCHANGED <<currencies, pull>>

\* A row entered by hand is skipped.
Skips(c, d) == rates[<<c, d>>].source = "MANUAL"

\* One currency of a pull: findExact, then upsert, unless the row is skipped.
ReadRate(s, c, d, rate) ==
  /\ pull[s] = NoPull /\ currencies[c] # -1
  /\ ~ Skips(c, d)
  /\ pull' = [pull EXCEPT ![s] = [currency |-> c, day |-> d, rate |-> rate]]
  /\ UNCHANGED <<currencies, rates, entered, raced>>

PullRate(s) ==
  /\ pull[s] # NoPull
  /\ rates' = Upserted(pull[s].currency, pull[s].day, "BOT", pull[s].rate)
  /\ pull' = [pull EXCEPT ![s] = NoPull]
  /\ UNCHANGED <<currencies, entered, raced>>

\* The feed fails, or the process ends, before the row is written.
LosePull(s) ==
  /\ pull[s] # NoPull
  /\ pull' = [pull EXCEPT ![s] = NoPull]
  /\ UNCHANGED <<currencies, rates, entered, raced>>

FxNext ==
  /\ \/ \E c \in Currency, units \in 0 .. 4 : CreateCurrency(c, units)
     \/ \E c \in Currency, d \in Day, rate \in 1 .. MaxRate :
          UpsertFxRate(c, d, rate) \/ \E s \in Sync : ReadRate(s, c, d, rate)
     \/ \E s \in Sync : PullRate(s) \/ LosePull(s)
  /\ UNCHANGED taxVars

\* The most recent day on or before a date that has a rate; 0 where none has.
LatestOnOrBefore(c, date) ==
  LET dated == {d \in Day : d <= date /\ rates[<<c, d>>] # NoRate}
  IN IF dated = {} THEN 0 ELSE rates[<<c, Max(dated)>>].rate

\* Integer division rounded half away from zero.
RoundDiv(n, d) ==
  LET q(m) == (m + d \div 2) \div d IN IF n < 0 THEN - q(- n) ELSE q(n)

BaseUnits == 2
ConvertToBase(amount, units, rate) ==
  RoundDiv(amount * rate * 10 ^ BaseUnits, RATE_SCALE * 10 ^ units)
ConvertFromBase(amount, units, rate) ==
  RoundDiv(amount * RATE_SCALE * 10 ^ units, rate * 10 ^ BaseUnits)

\* Through the base, rounding at each hop; empty where a rate is missing.
ConvertAmount(amount, from, to, date) ==
  IF from = to THEN {amount}
  ELSE {ConvertFromBase(ConvertToBase(amount, currencies[from], LatestOnOrBefore(from, date)),
                        currencies[to], LatestOnOrBefore(to, date)) :
          x \in {x \in {amount} : \A c \in {from, to} : LatestOnOrBefore(c, date) # 0}}

(* Tax codes. *)

\* TaxCode.create: the standard VAT rate is positive and the other treatments
\* carry none; a withholding code has a rate.
Treatment == {"STANDARD", "ZERO_RATED", "EXEMPT"}
NewCode(kind, treatment, rate, default) ==
  [kind |-> kind, treatment |-> treatment, rate |-> rate, default |-> default]
ValidCode(row) ==
  /\ row.rate \in 0 .. BASIS_POINTS
  /\ IF row.kind = "VAT" THEN (row.treatment = "STANDARD") <=> (row.rate > 0)
                         ELSE row.rate > 0 /\ row.treatment = "NONE"

DefaultOf(kind) == {t \in TaxCode : codes[t].kind = kind /\ codes[t].default}

StartTaxCode(k, row) ==
  /\ draft[k] = NoCode
  /\ ValidCode(row)
  /\ row.default => DefaultOf(row.kind) = {}
  /\ draft' = [draft EXCEPT ![k] = row]
  /\ UNCHANGED <<codes, pinned>>

\* fin_tax_code_one_default_per_kind refuses a second default.
CreateTaxCode(k, t) ==
  /\ draft[k] # NoCode /\ codes[t] = NoCode
  /\ LET refused == draft[k].default /\ DefaultOf(draft[k].kind) # {}
     IN codes' = [codes EXCEPT ![t] = IF refused THEN @ ELSE draft[k]]
  /\ draft' = [draft EXCEPT ![k] = NoCode]
  /\ UNCHANGED pinned

\* The code must be of the kind it is pinned for; the row is keyed by both.
SetItemTaxOverride(a, kind, t) ==
  /\ codes[t].kind = kind
  /\ pinned' = [pinned EXCEPT ![<<a, kind>>] = {t}]
  /\ UNCHANGED <<codes, draft>>

\* The code pinned to the item, else the default; empty where there is neither.
ResolveTax(a, kind) ==
  IF pinned[<<a, kind>>] # {} THEN pinned[<<a, kind>>] ELSE DefaultOf(kind)

ComputeTax(base, rate) == RoundDiv(base * rate, BASIS_POINTS)

\* The base is rounded and the tax is what is left of the gross.
SplitInclusive(gross, rate) ==
  LET base == RoundDiv(gross * BASIS_POINTS, BASIS_POINTS + rate)
  IN [base |-> base, tax |-> gross - base]

TaxNext ==
  /\ \/ \E k \in Keeper, kind \in TaxKind, tr \in Treatment \cup {"NONE"},
          rate \in 0 .. BASIS_POINTS, b \in BOOLEAN : StartTaxCode(k, NewCode(kind, tr, rate, b))
     \/ \E k \in Keeper, t \in TaxCode : CreateTaxCode(k, t)
     \/ \E a \in Article, kind \in TaxKind, t \in TaxCode : SetItemTaxOverride(a, kind, t)
  /\ UNCHANGED fxVars

RatesNext == FxNext \/ TaxNext

RatesSpec == RatesInit /\ [][RatesNext]_ratesVars

MinorAmounts == - MaxMinor .. MaxMinor

\* A rate entered by hand for a day stays, whatever the feed brings, until
\* another is entered: sync-fx-rates.use-case.ts:44, "never overwritten".  The
\* exception is a pull that had read the row before the entry was made.
ManualStands ==
  \A c \in Currency, d \in Day :
    entered[<<c, d>>] # 0 /\ <<c, d>> \notin raced =>
      rates[<<c, d>>] = [source |-> "MANUAL", rate |-> entered[<<c, d>>]]

\* Where a unit of the base is worth no more than a unit of the currency, an
\* amount taken into the base and back at one rate is the same amount.
ConversionReturns ==
  \A c \in Currency, d \in Day :
    LET rate == rates[<<c, d>>].rate
        units == currencies[c]
    IN units # -1 /\ rate * 10 ^ BaseUnits >= RATE_SCALE * 10 ^ units =>
         \A x \in MinorAmounts : ConvertFromBase(ConvertToBase(x, units, rate), units, rate) = x

\* An item has at most one code of a kind, of that kind; and the tax split out
\* of a gross amount is, to a unit, the tax the code puts on the base.
TaxesAgree ==
  \A a \in Article, kind \in TaxKind :
    /\ Cardinality(ResolveTax(a, kind)) <= 1
    /\ \A t \in ResolveTax(a, kind) :
         /\ codes[t].kind = kind
         /\ \A gross \in MinorAmounts :
              LET split == SplitInclusive(gross, codes[t].rate)
              IN ComputeTax(split.base, codes[t].rate) - split.tax \in -1 .. 1

\* What an amount is worth on a date changes only when a rate of one of its
\* currencies on or before that date is written: documents of earlier dates
\* keep their value whatever is entered or pulled later.
Dated == {q \in Currency \X Day \X {MaxMinor} : currencies[q[1]] # -1}
RateMoves ==
  \A q \in Dated : \A to \in Currency \ {q[1]} :
    LET worth == ConvertAmount(q[3], q[1], to, q[2])
    IN (/\ currencies[to] # -1
        /\ \A c \in {q[1], to}, d \in Day : d <= q[2] => rates[<<c, d>>] = rates'[<<c, d>>])
       => worth = worth'

RatesHoldTogether == ManualStands /\ ConversionReturns /\ TaxesAgree
==============================================================================
