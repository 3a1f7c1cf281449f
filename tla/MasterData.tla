----------------------------- MODULE MasterData -----------------------------
(***************************************************************************)
(* The parts of master data side by side (master-data.module.ts).  They    *)
(* never import each other and share no table that one of them writes, so  *)
(* a step of one leaves the rows of the others alone.                      *)
(***************************************************************************)
EXTENDS Partner, BillOfMaterials, PriceList, Rates, Catalogue

masterVars == <<partnerVars, bomVars, priceVars, ratesVars, catalogueVars>>

MasterInit == PartnerInit /\ BomInit /\ PriceInit /\ RatesInit /\ CatalogueInit

OnlyPartners == UNCHANGED <<bomVars, priceVars, ratesVars, catalogueVars>>
OnlyRecipes == UNCHANGED <<partnerVars, priceVars, ratesVars, catalogueVars>>
OnlyLists == UNCHANGED <<partnerVars, bomVars, ratesVars, catalogueVars>>
OnlyFigures == UNCHANGED <<partnerVars, bomVars, priceVars, catalogueVars>>
OnlyFiles == UNCHANGED <<partnerVars, bomVars, priceVars, ratesVars>>

MasterNext ==
  \/ OnlyPartners /\ PartnerNext
  \/ OnlyRecipes /\ BomNext
  \/ OnlyLists /\ PriceNext
  \/ OnlyFigures /\ RatesNext
  \/ OnlyFiles /\ CatalogueNext
MasterSpec == MasterInit /\ [][MasterNext]_masterVars

\* One line prices a query, the customer's own before another; rates entered
\* by hand stand; conversions return; taxes agree (price-list, finance).
TermsHoldTogether == PricesHoldTogether /\ RatesHoldTogether

\* A price or a value moves only where the line or the rate written is for it.
FiguresMoveForTheirReaders ==
  [][PriceMoves /\ RateMoves]_<<lists, prices, currencies, rates>>
============================================================================
