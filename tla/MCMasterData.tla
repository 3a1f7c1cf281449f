---------------------------- MODULE MCMasterData ----------------------------
(***************************************************************************)
(* The parts of master data side by side, each on a few rows.  They share  *)
(* no state, so each scope lets one of them move.  Rows that are told      *)
(* apart by a random identifier only are taken in the order of the         *)
(* identifiers, and each scope says what else it leaves out.               *)
(***************************************************************************)
EXTENDS MasterData

VARIABLE scope        \* the part that moves

MCFilers == {"f1", "f2"}
MCSheets == SeqOf([sku : {"a", "b"}, uom : {"a", "b"}, category : {"none", "a"}], 2)

InOrder(rows, none) ==
  \A n \in DOMAIN rows : rows[n] # none => \A m \in 1 .. n - 1 : rows[m] # none

\* Requests of one data subject, and the contacts they find; beside them the
\* contacts of another.
Answering ==
  /\ UNCHANGED <<addresses, consents>> /\ OnlyPartners /\ PartnerNext
  /\ work'[1].op \in {"idle", "request", "fulfil", "reject"}
  /\ work'[2].op \in {"idle", "contact", "fulfil"}
  /\ InOrder(contacts', NoRecord) /\ InOrder(pdpa', NoRecord)
  /\ \A r \in 1 .. 2 : pdpa'[r] # NoRecord => pdpa'[r].owner = "w1"
  /\ pdpa'[2] # NoRecord => pdpa'[2].type = "ERASURE"
  /\ \A c \in 1 .. 2 : contacts'[c] # NoRecord => contacts'[c].owner = "w1"
                                                   \/ ~ contacts'[c].primary

Consenting == UNCHANGED <<contacts, addresses, pdpa, work>> /\ OnlyPartners /\ PartnerNext

Addressing ==
  /\ UNCHANGED <<contacts, consents, pdpa>> /\ OnlyPartners /\ PartnerNext
  /\ \A k \in 1 .. 2 : work'[k].op \in {"idle", "address"}
  /\ InOrder(addresses', NoRecord)

\* The versions of one product, activated in overlapping calls.
Versioning ==
  /\ OnlyRecipes /\ BomNext
  /\ InOrder(boms', NoBom)
  /\ \A p \in 1 .. 2 : job'[p].op = "create" =>
       job'[p].row.item = "x" /\ job'[p].row.components = {"y"}

\* Products made from one another, checked one at a time while another
\* planner activates; the product that comes first is "x".
Looping ==
  /\ OnlyRecipes /\ BomNext
  /\ InOrder(boms', NoBom)
  /\ job'[1] # NoJob =>
       /\ job'[1].op = "create"
       /\ job'[1].row.version = NextVersion(job'[1].row.item)
       /\ boms[1] # NoBom \/ job'[1].row.item = "x"
       /\ boms[3] = NoBom
  /\ job'[2].op # "create"

Listing ==
  /\ OnlyLists /\ PriceNext
  /\ \A p \in 1 .. 2 : entry'[p].op = "line" => entry'[p].row.price = entry'[p].row.tier - 1
  /\ entry'[1].op = "list" => entry'[2].op = "none"
  /\ entry'[2].op # "list"
  /\ lists'[1] # NoList => lists'[1].currency = "THB"
  /\ InOrder(prices', NoLine)

Exchanging ==
  /\ FxNext /\ OnlyFigures
  /\ currencies'["USD"] \in {-1, 2} /\ currencies'["JPY"] \in {-1, 0, 4}
  /\ rates'["JPY", 1].source = "NONE" /\ rates'["JPY", 2].source # "BOT"
  /\ \A s \in 1 .. 2 : pull'[s] # NoPull => pull'[s].currency = "USD"

Taxing ==
  /\ TaxNext /\ OnlyFigures
  /\ InOrder(codes', NoCode)
  /\ draft'[1] # NoCode => draft'[1].treatment # "EXEMPT"
  /\ draft'[2] # NoCode => (draft'[2].default /\ draft'[2].kind = "VAT")

Inserting == \E f \in MCFilers : Insert(f)
Kinds(kinds) == \A r \in table' : r.kind \in kinds

\* Companies, branches and warehouses; a second company among three rows only.
Organising ==
  /\ OrgNext \/ Inserting
  /\ Kinds({"company", "branch", "warehouse"})
  /\ \A r \in table' : r.kind = "company" => r.code = "a" \/ Cardinality(table') <= 3
  /\ OnlyFiles

Naming ==
  /\ OrgNext \/ Inserting
  /\ Kinds({"customer", "vendor", "uom"})
  /\ OnlyFiles

Growing ==
  /\ TreeNext \/ Inserting
  /\ Kinds({"category"}) \/ Kinds({"account"})
  /\ OnlyFiles

\* A sheet and an item created beside it, for one unit and one category.
Importing ==
  /\ \/ Inserting \/ ItemNext
     \/ StartUom("f1", "a", "none") \/ StartCategory("f1", "a", "none")
  /\ filing'["f2"].op # "import"
  /\ filing'["f2"].op = "create" => filing'["f2"].row.parent = "none"
  /\ OnlyFiles

MasterScopes == {"answer", "consent", "address", "version", "loop", "price", "fx", "tax",
                 "organise", "name", "grow", "import"}
ScopedNext ==
  \/ scope = "answer" /\ Answering
  \/ scope = "consent" /\ Consenting
  \/ scope = "address" /\ Addressing
  \/ scope = "version" /\ Versioning
  \/ scope = "loop" /\ Looping
  \/ scope = "price" /\ Listing
  \/ scope = "fx" /\ Exchanging
  \/ scope = "tax" /\ Taxing
  \/ scope = "organise" /\ Organising
  \/ scope = "name" /\ Naming
  \/ scope = "grow" /\ Growing
  \/ scope = "import" /\ Importing
============================================================================
