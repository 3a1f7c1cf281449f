------------------------------ MODULE Catalogue ------------------------------
(***************************************************************************)
(* The rows every document names (master-data): companies, their branches  *)
(* and warehouses; customers, vendors and units; the trees of item         *)
(* categories and accounts; items, created one by one or imported from a   *)
(* sheet.  Each create looks for its code and for what it refers to, then  *)
(* inserts; the keys of the tables refuse the second of two that overlap.  *)
(* Rows are never removed, deactivated or moved.  Identifiers stand for    *)
(* codes, which are unique within a kind.                                  *)
(***************************************************************************)
EXTENDS Integers, Sequences, FiniteSets, SequencesExt

\* MAX_DEPTH is 50 for categories and 10 for accounts, MAX_IMPORT_ROWS 10000.
CONSTANTS Filer, Name, BranchNumber, AccountType,
          Sheets,      \* what may be imported, a sequence of rows each
          MAX_DEPTH, MAX_IMPORT_ROWS

ASSUME NamesAssumption == "none" \notin Name /\ "none" \notin Filer
ASSUME SheetsAssumption ==
  Sheets \subseteq Seq([sku : Name, uom : Name, category : Name \cup {"none"}])
ASSUME MaxDepthAssumption == MAX_DEPTH \in Nat

\* table: the rows; filing: the call in progress; outcomes: the answers that
\* imports have given.
VARIABLES table, filing, outcomes

catalogueVars == <<table, filing, outcomes>>

NoFiling == [op |-> "none"]
None == "none"

Of(kind) == {r \in table : r.kind = kind}
Codes(kind) == {r.code : r \in Of(kind)}
RowOf(kind, code) == CHOOSE r \in Of(kind) : r.code = code

\* The fields of a row: what it belongs to, its key beside the code, the chain
\* of codes down to it, and the import it came with.
Fields(kind, code, parent, key, path, by) ==
  [kind |-> kind, code |-> code, parent |-> parent, key |-> key, path |-> path, by |-> by]

CompanyRow(code) == Fields("company", code, None, None, <<>>, None)
CustomerRow(code) == Fields("customer", code, None, None, <<>>, None)
VendorRow(code) == Fields("vendor", code, None, None, <<>>, None)
UomRow(code, base) == Fields("uom", code, base, None, <<>>, None)
\* Without a number the branch is the head office.
BranchRow(code, company, number) == Fields("branch", code, company, number, <<>>, None)
WarehouseRow(code, branch, default) ==
  Fields("warehouse", code, branch, IF default THEN "default" ELSE None, <<>>, None)
CategoryRow(code, parent, path) == Fields("category", code, parent, None, path, None)
AccountRow(code, type, parent, path) == Fields("account", code, parent, type, path, None)
ItemRow(code, uom, category, by) == Fields("item", code, category, uom, <<>>, by)

CatalogueInit ==
  /\ table = {}
  /\ filing = [f \in Filer |-> NoFiling]
  /\ outcomes = {}

\* The unique keys: the code of a kind; the number of a branch in its company;
\* one default warehouse of a branch.
Clashes(row, r) ==
  /\ r.kind = row.kind
  /\ \/ r.code = row.code
     \/ row.kind = "branch" /\ r.parent = row.parent /\ r.key = row.key
     \/ row.kind = "warehouse" /\ r.parent = row.parent /\ r.key = "default" /\ row.key = "default"
Refused(row) == \E r \in table : Clashes(row, r)

Files(f, row) ==
  /\ filing[f] = NoFiling
  /\ ~ Refused(row)
  /\ filing' = [filing EXCEPT ![f] = [op |-> "create", row |-> row]]
  /\ UNCHANGED <<table, outcomes>>

StartCompany(f, code) == Files(f, CompanyRow(code))
StartCustomer(f, code) == Files(f, CustomerRow(code))
StartVendor(f, code) == Files(f, VendorRow(code))

StartUom(f, code, base) ==
  /\ base = None \/ base \in Codes("uom")
  /\ Files(f, UomRow(code, base))

StartBranch(f, code, company, number) ==
  /\ company \in Codes("company")
  /\ Files(f, BranchRow(code, company, number))

StartWarehouse(f, code, branch, default) ==
  /\ branch \in Codes("branch")
  /\ Files(f, WarehouseRow(code, branch, default))

\* The path of a node is its parent's with its own code.
PathBelow(kind, code, parent) ==
  (IF parent = None THEN <<>> ELSE RowOf(kind, parent).path) \o <<code>>
Depth(path) == Len(path) - 1

StartCategory(f, code, parent) ==
  /\ parent = None \/ parent \in Codes("category")
  /\ LET path == PathBelow("category", code, parent)
     IN /\ Depth(path) <= MAX_DEPTH
        /\ Files(f, CategoryRow(code, parent, path))

StartAccount(f, code, type, parent) ==
  /\ parent = None \/ (parent \in Codes("account") /\ RowOf("account", parent).key = type)
  /\ LET path == PathBelow("account", code, parent)
     IN /\ Depth(path) <= MAX_DEPTH
        /\ Files(f, AccountRow(code, type, parent, path))

KnownRefs(uom, category) ==
  uom \in Codes("uom") /\ (category = None \/ category \in Codes("category"))

StartItem(f, code, uom, category) ==
  /\ KnownRefs(uom, category)
  /\ Files(f, ItemRow(code, uom, category, None))

Insert(f) ==
  /\ filing[f].op = "create"
  /\ table' = IF Refused(filing[f].row) THEN table ELSE table \cup {filing[f].row}
  /\ filing' = [filing EXCEPT ![f] = NoFiling]
  /\ UNCHANGED outcomes

(* Importing a sheet: read the references, check each row against them and  *)
(* the rows before it, report, and insert the valid ones in one transaction. *)

ValidRows(sheet) ==
  {i \in DOMAIN sheet :
     /\ \A j \in 1 .. i - 1 : sheet[j].sku # sheet[i].sku
     /\ sheet[i].sku \notin Codes("item")
     /\ KnownRefs(sheet[i].uom, sheet[i].category)}

Outcome(sheet, valid, dryRun, partial) ==
  IF dryRun THEN "DRY_RUN"
  ELSE IF valid # DOMAIN sheet /\ ~ partial THEN "REJECTED"
  ELSE IF valid # DOMAIN sheet THEN "PARTIAL" ELSE "IMPORTED"

\* An import is told from the others by its caller, who makes one.
StartImport(f, sheet, dryRun, partial) ==
  /\ filing[f] = NoFiling
  /\ Len(sheet) <= MAX_IMPORT_ROWS
  /\ \A r \in outcomes : r.by # f
  /\ filing' = [filing EXCEPT ![f] =
       [op |-> "import", sheet |-> sheet, valid |-> ValidRows(sheet),
        outcome |-> Outcome(sheet, ValidRows(sheet), dryRun, partial)]]
  /\ UNCHANGED <<table, outcomes>>

ItemRows(f) ==
  {ItemRow(row.sku, row.uom, row.category, f) : row \in {filing[f].sheet[i] : i \in filing[f].valid}}

\* Mutant: the rows that do not clash stay.
CreateSome(rows) == table \cup {row \in rows : ~ Refused(row)}
\* createMany: one row that the key refuses rolls the transaction back.
CreateMany(rows) ==
  IF \E row \in rows : Refused(row) THEN table ELSE table \cup rows
Failed(rows) == \E row \in rows : Refused(row)

Import(f) ==
  /\ filing[f].op = "import"
  /\ LET writes == filing[f].outcome \in {"IMPORTED", "PARTIAL"}
         rows == IF writes THEN ItemRows(f) ELSE {}
         inserted == IF writes THEN Cardinality(filing[f].valid) ELSE 0
     IN /\ table' = CreateMany(rows)
        /\ outcomes' = outcomes \cup
             {[by |-> f, rows |-> Len(filing[f].sheet), inserted |-> inserted,
               outcome |-> IF Failed(rows) THEN "FAILED" ELSE filing[f].outcome]}
  /\ filing' = [filing EXCEPT ![f] = NoFiling]

OrgNext ==
  \E f \in Filer, n \in Name :
    \/ StartCompany(f, n) \/ StartCustomer(f, n) \/ StartVendor(f, n)
    \/ \E m \in Name \cup {None} : StartUom(f, n, m)
    \/ \E m \in Name, number \in BranchNumber : StartBranch(f, n, m, number)
    \/ \E m \in Name, b \in BOOLEAN : StartWarehouse(f, n, m, b)
TreeNext ==
  \E f \in Filer, n \in Name, m \in Name \cup {None} :
    StartCategory(f, n, m) \/ \E t \in AccountType : StartAccount(f, n, t, m)
ItemNext ==
  \/ \E f \in Filer, n, u \in Name, c \in Name \cup {None} : StartItem(f, n, u, c)
  \/ \E f \in Filer, b1, b2 \in BOOLEAN :
       \E sheet \in Sheets : StartImport(f, sheet, b1, b2)
  \/ \E f \in Filer : Import(f)

CatalogueNext ==
  OrgNext \/ TreeNext \/ ItemNext \/ \E f \in Filer : Insert(f)

CatalogueSpec == CatalogueInit /\ [][CatalogueNext]_catalogueVars

\* The ancestors of a node, following parents.
Ancestors(r) ==
  LET up(rows) == rows \cup {p \in table : \E x \in rows : p.kind = x.kind /\ p.code = x.parent}
      chain[n \in 0 .. MAX_DEPTH + 1] == IF n = 0 THEN {r} ELSE up(chain[n - 1])
  IN chain[MAX_DEPTH + 1]

\* Paths, by which a subtree is found (isWithin), say what the parents say,
\* however the nodes were added; and an account is of its ancestors' type, so a
\* statement groups whole subtrees.
TreesAgree ==
  \A r \in Of("category") \cup Of("account") :
    /\ Ancestors(r) = {a \in Of(r.kind) : IsPrefix(a.path, r.path)}
    /\ \A a \in Ancestors(r) : a.key = r.key
    /\ Cardinality(Ancestors(r)) = Len(r.path)

\* A sheet goes in as the answer says: every row of an imported sheet, the
\* reported number of a partial one, and nothing of one that was rejected, only
\* checked, or refused by a row created while it was being checked
\* (import-items.use-case.ts:152).
ImportsAreWhole ==
  \A r \in outcomes :
    LET loaded == Cardinality({i \in Of("item") : i.by = r.by})
    IN CASE r.outcome = "IMPORTED" -> loaded = r.rows
         [] r.outcome = "PARTIAL" -> loaded = r.inserted /\ loaded < r.rows
         [] OTHER -> loaded = 0

\* Trees say what parents say, and a sheet goes in as its answer says.
CatalogueHoldsTogether == TreesAgree /\ ImportsAreWhole
==============================================================================
