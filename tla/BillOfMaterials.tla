--------------------------- MODULE BillOfMaterials ---------------------------
(***************************************************************************)
(* Versions of a product's bill of materials (master-data/bom).  A version *)
(* is created inactive, with components that never change, after a check   *)
(* that it closes no loop through the active versions; activating it       *)
(* retires the active one in the same transaction.  The check is a walk    *)
(* that reads one item at a time, outside a transaction, and rows carry no *)
(* version: what a walk or an activation has read may be stale when it     *)
(* goes on.  md_bom_one_active_per_item and the key on (item, version)     *)
(* refuse what would break them.                                           *)
(***************************************************************************)
EXTENDS Integers, FiniteSets, FiniteSetsExt

\* MAX_EXPLOSION_DEPTH is 50 in the code; MaxBomVersion bounds the model.
CONSTANTS Planner, Item, Bom, MAX_EXPLOSION_DEPTH, MaxBomVersion

ASSUME ItemAssumption == IsFiniteSet(Item) /\ "none" \notin Item
ASSUME DepthAssumption == MAX_EXPLOSION_DEPTH \in Nat \ {0}

\* boms: the versions; job: the call a planner has in progress; known and
\* once are history: what was active from the first to the last read of a
\* version's check (for a check under way so far, in its job), and the items
\* that had an active version.
VARIABLES boms, job, known, once

bomVars == <<boms, job, known, once>>

NoBom == [item |-> "none"]
NoJob == [op |-> "none"]

Versions == {b \in Bom : boms[b] # NoBom}
OfItem(i) == {b \in Versions : boms[b].item = i}
ActiveFor(i) == {b \in OfItem(i) : boms[b].active}
Active == {b \in Versions : boms[b].active}

BomInit ==
  /\ boms = [b \in Bom |-> NoBom]
  /\ job = [p \in Planner |-> NoJob]
  /\ known = [b \in Bom |-> {}]
  /\ once = {}

\* Bom.create: at least one component, none of them the product itself.
Components(i) == SUBSET (Item \ {i}) \ {{}}

NewVersion(i, version, components) ==
  [item |-> i, version |-> version, components |-> components, active |-> FALSE]

\* Max(existing version, 0) + 1 unless the caller names one.
NextVersion(i) == Max({boms[b].version : b \in OfItem(i)} \cup {0}) + 1

\* What the active versions of a set of items are made of.
SubComponents(items) == UNION {boms[b].components : b \in UNION {ActiveFor(i) : i \in items}}

StartBom(p, i, version, components) ==
  /\ job[p] = NoJob
  /\ version \in 1 .. MaxBomVersion
  /\ \A b \in OfItem(i) : boms[b].version # version
  /\ components \in Components(i)
  /\ job' = [job EXCEPT ![p] =
       [op |-> "create", row |-> NewVersion(i, version, components),
        starts |-> components, queue |-> {}, seen |-> {}, known |-> Active]]
  /\ UNCHANGED <<boms, known, once>>

\* What a walk looks at next: of the items in its queue, each with its
\* depth, one of the nearest; from an empty queue it goes to the next
\* component, and forgets what it has seen.
Ahead(walk) ==
  IF walk.queue = {} THEN walk.starts \X {1}
  ELSE {q \in walk.queue : \A r \in walk.queue : q[2] <= r[2]}

\* It stops at the product, and gives up below the deepest level.
GivesUp(walk, q) == q[1] = walk.row.item \/ q[2] > MAX_EXPLOSION_DEPTH

\* Mutant: only the components themselves are looked at.
WalkedAtOnce(walk, q) == [walk EXCEPT !.starts = @ \ {q[1]}]

\* What the active version of the item is made of joins the queue.
Walked(walk, q) ==
  LET starting == walk.queue = {}
      seen == {q[1]} \cup (IF starting THEN {} ELSE walk.seen)
      found == SubComponents({q[1]}) \X {q[2] + 1}
  IN [walk EXCEPT !.starts = IF starting THEN @ \ {q[1]} ELSE @,
                  !.queue = {r \in @ \cup found : r[1] \notin seen},
                  !.seen = seen]

ReadComponent(p) ==
  /\ job[p].op = "create"
  /\ \E q \in Ahead(job[p]) :
       job' = [job EXCEPT ![p] = IF GivesUp(@, q) THEN NoJob ELSE Walked(@, q)]
  /\ UNCHANGED <<boms, known, once>>

CreateBom(p, b) ==
  /\ job[p].op = "create" /\ job[p].starts = {} /\ job[p].queue = {}
  /\ boms[b] = NoBom
  /\ LET row == job[p].row
         taken == \E v \in OfItem(row.item) : boms[v].version = row.version
     IN /\ boms' = [boms EXCEPT ![b] = IF taken THEN @ ELSE row]
        /\ known' = [known EXCEPT ![b] = IF taken THEN @ ELSE job[p].known]
  /\ job' = [job EXCEPT ![p] = NoJob]
  /\ UNCHANGED once

\* An active version is returned as it is; otherwise the transaction has read
\* this version and the active one before it writes either.
StartActivation(p, b) ==
  /\ job[p] = NoJob /\ b \in Versions
  /\ ~ boms[b].active
  /\ job' = [job EXCEPT ![p] =
       [op |-> "activate", bom |-> b, current |-> ActiveFor(boms[b].item)]]
  /\ UNCHANGED <<boms, known, once>>

Switched(b, on) == [boms[b] EXCEPT !.active = on]

\* Both writes, or neither where the index refuses the second.
Swap(b, current) ==
  LET after == [v \in Bom |-> IF v = b THEN Switched(v, TRUE)
                              ELSE IF v \in current THEN Switched(v, FALSE) ELSE boms[v]]
      refused == \E v \in OfItem(boms[b].item) \ {b} : after[v].active
  IN IF refused THEN boms ELSE after

\* A version that is retired was not active throughout a check under way.
Retiring(call, still) ==
  IF call.op = "create" THEN [call EXCEPT !.known = @ \cap still] ELSE call

ActivateBom(p) ==
  /\ job[p].op = "activate"
  /\ boms' = Swap(job[p].bom, job[p].current)
  /\ LET active == {v \in Versions : boms'[v].active}
     IN /\ once' = once \cup {boms[v].item : v \in active}
        /\ job' = [q \in Planner |-> IF q = p THEN NoJob ELSE Retiring(job[q], active)]
  /\ UNCHANGED known

BomNext ==
  \/ \E p \in Planner, i \in Item, components \in SUBSET Item :
       \E version \in {NextVersion(i)} \cup 1 .. MaxBomVersion : StartBom(p, i, version, components)
  \/ \E p \in Planner, b \in Bom : CreateBom(p, b) \/ StartActivation(p, b)
  \/ \E p \in Planner : ReadComponent(p) \/ ActivateBom(p)

BomSpec == BomInit /\ [][BomNext]_bomVars

\* An item whose product was ever made from an active version always has
\* exactly one: activate-bom.use-case.ts promises that "a production order
\* released mid-swap sees exactly one of them", whichever activations overlap.
OneRecipe == \A i \in once : Cardinality(ActiveFor(i)) = 1

\* A version is part of no loop of versions that were active from the first
\* read of its check to the last, whatever was activated between two reads:
\* however long the loop, following components from the product through
\* those versions never returns to it.  A loop of versions that were not all
\* active throughout may pass, and activating a version checks nothing
\* (create-bom.use-case.ts, assertNoCycle).
MadeFrom(b) ==
  LET step(items) == items \cup UNION {boms[v].components : v \in {v \in known[b] : boms[v].item \in items}}
      reach[n \in 0 .. Cardinality(Item)] == IF n = 0 THEN boms[b].components ELSE step(reach[n - 1])
  IN reach[Cardinality(Item)]
CheckedRecipesEnd == \A b \in Versions : boms[b].item \notin MadeFrom(b)

\* A product made once from an active version has exactly one, and no version
\* passed its check into a loop that stood while it was checked
\* (bom/application).
RecipesHoldTogether == OneRecipe /\ CheckedRecipesEnd
==============================================================================
