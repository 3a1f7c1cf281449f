# A verification development for nestjs-api-template

The repository is the back end of a small ERP: NestJS, Prisma and SQL Server,
one module per business area, in `src/src/modules`. It runs as several replicas
of one process over one database, and everything that two requests share is in
that database. This directory holds TLA+ models of its core, the TLC runs that
check them on small instances and TLAPS proofs for every instance.

## The system

All replicas run the same code. A use case opens a Prisma interactive
transaction (`src/src/shared/database/transaction.manager.ts`, ADR 0002: READ
COMMITTED, nested calls take part in the outer transaction), reads rows into an
aggregate, lets the aggregate decide, and saves. Reads keep no lock, so between
a load and its save any other transaction may commit; what stops a stale write
is a `version` column where the repository compares it, or a unique key, or
nothing. A crash, a domain error or the time limit roll the transaction back.
Parts talk to each other by calls inside one transaction (sales to inventory,
approval and receivable; everything to the general ledger) and by rows in
`outbox_message`, which crons dispatch later.

| Component | State | Operations | What is hard | What makes it correct |
|---|---|---|---|---|
| Notification outbox (`notification`) | `outbox_message`: status, attempts, nextAttemptAt, leasedAt; the tick each replica runs | enqueue (in the caller's transaction), claim, push, markDelivered, markFailure, reclaim | replicas overlap; leases go stale under live workers; a crash after LINE's answer; writes by id | no false DELIVERED, cap on attempts, one holder per lease, every row settles |
| Approval (`approval`) | `apv_request` with steps and decisions, policies, delegations | submit, decide, cancel, delegate, revoke, create policy | saves without version; roles and delegations read before the transaction; two decisions at once | an approved request has its approvals from entitled people; a rejected one is never approved; one pending request per document |
| Production order (`production-order`) | `production_order`, `progress_report`, its outbox rows, its stock hold | create, submit, approve, release, report, cancel | overlapping commands; two-query loads; events and row written apart | R1, R2, R3, R7, R9 of `docs/business-rules.md`; commands act one at a time |
| Stock ledger (`inventory`) | balances (on hand, reserved, version), reservations, cost layers, average cost, lots, serials, movements | post, reserve, release, transfer, count | multi-line documents, holds written by id, layers without version, release against issue | nothing negative, reserved never above on hand, holds add up to the reserved quantity |
| Sales (`sales`) | quotations and revisions, orders, delivery notes | send, accept, revise, expire; submit, confirm, cancel, reopen; ship | credit check on unlocked sums, approval outcome pulled later, holds left behind | delivered never above ordered, an order converts once, no hold survives its order |
| Purchasing (`purchase`) | requisitions, purchase orders, goods receipts, reorder rules | submit, confirm, reopen, receive, post, sweep | an approval is applied later, receipts of one order overlap, sweep and mark apart | what is ordered is what was approved, received at most ordered, no double reorder |
| General ledger (`finance/ledger`) | journal entries, the fiscal year and its periods | post by source key, reverse, approve by hand, close period, close year | a gate and a count read before the write, a fiscal year saved without a version | entries say what documents say, a closed year stays closed and cleared |
| Receivable, payable (`finance`) | invoices, receipts, credit notes; vendor invoices, vouchers, batches | create, issue, receive, credit, void; match, pay, batch | open quantities read without locks, match frozen at capture | nothing billed or paid twice |
| Master data (`master-data`) | partners with contacts, consents and PDPA requests; BOM versions; price lists; exchange rates and tax codes; organisation, catalogue and chart trees, items | create, record, answer, activate, price, pull rates, resolve tax, import | every check is a read before the insert; two answers or two activations at once; a feed against manual entry; an import against a create | an erasure reaches what it saw, one active recipe, one price, manual rates stand, imports are whole |
| Shared (`src/src/shared`) | `doc_sequence`, request context | transactions, document numbers, auth, validation | nested transactions, first number of a month | all or nothing |

Hazards, each at its line and with the properties that watch it, are in
`PROJECT.json`; the notes say what a property excepts, or why no property covers
the line.

## Modules

| Module | What it models |
|---|---|
| `Outbox` | rows, replicas, reclaimer and LINE: every database call and every push is a step |
| `Outbox_proofs` | proofs about it: statuses, attempts, leases, the end of a row |
| `ApprovalRequest` | requests, decisions, delegations; a call is five steps (build the decider, three queries of findById, save) |
| `ApprovalRequest_proofs` | proofs about it |
| `OrderDomain` | the production order aggregate: table of transitions, guards and results of its commands, no state |
| `OrderLifecycle` | what the production-order module promises: an order on which commands act one at a time, and its log |
| `ProductionOrder` | the use cases over rows with versions: a call is two reads and a commit |
| `Production_proofs` | proofs about it, the refinement of `OrderLifecycle` included, and about `MasterData` |
| `StockLedger` | balances, reservations and movements of one warehouse under overlapping transactions |
| `StockLedger_proofs` | proofs about it |
| `GeneralLedger` | entries by source key, the manual entry and its approval, periods and year, the gate |
| `Receivable` | sales invoices, credit and debit notes, receipts; extends `GeneralLedger` |
| `Receivable_proofs` | proofs about invoices, receipts, the entries they cause and the fiscal year |
| `Procurement` | requisitions, orders, goods receipts, the reorder sweep |
| `Payable` | vendor invoices, vouchers, batches, certificates; extends `GeneralLedger` and `Procurement` |
| `Payable_proofs` | proofs about purchasing, sweeps, matching, vouchers, batches and their entries |
| `Quotation` | quotations, revisions, expiry, conversions |
| `SalesOrder` | orders, credit check, approval, delivery notes, holds; extends `Quotation` |
| `Stocktake` | count sheets, transfers, movements by hand; extends `SalesOrder` |
| `Sales_proofs` | proofs about quotations, orders, deliveries, credit, stock and count sheets side by side |
| `SumLemmas` | lemmas about the sums all of them add rows up with (`SumFunction`) |
| `Partner`, `BillOfMaterials`, `PriceList`, `Rates`, `Catalogue` | the parts of master data |
| `MasterData` | the five side by side: a step is a step of one of them |
| `MCOutbox`, `MCApproval`, `MCProductionOrder`, `MCStockLedger`, `MCReceivable`, `MCPayable`, `MCSales` | the instances TLC checks |
| `MCMasterData`, `MCProduction` | the scopes of master data, and master data beside the production order |

Composition is by EXTENDS where parts share state in the code: payables post into
the ledger and match against purchasing, receivables post into the ledger, count
sheets move the stock that orders hold. The master data modules share nothing but the
proofs about them; `MasterData` puts them side by side.

### Outbox

`outbox[r]` is the row as the store sees it. Time appears as the two questions
the code asks: `due` (nextAttemptAt has passed) and `lease = "stale"` (leasedAt
is older than `STALLED_TIMEOUT_MS`). `worker[p]` is the memory of a running
tick: the rows it read, the ones it leased and still has to finish, and LINE's
last answer. `claimPending` is `ReadCandidates`, one `LeaseRow` per row and
`EndClaim`; `dispatchOne` is `NoRecipient`, or `Push` followed by one of
`MarkDelivered`, `MarkPermanent` and `ScheduleRetry`. Each of these writes may throw
inside the `try` (`WriteThrows`), the row unchanged or committed all the same with the
answer lost; the `catch` then schedules a retry (`ScheduleRetry` of a "thrown"
outcome). `LoseTick` is a crash, or a store call that throws outside that `try`; one
that commits and then throws there is the call followed by a `LoseTick`. A write is
taken to be committed by the time its caller sees the error, if it ever is. The reads come back in any order within a batch, where the
code sorts by nextAttemptAt. LINE (`LineAnswers`) may accept and answer with an
error, and the constant `DuplicateAnswers` leaves open what the adapter makes of
LINE's answer to a retry key it knows.

### ApprovalRequest

`requests[id]` is a request with its steps; every access to shared state is a step.
`StartCall` is `buildDecider`, which runs before the transaction. `findById` includes
steps and decisions, which is a query each: `ReadHeader`, `ReadSteps`,
`ReadDecisions`, the last with the checks of `decide` or `cancel`. A save in between
tears the copy: `whole` says that header and steps are of one state.
`Decide` and `Cancel` are the save, computed from the copy. `Saved` writes
header and step statuses from the copy and adds the decision to those stored,
which is what the repository does. `CommitAllowed` stands for the two
constraints of the database that can refuse the commit: the filtered unique index
on PENDING requests and the unique idempotency key of `outbox_message`. The
steps a policy yields for an amount are the constant `Chains`.

### ProductionOrder

`row[id]` is the row with its version, `reports[id]` the number and the total of
its progress reports, `outbox[id]` its events in order, `keys` their
idempotency keys, `held` the orders with a hold in inventory. A call reads the row, then
the reports, and commits in one step, or fails and leaves nothing (`Fail` stands
for domain errors, shortages, version conflicts, the time limit and crashes).
What the commands do to an order is in `OrderDomain`, which `OrderLifecycle`
shares: the refinement says that versions and copies make no difference, not
that the same guards are equal to themselves. That is why every mutant of the
versions breaks it. `recall` of the aggregate has no use case and is left out.

### StockLedger

`balance`, `hold` and `net` are the committed balances, reservations and sums of
movements; `row`, `holdRow` and `moved` are what each transaction has written and
not committed. A call begins (`BeginReceive`, `BeginIssue`, `BeginTake`,
`BeginReserve`, `BeginRelease`) with `listActive` where the code calls it, plans
one line a step (`PlanLine`, or `Shortage`), posts one allocation a step
(`PostReceive`, `PostOutbound`, `PostReserve`) or one reservation a step
(`PostRelease`), and ends with `Commit` or `Abort`. `ReleaseRest` is the delivery
note that completes its order and releases what is left in the transaction of
the issue. `BeginTake` is every outbound posting without reservations of its own:
manual issues and adjustments; a transfer posts the same way.

Reads see committed rows and the transaction's own. SQL Server would let a read
of a row wait that another transaction has written; the model lets it see the
row from before the write, as if it had come earlier. Written rows stay locked to
the end (`RowIsFree`, `HoldIsFree`). The read and the save of one posting are one
step: if the balance changes between them the version check fails, and `Abort`
may fail any call at any time; it also stands for deadlocks of the database,
domain errors and crashes. Within a line the order in which lots are posted is
left open. A line names the balances it may draw on in order of expiry, so
resolving a lot and sorting lots is in the constants; a balance exists before its
first receipt, with nothing on it. Costs, serials and lots as rows are left out.

`disturbed` is a history variable: it is set by the commit of a call that wrote a
reservation somebody else had changed since it was listed, or consumed more on a
balance than the reservations it listed there. The second needs no other call: two
lines of one item in an issue each consume up to everything the document holds.

### Documents: what the modules from GeneralLedger to Stocktake have in common

A document of these modules is loaded, checked and saved under the version it was
loaded with, in one transaction, so a handler is one step: it takes effect on the
row as it is, or fails. A handler reads other things, however, that it does not
save: the fiscal year behind the gate, what of an order is invoiced already, the
sum of a customer's open orders, the quotation a conversion copies. Those reads
are steps of their own, kept in `call[c]`, and may be stale when the call commits
(`Start`, then the action, then `Finish`). `Insert*`, `Save*` and `*Table` are the
repositories and the tables; `New*` and participles such as `PostedVoucher`,
`VoidedInvoice` and `ReopenedOrder` are the aggregates' constructors and
transitions.

Money is quantity at price one, a document has one line, and there is one
customer, one vendor and one item: what the properties tell apart is which
document, how much, and in which state. Tax shows as the flag `wht` of a document
that withholds, and document numbers, wording and formats are left out.

History variables record what a property must except or refer to and no row
keeps: `torn` (requests saved from a torn copy), `overlapped` (in `ApprovalRequest` a
user whose calls on one request overlapped; in the sales models two calls that read the same order before either wrote), `rebilled`
(one reading of an order billed twice), `raced`
(a submission saved on a sum that was too small by then), `backing` and `agreed`
(the approval a document went on), `cleared` (a year-end close nobody overlapped),
`reordered`, `manual`, and in master data `together`, `once`, `known`, `entered`.

**GeneralLedger.** `entries[k]` is the entry with source key `k`: `Posting` and
`Reversing` are what `PostingService` does in the transaction of a document, a
second post of a key being the first one's answer. `JournalNext` is the entry by
hand, from draft through approval to posting and reversal. `year` is the fiscal
year with its periods; `ChangeYear` reads it for lock, unlock
and close, `SaveYear` is a step apart and writes what was computed from that copy, because
`prisma-fiscal-year.repository.ts` has no version. Month-end counts the unposted
entries in one step (`ClosePeriod`) and reads the year it locks the period of in
another (`LockCounted`), so entries and year may move in between. Year-end reads year,
count, entry and balances in one (`BeginYearEnd`), where the code awaits each:
`ClosedYearIsCleared` vouches only for a close nobody overlapped, which cannot tell
the two apart, and `ClosedIsFinal` is about the save, a step of its own.
`GateOpen` is the period gate. `RESULT` stands for all the income and expense accounts
of the code: a year in which several of them moved and cancel out gets a last closing
line of 0 against 0, which posting refuses (`reports.ts:281`), and its close fails, as any call may
(`GiveUp`).

**Receivable.** An invoice is created by hand or from the delivered part of a
sales order (`overlapped`), edited, issued, settled and voided; an edit of the header
alone keeps the lines and their order line, new lines have none (`Edits`); credit notes settle
their original and are saved with it; a debit note only reads it. A receipt
allocates to invoices when it is posted and takes back when it is voided.

**Procurement.** Requisition and order go through submit, an approval that ends on
its own (`requests`), confirm, reopen, edit; `ApprovalNext` also opens requests
through the approval API, with any amount (`own = FALSE`). Goods receipts are
drafted from an order they only read and posted against it. The sweep plans,
raises and marks in separate transactions and may stop between them.

**Payable.** A vendor invoice is captured with or without an order; the match is
made at capture and kept. `Billings` are the lines an invoice may have on the one line
of an order: one, or two that name it both, which nothing forbids and which
`ThreeWayMatch` compares each alone. Vouchers settle invoices alone or in a batch, drafts move
between batches, a voucher that withholds has a certificate.

**Quotation, SalesOrder, Stocktake.** Revisions are rows of their own under one
number. A conversion reads the quotation outside its transaction and links it
inside. `Submit` asks for approval on a sum of open orders it does not lock,
`Confirm` applies the latest request and reserves. A note ships from the default
warehouse or another, consumes or keeps the hold, and the order's last note
releases it. `ReserveByHand` and `ReleaseByHand` are the inventory API, which reserves
for any document and gives back all that a document holds, that of a live order
included; `given` and `freed` record it. A count sheet freezes quantities, is counted, reviewed, approved and
posts its variance as a difference; transfers leave one warehouse and arrive in
the other. The inventory here is what its gateway promises: each reservation,
issue and release happens at once. What happens when they overlap is
`StockLedger`'s. What is reserved by hand for other documents, or in the other
warehouse, could only refuse a step of an order, and is left out.

### Master data

Rows have no version and no operation removes them. Every create looks first and
inserts later, and the unique and filtered indexes of the migrations decide
between two that overlap; so each create is two steps (`Start*`, `Insert*`).

`Partner`: contacts, addresses, the append-only consent log, and requests of data
subjects, answered by two use cases that both load and save by id. `BillOfMaterials`:
versions are checked against loops through the active versions when they are
created, by a walk that reads the active version of one item at a time
(`ReadComponent`, with activations between two reads), and activation retires what it
read as active. `PriceList`: lists and
tiers, `Before` is the comparison of `resolvePrice`, and `PriceLine` what
a sales line gets. `Rates`: exchange rates by hand and from the bank's feed, with
the read and the upsert of the sync apart; conversion over the base currency in
scaled integers, for currencies of 0 to 4 decimals and the base THB of 2 (a rate can
be entered against another base too, which no conversion reads); tax codes,
overrides and rounding. `Catalogue`: companies, branches and warehouses; category
and account trees with their stored paths; the import of items, which reads its
references, reports and inserts in one go.

## Runs

| Run | Instance | Distinct states | What it shows |
|---|---|---|---|
| `outbox` | 2 replicas, 2 rows (one without recipient), cap 2, batch 2, one stall per row, one fault | 166,226 | invariants below and, under fairness, that every row settles |
| `approval` | 2 requests of 1 document, 3 users, 2 chains, 3 calls; 1 request, torn reads and a delegation | 1,615,767 | what unversioned saves cannot break |
| `approval_reject` | 1 request, reads not torn | - | violated: a rejected request becomes PENDING again |
| `approval_voice` | 1 request, one call after another | - | violated: one step decided by a manager and then by the manager's deputy for the manager |
| `production_order` | 1 order, 3 users, one or two approvals, 2 calls that repeat, 7 versions; and twelve scopes of master data | 594,346 | business rules and refinement; what overlapping calls leave of master data |
| `production_order_hold` | same | - | violated: a cancelled order keeps its hold |
| `stock_ledger` | 1 item in 2 lots (2 and 1 on hand), 2 documents, 2 calls, 2 reservations | 459,109 | balances, movements and reservations agree |
| `receivable` | 2 invoices or notes of up to 2, 1 receipt, 2 calls, 1 period with its year | 1,528,178 | entries, settlements, billing and closing agree |
| `payable` | 2 each of vendor invoices, vouchers, batches, requisitions, orders, goods receipts, rules and sweeps, 2 calls; six scopes | 491,737 | entries, payments and purchases agree |
| `sales` | 1 quotation number in 3 revisions, 2 orders, notes and sheets, 1 transfer, 2 warehouses, 2 calls; five scopes | 936,166 | quotations, orders, deliveries, credit, stock and counts agree |
| `stock_release` | 1 balance of 2, lines of 1 or 2 | - | violated: an issue writes back a hold that was released meanwhile |
| `stock_two_lines` | 1 balance of 2, two lines of 1 | - | violated: `reserve` conflicts with its own first line |

**outbox.** `DeliveredWasAccepted`: DELIVERED is never written for a row LINE did
not accept, although both outcomes are written by id. `LiveRowHasAttemptsLeft`: a
row that can be pushed has attempts left, although the count comes from an old
read (it is about the row: a tick that was overtaken may still push one that is DEAD).
`LeaseIsExclusive`: the conditional update is the only exclusion, and each further
holder needs a replica that lost its lease while it held the row: the lease went
stale, or a write of the replica's own committed although it threw (`overtaken`).
`DeliveredIsFinalUnlessOvertaken`: DELIVERED is final unless that happened; if it
did it is not, the tick makes the row PENDING again. `EveryRowSettles`:
an enqueued row ends DELIVERED or DEAD for good. *Bounds:* two replicas are
enough for any overlap of two holders; cap 2 separates a first, a last and an
exhausted attempt; with batch 2 a tick has rows it has not come to when it
dies. `MaxStalls` and `MaxFaults` bound the environment, not the code (a fault allows
a row one stall more).
*Fairness:* weak fairness of each replica's steps (the cron fires for ever, and
awaits resolve), of the reclaimer and of time. Nothing is assumed of LINE, which
may refuse everything; the row then ends DEAD. The faults are finite: with a
crash in every tick no row would settle.

**approval.** `ApprovedIsBacked`: every step of an APPROVED request has its
required approvals, of holders of the step's role and none by or for the requester,
also where the copies saved were stale or torn. The approvals are of different deciders
unless a user's own calls on the request overlapped (`overlapped`): neither sees the
decision of the other, and the code counts both. `RejectedNeverApproved`: a
request with a stored rejection is never APPROVED; only the key shared by both
outcomes prevents it. `RequestsHoldTogether`: whichever stale copy was saved last,
header and steps agree (`HeaderMatchesSteps`) until a torn copy is saved (`torn`), and a stale save cannot make a
resolved request PENDING beside a newer one (`OnePendingPerDocument`). *Bounds:* three calls give a stale pair and
one more; a chain of one step with two approvals and a chain of two steps cover
both ways a decision leaves the request PENDING; two requests of one document are
needed for the resubmission. Calls are symmetric. All at once is out of TLC's reach,
so the run has two scopes: `saves` (1,232,355 states), any overlap of calls on both
requests with reads in one piece and no delegation, and `reads` (383,412), on one
request anything.

**production_order.** `ApproversAreDistinct` is R2 and R3 after any overlap;
`AuditTrailTellsStatus` is R7; `ProducedMatchesReports` relates the column to the
rows that `syncProgress` counts; `KeysStayBelowVersion` says why an outbox key
never collides; `ImplementsLifecycle` is the refinement. *Bounds:* two calls that
can each be followed by another cover every stale pair; quantity 3 with 3333 basis points
over and under has, by integer division, the ceiling at 3 and the floor at 2, so reports of 0, 1 and 3
start, complete alone or together, and overshoot together only; seven versions reach from the draft to the end
through two approvals with versions to spare. No liveness is claimed: a client need
never call.

The same run checks the master data, in scopes of `MCMasterData` that each let one
part move while the rest stays as it began (states per scope: order 345,265, answer
73,600, consent 4,913, address 5,505, version 12,208, loop 26,789, price 28,591, fx
16,478, tax 29,608, organise 31,498, name 7,808, grow 926, import 11,157).
`PartnersHoldTogether`: an erasure reported as done blanked every contact it found
and nobody else is blanked (`ErasureIsDone`, `ErasedOnRequest`), a request is
answered once unless two answers were in flight together (`AnsweredOnce`), and
consent is what the last record says (`ConsentIsTheLastWord`). `RecipesHoldTogether`:
a product made once from an active version has exactly one, whichever activations
overlap (`OneRecipe`), and no version passed its check into a loop, however long, of
versions that were active from the first read of the check to the last, whatever was
activated in between (`CheckedRecipesEnd`). `TermsHoldTogether`: one line prices a query and a customer's
own comes before everyone's (`OnePrice`, `OwnPrice`), manual rates stand, amounts
come back from the base currency, tax on the base is the tax split out (`ManualStands`,
`ConversionReturns`, `TaxesAgree`). `CatalogueHoldsTogether`: stored paths are what
the parents say, whatever is inserted together (`TreesAgree`), and a sheet goes in
as its answer says (`ImportsAreWhole`). `FiguresMoveForTheirReaders`: a new line or a
new rate changes a price or a value only for the customer, tier, currency and dates
it is for. *Bounds:* two clerks, planners or filers are every overlap of a look and
an insert; three products and three versions are the shortest loop that is closed by
a third, and an activation between two reads of its check; a tree of depth one and sheets of two rows meet a parent, a duplicate and a
row that comes from elsewhere. Two parts of master data share no variable, so no
interplay is lost by moving one at a time; that the properties hold whichever parts
move, and without what else a scope leaves out, is proved (`MasterSpec`, below).

**stock_ledger.** `BalanceIsItsMovements`: a balance is the sum of its movements
and has no more reserved than is there, although `reserve` saves a copy it read
when it planned. `ReservationsHoldTogether`: whatever overlaps, no stock is
withheld that no active reservation stands for (`NothingReservedForNobody`), and
unless a commit has disturbed them, the reserved quantity is exactly the sum of the
active reservations, across partial consumption, releases and several lots
(`ReservedIsTheHolds`). *Bounds:* two
calls give every stale pair; a line of 3 spans both lots and leaves nothing, two
lines of 1 meet on one balance; two reservations are one per document or two of
one; version 5 of the early lot is four saves of it (reserve, issue, release and
one more).

**receivable.** `EntriesMatchDocuments`: the entries of an invoice, note or receipt
add up on the control account to what the document says of itself, through post,
void, application and reversal. `SettlementsHoldTogether`: what is settled of an
invoice is the sum of its receipts and notes (`SettledIsItsSources`), and a posted
receipt can always be taken back (`PostedReceiptCanBeVoided`): nothing that came
later used up what it settled. `BilledAtMostDelivered`: the invoices cut from an
order bill no more than was delivered, unless two were cut from the same reading.
`ClosedYearIsCleared`: a year-end close that nobody overlapped leaves the result
accounts at nothing, and nothing reaches them later. `ClosedIsFinal`: a closed year
changes only by a save of a call that loaded it open. *Bounds:* two invoices and
one receipt are an invoice with a note, an invoice settled twice over, or a receipt
over two invoices; two calls are every stale pair of gate, year and order; with one
period the gate is the year's last open period from the start, which is the case
the close has to get right. The entry by hand is left to `payable`. Invoices, receipts
and calls are symmetric.

**payable.** `EntriesMatchDocuments`: as for receivables, and a valid certificate
exactly for a posted voucher that withholds. `PaymentsHoldTogether`: an invoice is
settled by what its posted vouchers pay, never beyond its total
(`SettledIsItsVouchers`), and batches and vouchers agree on who belongs where
(`BatchAgreesWithItsVouchers`). `PurchasesHoldTogether`: invoices match no more
than was received and that no more than was ordered, unless one reading of the order
was billed twice, by two captures at once or by two lines of one invoice
(`MatchedAtMostReceived`),
an order is issued, and a requisition converted, on an approval of what it says now
(`OrderedIsApproved`), and a rule orders twice in its cooldown only where sweeps
overlap or stop half way (`ReorderedOnce`). *Scopes:* reorder 19,044, requisition
45,549, order 421, receive 204,999, pay 217,563, keep 4,161: the parts that share
state move together, and a document begun outside a scope would only be one more of
the same. *Bounds:* two receipts and two invoices of one order of 2 overlap; two
vouchers in two batches over two invoices are moved, posted and voided in every
order; two sweeps over two rules in one group overlap and stop.

**sales.** `DeliveriesHoldTogether`: what an order holds is what is left of it while
it lives, unless its hold was released by hand (`HoldsFollowOrders`), and what it says is delivered is what its notes
shipped, at most what was ordered (`DeliveredIsItsNotes`). `QuotationsHoldTogether`:
what a customer was sent is not edited under a later revision (`OnlyLastIsDraft`),
and a quotation becomes one order that knows it (`ConvertedOnce`). `CreditIsWatched`:
orders nobody looked at stay within the limit together, unless submissions raced,
and an order beyond it is confirmed on somebody's approval. `StockFollowsDocuments`:
a warehouse holds what it had, what was moved by hand and what its documents say.
`AdjustedAsApproved`: a sheet posts the variance that was approved, not that of an
earlier count. *Scopes:* quote (revisions and conversions), sell (submissions and
approvals), deliver (holds and notes), count (two sheets and movements by hand),
stock (a count and a transfer beside a delivery). *Bounds:* two orders are enough to
exceed a limit of 3 with quantities up to 2; two notes ship one order in either
order; the hold of one order is released or added to by hand, any number of times; three revisions are a middle one with a draft behind it.

Deadlock checking is off except in the stock runs (where a call may always
abort): each of the others may end with nothing left to do (all rows settled, all
calls done, the last version reached).

### What the violations show

* `approval_reject` - `save` of the approval repository has no version. With two
  approvals required on a step, an approval loaded before a rejection and
  saved after it writes PENDING back over REJECTED. The comment of the class says
  "any REJECT ends the request" (`approval-request.ts:171`). The request can not
  be approved any more (`RejectedNeverApproved`), it can only hang or be
  cancelled.
* `approval_voice` - the comment says "a user decides a step at most once,
  delegated or not" (`approval-request.ts:172`). `decide` finds an earlier
  decision by or for the acting user, not an earlier decision of the delegator: the
  manager approves, the deputy approves for the manager, and both count. The run
  lets one call end before the next begins, so it owes nothing to an overlap.
* `production_order_hold` - the comment of the inventory adapter says the hold is
  "released by the inventory gateway when the order is cancelled"; no code calls
  the release.
* `stock_release` - the comment of `StockLedgerService` says "reservations never
  exceed on-hand" (`stock-ledger.service.ts:112`), `docs/state-machine.md:175` that
  an order can always ship what it reserved. An issue lists the holds of its
  document at its start and saves them by id at its end; a release of the same
  document that commits in between has given the stock back, another document
  reserves it, and the issue takes it all the same.
* `stock_two_lines` - a refused save says "modified concurrently"
  (`domain/errors.ts:70`), but `reserve` saves the balances of its plan, and the
  second of two lines of one item always finds the version its first line made.
  The planning expects such lines (`stock-ledger.service.ts:632`).

Also noted, without a run of their own. The models follow the code in each:

* A write of the dispatcher that commits and then throws sends the row through the
  catch of `dispatchOne` (`outbox-dispatcher.service.ts:107`): PENDING is written over
  DELIVERED, and the message is pushed again under its old retry key.
* Each step "needs `requiredApprovals` distinct APPROVEs" (`approval-request.ts:170`),
  but two overlapping calls of one user count twice (`overlapped` in
  `ApprovedIsBacked`). A `findById` torn by a rejection is PENDING with a REJECTED
  step, and its save leaves header and steps apart (`torn` in `HeaderMatchesSteps`).
* `docs/state-machine.md:30` says that the user who submits becomes `createdBy`;
  `ProductionOrder.submit` leaves `createdBy` alone, so R3 is about the drafter.
* A confirmed sales order that is cancelled keeps its reservations
  (`docs/state-machine.md:191` says they are released); it is the gap
  `production_order_hold` shows, and `HoldsFollowOrders` excepts cancelled orders.
* `POST /approvals` asks for an approval of any document for any amount; confirming
  an order, a journal or a sheet takes the latest request whoever made it (`own`,
  `direct`). Only the amount of a request the document itself made is vouched for.
* Overlapping submissions may exceed the credit limit (`raced`), overlapping calls
  may bill one delivery or one receipt twice (`overlapped`, `rebilled`), two revisions
  of a quotation may both be accepted, and two count sheets of one warehouse may post
  the same difference.
* "Quantity may never exceed what was received and not yet invoiced"
  (`three-way-match.ts:4`) does not hold of an invoice with two lines on one order
  line: each is compared alone (`three-way-match.ts:48`), and of an order of which 1
  was received such an invoice is MATCHED and bills 2 (`rebilled`).
* Editing a draft invoice writes lines without their order lines, after which the
  order may be billed again (`linked`).
* A count sheet under review may be started again through the same endpoint that
  starts a draft: the transition table allows it.
* `POST /inventory/reservations/release` (`inventory.controller.ts:138`) releases the
  hold of a live document: a confirmed order may then hold nothing of what it owes
  (`HoldsFollowOrders` excepts such an order). `SalesOrder` has the step; in
  `ProductionOrder`, where the hold takes no part in a property but that of a
  cancelled order, it is left out.
* A fiscal year is saved without a version: two overlapping calls can reopen a
  closed year (`ClosedIsFinal` says only who can).
* The unique constraint on tenant and source key
  (`prisma/migrations/20260916000000_ledger/migration.sql:44`) admits, in SQL Server,
  one row per tenant without a key, so a second entry by hand is refused; the
  model has one entry by hand.
* A loop of recipes can be closed by activation, which does not check again, and a
  check can pass although some loop through the product was active at every instant
  of it: the walk (`create-bom.use-case.ts:113`) reads one item after another outside a
  transaction, and of two versions that close a loop by turns it may read each product
  when the other's is active. `CheckedRecipesEnd` speaks of versions active throughout.
* "Never overwritten" (`sync-fx-rates.use-case.ts:44`) does not hold of a manual rate
  entered between the sync's look and its upsert (`raced` of `Rates`).
* "Terminal states never transition again" (`pdpa-request.ts:83`) does not hold of two
  answers that overlap (`together`); a contact added during an erasure survives it;
  records of consent of one instant are told apart by their random identifier.
* One failing group ends a reorder sweep; the rules after it wait for the next.
* A client that repeats a progress report whose answer was lost adds its quantity
  twice: reports carry no key.

## Proofs

`Outbox_proofs` proves `TypeCorrect`, `DeliveredSafe` and `AttemptsSafe` for any
rows, replicas, cap and batch size, from the assumptions named in `Outbox`. The
inductive invariant is in terms of one row and one claim: a claim in hand has
fewer attempts than the cap, an answer "sent" means LINE has the row, a DELIVERED
row was accepted and a row that may be pushed has attempts left. `DeliveredWasAccepted`
alone is not inductive: it needs what a worker remembers between answer and write.

Its section on leases proves `LeasesSafe` (`LeaseIsExclusive`) and the action property
`DeliveredFinal` (`DeliveredIsFinalUnlessOvertaken`). `LeaseIsExclusive` is not
inductive: a row held once and PENDING could be leased again. `LeaseInv` says that a
fresh lease is on a row IN_FLIGHT, that a row has at most as many holders as times it
was `overtaken`, one more while its lease is fresh, and that a tick has one copy of a
row (`OneClaimEach`: else a replica would go on holding what it has settled). Taking
a lease adds a holder and a fresh lease together, every outcome removes both, the
ageing of a lease under a holder and a write that commits and throws move the one
from the lease to `overtaken`, and a lost tick only removes holders. A DELIVERED row
that was never overtaken then has no holder, so no tick is left to write over it. The holders of a row are finite because each was
added by a step; nothing is assumed of `Replicas`.

`Production_proofs` proves `TypeCorrect`, `ApproversSafe`, `AuditTrailSafe`,
`ProducedSafe`, `KeysSafe` and `Refinement` for any orders, users, amounts,
tolerances and calls. The argument is optimistic locking: the invariant
`CopiesAreCurrent` says that a copy is never ahead of its row and that a copy with
the row's version *is* the row (with the reports it counted, if they are read).
So every commit is a command on the current order, and the other conjuncts, which
speak of rows only, follow from what one command does. None of the properties is
inductive without it. The refinement maps `order[id]` to the order in the row and
`log` to the outbox; creates and commits are steps of `OrderLifecycle`, reads and
failures stutter.

`StockLedger_proofs` proves `BalancesSafe`, that is `BalanceIsItsMovements` for any
balances, documents, lines and overlapping calls. The invariant relates the three
places a balance is in: what a transaction has written extends the committed row by
its own movements and has a later version (`WritesExtend`), at most one transaction
has written a row (`OneWriter`), and a copy in a plan of `reserve` is never ahead of
the committed row, and is that row if it has its version (`SeenIsCurrent`). The last
part is why saving an old copy loses nothing: past the version check the copy is
what the transaction sees. Then a posting adds to one row what it adds to one
movement (`SaveKeepsRows`), and a commit replaces the row under everybody else's
older copies. `BalanceIsItsMovements` alone says nothing about uncommitted rows or
copies.

It also proves `TypeCorrect` and `ReservationsSafe`, that is
`ReservationsHoldTogether`, for the same parameters. Balances check a version and
holds do not, they are saved by id from whatever copy a call has; so the row of a
hold may go back to an older state, and the property alone is not inductive. The
invariant (`ReservedInv`) says that what a balance reserves can be divided among its
holds so that each gets at least what it claims in its row *and in every copy some
call may still save* (`CommittedBacked`, and `WrittenBacked` for what a transaction
has written); that it is divided exactly until a stale save disturbed it
(`CommittedEqual`, `WrittenEqual`); and that a transaction which has written a hold
has written its balance, so that the two commit together (`WrittenHold`).

`Sales_proofs` proves `QuotationsSafe`, that is `QuotationsHoldTogether` for any
quotation numbers, revisions, orders, notes and calls. The invariant adds to it
what calls remember: a call about to revise looks at a quotation that is no draft
and stays none (`CallsInv`), and a link is checked again in the transaction
that writes it, which is why a stale conversion links nothing twice. The statement
"the revision before exists" is not inductive, because a new revision must not
meet a draft further back; the invariant (`Revisions`) says that *every* earlier revision
exists and is no draft, which needs no induction over revisions.

It also proves `AdjustmentsSafe`, that is `AdjustedAsApproved` for any sheets,
transfers, movements and orders beside them, and `QuotationsSafeBesideStock`, that
what holds of quotations holds in the composition too. A posted sheet alone says
nothing about how it came to be posted: the invariant `SheetSafe` adds that the
request of a sheet under review is for the sheet's present variance, or was made
through the approval API. Counting again changes the variance, but only outside
REVIEW, and the way back into REVIEW asks again.

Of the same composition it proves `TypeCorrect`, `DeliveriesSafe`, `CreditSafe` and
`StockSafelyFollows`, that is `TypeOK`, `DeliveriesHoldTogether`, `CreditIsWatched`
and `StockFollowsDocuments`, for any stock, credit limit, orders, notes, sheets,
transfers and calls. Their invariant is `SaleInv`:

* `HoldSafe` and `HeldIsThere`: an order that is confirmed holds at least what it
  still owes unless its hold was released by hand, one that is not or no longer holds
  nothing (a cancelled one may, or one that was reserved for by hand), and
  what all of them hold is on hand. The two are needed together to know that no
  balance goes negative: a note takes from the hold of its order first, and only what
  is beyond it is compared with what is available.
* `DeliverySafe`: `delivered` is the sum of the shipped notes, also of an order that
  is not there yet; otherwise a note drafted before could have been counted.
* `BackedSafe`: an order that waits for approval was not approved at once by nobody.
  `CreditIsWatched` speaks of confirmed orders only and is not inductive: confirming
  keeps the request as it is *then*, which says nothing unless the waiting order's
  request is known to come from people or from the approval API.
* `WithinLimit`: a submission compares a sum it read earlier. Unless it was recorded
  as too small (`raced`) it is at least what the unwatched orders add up to
  (`ExposureCovers`), so what passes keeps them within the limit.
* `StockSafe`: stock, less what was there at first, is the sum of four tables and a
  history variable. Every step changes one weight of one table and the stock by the
  same (`PaperMoves`, `ShipSteps`), and a sheet or transfer never leaves POSTED or
  RECEIVED, so that nothing is taken out again.

The proofs take it that orders, notes, sheets and transfers are finitely many
(`SalesAssumption`, `StocktakeAssumption`).

`ApprovalRequest_proofs` proves `TypeCorrect`, `ApprovedSafe`, `RejectedSafe` and
`RequestsSafe` for any users, chains of steps, requests and overlapping calls. Saves
of this repository check no version, so a copy need not be the row any more, and a
torn copy never was it; what nothing undoes is a decision, because decisions are only
ever inserted. The invariant (`RowOk`, `CallOk`) therefore measures the header of a
row *and* of a copy by the decisions stored by now: the steps it has passed have
their approvals among them (`Passed`), each by or for a holder of the step's role who
is not the requester (`Counts`). That carries `ApprovedIsBacked` through torn reads;
header and steps tell one story (`Story`) only in rows no torn copy was saved to and in
whole copies. A call that was loaded knows every decision of its own user but those
of overlapping calls (`Twins`). A
rejection that was overwritten in the header is still a stored decision, and its
resolution has taken the idempotency key that an approval ending the request would need
(`RejectHasKey`): that is the whole reason why `RejectedNeverApproved` holds, and
why it needs the key in the invariant. The proof takes it that there are
requests, documents and users (`SomebodyAssumption`).

`SumLemmas` is about `SumFunction` of the community modules, by which every
property here adds rows up: a sum over a finite set without one member, over two
disjoint sets, of zeros, between bounds, and the same sum of two functions that
agree. `SumFunction` is a fold, so the facts rest on its recursion over subsets
(`SumIter`, `SumUnique`, `SumExists`: a set minimal by inclusion replaces the
induction theorems, which take an operator); everything else cites `SumWithout` and
`OneRow`, "a sum changes by what the one row that changed weighs".

`Receivable_proofs` proves `TypeCorrect`, `SettlementsSafe`, `DocumentsSafe`,
`BilledSafe` and `YearCleared`, that is everything `MCReceivable` checks of an
invariant, for any invoices, receipts, callers, periods, amounts and manual
entries. The inductive invariant `Inv` ties a row to its sums and to its entries:

* `Settlements`: a row's `settled` is what posted receipts and notes settle of it,
  and its status says how much that is (`RowSound`); an allocation names an invoice
  that exists. `SettlementsHoldTogether` alone does not say that `PAID` means settled
  in full, without which a receipt posted on a paid invoice would not be refused.
* `Documents`: the entries under a document's two keys are none, one posted, or a
  reversed one with its mirror (`LedgerSays`). The sum in `EntriesMatchDocuments`
  cannot tell one posted entry from three, the invariant can. An entry reversed by
  hand takes its document out for good, because the one row without a key is then
  taken.
* `Billing`: what is billed, with what *each* call is about to bill, was delivered,
  unless two calls met; the call in hand is what makes it inductive.
* `YearInv`: after a close that ran alone no call is left that could post past the
  gate, so the sum over the result accounts stays zero.

It also proves `ClosedFinal`, that is `ClosedIsFinal`, an action property.
The fiscal year has no version and a save writes what its call computed; the
invariant (`LoadedOpen`) is that a call with a year in hand loaded it open, since
neither `Transition` nor `Close` computes on a closed one. The proofs take it that
"year-end" is not the id of a document (`LedgerAssumption`): the key of the closing
entry is made of it, ids are UUIDs.

`Payable_proofs` proves `TypeCorrect`, `PurchasesSafe`, `PaymentsSafe` and
`DocumentsSafe`, that is everything `MCPayable` checks, for any requisitions, orders,
receipts, invoices, vouchers, batches, sweeps, callers, periods and amounts. There
are two invariants, the second proved with the help of the first.

`Inv` relates one document to what it depends on. `OrderedIsApproved` needs that a
document waiting for its answer was asked about for what it says (`Asked`), which
editing would break were it possible outside DRAFT, and that orders and requisitions
name each other (`Linked`). `ReorderedOnce` needs where a rule may be while it is on
order (`RuleSafe`): a sweep that still may raise it, or two sweeps that have it, are
excused, and otherwise it is quiet or about to be marked. Batches and certificates
go by one voucher and its batch at a time (`InItsBatch`, `Certified`).

`Books` adds the sums:

* `Settlements`: what is settled of an invoice is the sum over posted vouchers, with
  the status that goes with it (`RowSound`). Posting a batch adds the sum over its
  drafts (`PaidMore`), voiding takes one voucher out of it again (`PaidLess`).
* `Receiving`: the column `received` of an order, which the next receipt is checked
  against, is the sum of its posted receipts and never more than its quantity. An
  order of which anything is received can no longer be reopened and edited.
* `Matching`: what matched invoices bill of an order, with what *each* capture under
  way on one line has found to match, is within what was received, unless one reading
  was billed twice (`rebilled`). The match is kept from the capture, so the capture is what makes it
  inductive; a receipt posted meanwhile only adds.
* `Documents`: as for receivables, an invoice or voucher has no entry, one posted, or
  a reversed one with its mirror. Posting lines of zero
  leaves no entry, so none is as good as one where the document says 0.

The proofs take it that there are finitely many documents and goods receipts, and
that no requisition is the value that stands for none (`PayableAssumption`,
`LedgerAssumption`, `ProcurementAssumption`, `NoDocAssumption`).

Of master data, `Production_proofs` proves `PartnersSafe`, `RecipesSafe`, `TermsSafe`,
`CatalogueSafe` and the action property `FiguresMoveSafe`, for any number of rows,
clerks, currencies, depths and overlapping calls. The theorems are about `MasterSpec`,
in which every part may step; the run moves one scope of it at a time. Each part has an
inductive invariant of its own, and `EachPartSteps` says that a step of one part is a
stutter of the rest, so that `MasterInv`, their conjunction, is inductive too. There is
no version to rely on: what carries these invariants is *what a caller has read and what
of it is still true when it writes*.

* `PartnerInv`: an answer in progress is to a request that is still PENDING, or to one
  noted as answered twice together (`AnswersAreFresh`); it found contacts of the
  requester, which never go away. `SeenIsErased` says that what was seen is blank
  *whatever the status says by now*: a late rejection overwrites COMPLETED and a late
  fulfilment writes it again, while `ErasureIsDone` speaks of COMPLETED only. Consent
  asks that the sorted log end in the record `LatestRecord` picks: records are ordered by
  instant and identifier, a strict order (`LogIsOrdered`), and what sorts a set by it has
  the greatest at the end (`SortExists`, `SortIsOnto`, `LatestIsLast`).
* `BomInv`: at most one version of an item is active and one that ever was made from one
  still is; the two halves of `OneRecipe`; both are kept because an activation makes its version
  active in the step that retires the others, and the filtered index refuses it where a
  version activated meanwhile was not read. The check is a walk of many
  steps: `Looked` has a set of items that holds what the walk has seen, not the product,
  and what its members are made of by the versions in `known`, but for what is still in
  the queue. A read adds its item (`WalkedOn`); an activation in between only takes from
  `known` the versions it retires (`ReadsStay`), and components never change. With an
  empty queue the set is closed and holds the components (`CheckedEnds`, `Ends`).
  `CheckedRecipesEnd` iterates a function, which `EndsIsChecked` bounds by that set.
* `PriceInv`: lines are of lists that exist. The work is in `Before`, a comparison with
  four keys: it is a total order on lines (`BeforeIsBeats`: lexicographic in numbers),
  the least line is one and the customer's own is before the others
  (`OnePriceHolds`, `OwnPriceHolds`), and a line that is not eligible, or comes after the
  least, leaves the answer as it was (`PricesMove`).
* `RatesInv`: a rate by hand that no sync overtook is in its row *and no sync is about to
  write there* (`EntriesKept`); a kind of tax has one default and an override is of its
  kind. The rest is arithmetic: rounded division is within a half (`RoundDivIsNear`), so
  that scaling up and back returns an amount (`RoundTrip`), and the tax on a base
  is what was split out of the gross amount, to a unit (`SplitAgrees`). These are for any scale and any number of
  basis points, while the run tries a scale of 2.
* `CatalogueInv`: a node with a parent has the parent's path and one more
  (`NodesStand`), a path names one node, and so does what each call is about to insert.
  `TreesAgree` counts ancestors over the whole tree: `PrefixesAreNodes` goes up from a node one
  level at a time, and `AncestorsAreCounted` is a bijection between ancestors and levels.
  An import answers for the rows it adds, and no row has the mark of an import that has not
  answered (`ItemsAnswered`, `FilingsStand`).

Induction over numbers, which the provers cannot take from the library, is derived once
from "a set of numbers has a least one" (`LeastNumber`, `IntervalInduction`), with the set
in place of the predicate; chains and sorted sequences are built from it (`ChainExists`,
`LastExists`, `SortExists`).

The theorems take no assumption on constants beyond those named in the modules,
which TLC evaluates in every run. Those of master data say that a value which stands for
none is no owner, item, customer, currency or name, that identifiers the code compares
are numbers, that there are finitely many items and consents, and that scales are
positive. Bounds such as `MaxBomVersion` or `MaxPrice` are any numbers at all.

Every invariant and every action property of a passing run is stated by a theorem. Only
model-checked: `EveryRowSettles`, since liveness under fairness is out of the provers'
reach.

## Not modelled

* Approval policies: a request's steps are the constant `Chains`. Replacing the
  active policy is two awaited writes without a transaction (hazard listed), and
  nothing but the matching of one policy reads them.
* Cost layers, average cost, serials and the creation of lots in the stock ledger;
  expiry alerts, which read and enqueue.
* The explosion of a BOM into quantities (`bill-of-materials.ts`), a pure sum over
  the versions `BillOfMaterials` shows to end.
* Document numbers (`doc_sequence`): a number is a fresh model value. The first two
  of a month may collide on the insert of the sequence and one call then fails.
* The events of quotations and orders, rows of the outbox written with the document;
  `Outbox` is about what becomes of them.
* HTTP, authentication and CASL, DTOs and validation, formatting, logging, health
  checks, reports, aging and forecasts (they only read), the seed. Tenants: R10 puts
  the tenant in every query, and a model is of one tenant.

## Plan

What is left, in order of importance.

1. FIFO layers and average cost (saved by id, without version) and serials in the
   stock ledger; an abstract ledger of sums that `StockLedger` implements as long
   as it is not disturbed, and under which `SalesOrder` may then be composed.
2. Approval policies beside `ApprovalRequest`, and one request table under the
   modules that keep requests of their own now (`SalesOrder`, `Procurement`,
   `Stocktake`, `GeneralLedger`).
