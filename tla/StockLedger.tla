---------------------------- MODULE StockLedger ----------------------------
(***************************************************************************)
(* The stock ledger of one warehouse (src/src/modules/inventory).          *)
(*                                                                         *)
(* A call of StockLedgerService runs in its caller's transaction: it lists *)
(* the holds (ACTIVE reservations) of its document, plans each line from   *)
(* the balances it reads, and posts one allocation after the other.  A     *)
(* balance is saved if its version is still the one that was read; a hold  *)
(* is saved by id.  Nothing of this is visible to others before the        *)
(* commit, and what a transaction has written stays locked until it ends.  *)
(*                                                                         *)
(* Planning a line is a step, and so is posting an allocation: the read    *)
(* and the save of one allocation are one step, since a balance that is    *)
(* changed in between makes the save fail, which Abort allows anyway.      *)
(* Abort stands for every way a call may fail: a guard of applyMovement,   *)
(* a version conflict, a deadlock of the database, a timeout, a crash.     *)
(***************************************************************************)
EXTENDS Integers, Sequences, FiniteSetsExt

CONSTANTS
  Balances,     \* (item, lot) keys of inv_stock_balance
  Documents,    \* documents that hold stock
  Calls,        \* calls of the service that may overlap
  Opening,      \* Opening[b]: what was received before the first call
  LineLists,    \* outbound lines of a call; a line may draw on some balances
  ReceiptLists, \* inbound lines of a call
  MaxVersion,   \* bound: balance b is not saved beyond MaxVersion[b]
  MaxHolds,     \* bound: reservations that are ever created
  NoDocument,   \* a call or an unused reservation that is no document's
  NoRow         \* "not written by this transaction", "not read"

\* from: the balances the line may draw on (its lot, or all lots of its item),
\* earliest expiry first.
Line == [from : Seq(Balances), qty : Nat \ {0}]
Receipt == [bal : Balances, qty : Nat \ {0}]

ASSUME BalancesAssumption == Balances # {}
ASSUME OpeningAssumption == Opening \in [Balances -> Nat]
ASSUME LinesAssumption == LineLists \subseteq Seq(Line) \ {<<>>}
ASSUME ReceiptsAssumption == ReceiptLists \subseteq Seq(Receipt) \ {<<>>}
ASSUME BoundsAssumption == MaxVersion \in [Balances -> Nat] /\ MaxHolds \in Nat

HoldIds == 1 .. MaxHolds

Row == [onHand : Nat, reserved : Nat, version : Nat]

\* FREE: the reservation has not been created.
HoldStatus == {"FREE", "ACTIVE", "RELEASED", "CONSUMED"}
Hold == [doc : Documents \union {NoDocument}, bal : Balances, qty : Nat, status : HoldStatus]

ASSUME NoRowAssumption == NoRow \notin Row \union Hold

\* One allocation of a plan. left: lines that were still to plan when its own
\* was; mine: what the document holds on the balance (reservedByDoc); seen: the
\* balance as it was planned on, which reserve saves.
Allocation == [left : Nat, bal : Balances, qty : Nat \ {0}, mine : Nat,
               seen : Row \union {NoRow}]

\* ISSUE consumes the holds of its document, TAKE (manual issue, adjustment,
\* transfer out) does not.
Op == {"RECEIVE", "ISSUE", "TAKE", "RESERVE", "RELEASE"}
Outbound == {"ISSUE", "TAKE"}

VARIABLES
  balance,   \* committed balances
  hold,      \* committed reservations
  net,       \* net[b]: sum of the committed movements of b (inv_stock_movement)
  call,      \* what each call remembers
  row,       \* row[c][b]: what c has written of b and not committed
  holdRow,   \* the same of reservations
  moved,     \* moved[c][b]: sum of the uncommitted movements of c
  disturbed  \* some committed call wrote a hold it no longer knew, or took
             \* more reserved stock off a balance than its document held

vars == <<balance, hold, net, call, row, holdRow, moved, disturbed>>
written == <<row, holdRow, moved>>
committed == <<balance, hold, net, disturbed>>

Call == [phase  : {"IDLE", "PLANNING", "POSTING"},
         op     : Op,
         doc    : Documents \union {NoDocument},
         lines  : Seq(Line),          \* not planned yet
         listed : [HoldIds -> Hold \union {NoRow}],  \* as listActive found them
         plan   : SUBSET Allocation,  \* not posted yet
         astray : BOOLEAN]            \* the commit will disturb

Nothing == [b \in Balances |-> 0]
NoHolds == [h \in HoldIds |-> NoRow]

IdleCall == [phase |-> "IDLE", op |-> "RECEIVE",
             doc |-> NoDocument,
             lines |-> <<>>, listed |-> NoHolds, plan |-> {},
             astray |-> FALSE]

FreeHold == [doc |-> NoDocument,
             bal |-> CHOOSE b \in Balances : TRUE,
             qty |-> 0, status |-> "FREE"]

UnwrittenRows == [b \in Balances |-> NoRow]

Init ==
  /\ balance = [b \in Balances |->
                  [onHand |-> Opening[b], reserved |-> 0, version |-> 1]]
  /\ hold = [h \in HoldIds |-> FreeHold]
  /\ net = Opening
  /\ call = [c \in Calls |-> IdleCall]
  /\ row = [c \in Calls |-> UnwrittenRows]
  /\ holdRow = [c \in Calls |-> NoHolds]
  /\ moved = [c \in Calls |-> Nothing]
  /\ disturbed = FALSE

-----------------------------------------------------------------------------
(* What a transaction sees, and what the others keep locked.                *)

CurrentRow(c, b) == IF row[c][b] = NoRow THEN balance[b] ELSE row[c][b]
CurrentHold(c, h) == IF holdRow[c][h] = NoRow THEN hold[h] ELSE holdRow[c][h]

RowIsFree(c, b) == \A other \in Calls \ {c} : row[other][b] = NoRow
HoldIsFree(c, h) == \A other \in Calls \ {c} : holdRow[other][h] = NoRow

\* listActive; ids stand for the order of createdAt.
\* Mutant: the filter on status is missing.
HoldsInAnyStatus(c, doc) ==
  [h \in HoldIds |-> IF CurrentHold(c, h).doc = doc
                     THEN CurrentHold(c, h) ELSE NoRow]

ActiveHolds(c, doc) ==
  [h \in HoldIds |-> IF /\ CurrentHold(c, h).doc = doc
                        /\ CurrentHold(c, h).status = "ACTIVE"
                     THEN CurrentHold(c, h) ELSE NoRow]

-----------------------------------------------------------------------------
(* Quantities.                                                              *)

AtMost(a, b) == IF a < b THEN a ELSE b
AtLeastZero(a) == IF a < 0 THEN 0 ELSE a

Total(amounts) == SumFunction(amounts)

\* take draws want from the offers, the first ones first (allocateFefo, and the
\* loop of consumeReservations).
Draws(take, offers, want) ==
  /\ \A k \in DOMAIN offers :
       /\ take[k] <= offers[k]
       /\ take[k] > 0 => \A j \in DOMAIN offers : j < k => take[j] = offers[j]
  /\ Total(take) = want

\* reservedByDoc of a candidate.
HeldBy(listed, b) ==
  SumFunction([h \in {h \in HoldIds : listed[h] # NoRow /\ listed[h].bal = b} |->
                 listed[h].qty])

\* taken: what earlier lines of the call were allocated.
Taken(plan, b) ==
  SumFunction([a \in {a \in plan : a.bal = b} |-> a.qty])

Available(c, b) ==
  AtLeastZero(balance[b].onHand - balance[b].reserved
              + HeldBy(call[c].listed, b) - Taken(call[c].plan, b))

(* applyMovement: the guards, and the balance after.                        *)

CanIssue(r, qty, consume) ==
  /\ consume \in 0 .. qty
  /\ consume <= r.reserved
  /\ r.reserved - consume <= r.onHand - qty


AfterIssue(r, qty, consume) ==
  [onHand |-> r.onHand - qty, reserved |-> r.reserved - consume,
   version |-> r.version + 1]

CanReserve(r, qty) == qty <= r.onHand - r.reserved

AfterReserve(r, qty) ==
  [onHand |-> r.onHand, reserved |-> r.reserved + qty,
   version |-> r.version + 1]

\* Mutant: the last guard against releasing what is not reserved is dropped.
CanUnreserveAnything(r, qty) == TRUE

CanUnreserve(r, qty) == qty <= r.reserved

AfterUnreserve(r, qty) ==
  [onHand |-> r.onHand, reserved |-> r.reserved - qty,
   version |-> r.version + 1]

AfterReceipt(r, qty) ==
  [onHand |-> r.onHand + qty, reserved |-> r.reserved,
   version |-> r.version + 1]

\* Mutant: the balance is saved by id.
SavesAnyVersion(r, seen) == TRUE

\* where: { version: b.version } of the balance repository's save.
SavesVersion(r, seen) == r.version = seen.version

-----------------------------------------------------------------------------
(* Beginning a call.                                                        *)

Begin(c, op, doc, phase, lines, listed, plan) ==
  /\ call[c].phase = "IDLE"
  /\ call' = [call EXCEPT ![c] =
       [phase |-> phase, op |-> op, doc |-> doc, lines |-> lines,
        listed |-> listed, plan |-> plan, astray |-> FALSE]]
  /\ UNCHANGED <<committed, written>>

BeginReceive(c) ==
  \E lines \in ReceiptLists :
    Begin(c, "RECEIVE", NoDocument, "POSTING", <<>>, NoHolds,
          {[left |-> Len(lines) - i, bal |-> lines[i].bal,
            qty |-> lines[i].qty, mine |-> 0, seen |-> NoRow]
           : i \in DOMAIN lines})

\* A delivery note ships under the order's versioned row: of two that overlap
\* only one commits, so one document has at most one ISSUE under way.
BeginIssue(c, doc) ==
  /\ \A other \in Calls :
       ~ (call[other].phase # "IDLE" /\ call[other].doc = doc
          /\ call[other].op = "ISSUE")
  /\ \E lines \in LineLists :
       Begin(c, "ISSUE", doc, "PLANNING", lines, ActiveHolds(c, doc), {})

BeginTake(c) ==
  \E lines \in LineLists :
    Begin(c, "TAKE", NoDocument, "PLANNING", lines, NoHolds, {})

BeginReserve(c, doc) ==
  \E lines \in LineLists :
    Begin(c, "RESERVE", doc, "PLANNING", lines, NoHolds, {})

BeginRelease(c, doc) ==
  Begin(c, "RELEASE", doc, "POSTING", <<>>, ActiveHolds(c, doc), {})

-----------------------------------------------------------------------------
(* planOutbound: the next line, from the balances as they are now.          *)

Offers(c, line) == [k \in DOMAIN line.from |-> Available(c, line.from[k])]

PlanLine(c) ==
  /\ call[c].phase = "PLANNING"
  /\ LET line == Head(call[c].lines)
         rest == Tail(call[c].lines)
     IN \E take \in [DOMAIN line.from -> 0 .. line.qty] :
          /\ Draws(take, Offers(c, line), line.qty)
          /\ call' = [call EXCEPT
               ![c].lines = rest,
               ![c].phase = IF rest = <<>> THEN "POSTING" ELSE @,
               ![c].plan = @ \union
                 {[left |-> Len(rest), bal |-> line.from[k], qty |-> take[k],
                   mine |-> HeldBy(call[c].listed, line.from[k]),
                   seen |-> IF call[c].op = "RESERVE"
                            THEN balance[line.from[k]] ELSE NoRow]
                  : k \in {j \in DOMAIN line.from : take[j] > 0}}]
  /\ UNCHANGED <<committed, written>>

\* One line short is enough to end the call: nothing has been written. (The
\* code reads on, only to report all shortages at once.)
Shortage(c) ==
  /\ call[c].phase = "PLANNING"
  /\ LET line == Head(call[c].lines)
     IN Total(Offers(c, line)) < line.qty
  /\ call' = [call EXCEPT ![c] = IdleCall]
  /\ UNCHANGED <<committed, written>>

-----------------------------------------------------------------------------
(* Posting.                                                                 *)

SaveRow(c, b, r) ==
  /\ RowIsFree(c, b)
  /\ r.version <= MaxVersion[b]
  /\ row' = [row EXCEPT ![c][b] = r]

Posting(c, ops) == call[c].phase = "POSTING" /\ call[c].op \in ops

\* Line by line; the order of the lots within a line is left open.
NextAllocations(c) ==
  {a \in call[c].plan : \A other \in call[c].plan : other.left <= a.left}

PostReceive(c) ==
  /\ Posting(c, {"RECEIVE"})
  /\ \E a \in NextAllocations(c) :
       /\ SaveRow(c, a.bal, AfterReceipt(CurrentRow(c, a.bal), a.qty))
       /\ moved' = [moved EXCEPT ![c][a.bal] = @ + a.qty]
       /\ call' = [call EXCEPT ![c].plan = @ \ {a}]
  /\ UNCHANGED <<committed, holdRow>>

\* What consumeReservations may take off each listed hold.
Consumable(listed, b) ==
  [h \in HoldIds |->
     IF listed[h] # NoRow /\ listed[h].bal = b THEN listed[h].qty ELSE 0]

AfterConsumption(h, take) ==
  [h EXCEPT !.qty = @ - take,
            !.status = IF h.qty = take THEN "CONSUMED" ELSE @]

\* postOutbound reads the balance anew; the holds are those listed at first.
PostOutbound(c) ==
  /\ Posting(c, Outbound)
  /\ \E a \in NextAllocations(c) :
       LET r == CurrentRow(c, a.bal)
           consume == AtMost(a.mine, a.qty)
           listed == call[c].listed
           offers == Consumable(listed, a.bal)
       IN /\ CanIssue(r, a.qty, consume)
          /\ SaveRow(c, a.bal, AfterIssue(r, a.qty, consume))
          /\ moved' = [moved EXCEPT ![c][a.bal] = @ - a.qty]
          /\ \E take \in [HoldIds -> 0 .. consume] :
               LET touched == {h \in HoldIds : take[h] > 0}
               IN /\ Draws(take, offers, AtMost(consume, Total(offers)))
                  /\ \A h \in touched : HoldIsFree(c, h)
                  /\ holdRow' = [holdRow EXCEPT ![c] =
                       [h \in HoldIds |-> IF h \in touched
                          THEN AfterConsumption(listed[h], take[h])
                          ELSE holdRow[c][h]]]
                  /\ call' = [call EXCEPT
                       ![c].plan = @ \ {a},
                       ![c].listed = [h \in HoldIds |-> IF h \in touched
                          THEN AfterConsumption(listed[h], take[h])
                          ELSE listed[h]],
                       ![c].astray =
                         \/ @
                         \/ Total(offers) < consume
                         \/ \E h \in touched : CurrentHold(c, h) # listed[h]]
  /\ UNCHANGED committed

\* The id randomUUID draws: one no transaction has used.
UnusedHold(h) ==
  hold[h].status = "FREE" /\ \A c \in Calls : holdRow[c][h] = NoRow

\* reserve saves the balance of its plan, not a new read.
PostReserve(c) ==
  /\ Posting(c, {"RESERVE"})
  /\ \E a \in NextAllocations(c) :
       /\ CanReserve(a.seen, a.qty)
       /\ SavesVersion(CurrentRow(c, a.bal), a.seen)
       /\ SaveRow(c, a.bal, AfterReserve(a.seen, a.qty))
       /\ \E h \in HoldIds :
            /\ UnusedHold(h)
            /\ \A g \in HoldIds : UnusedHold(g) => h <= g
            /\ holdRow' = [holdRow EXCEPT ![c][h] =
                 [doc |-> call[c].doc, bal |-> a.bal, qty |-> a.qty,
                  status |-> "ACTIVE"]]
       /\ call' = [call EXCEPT ![c].plan = @ \ {a}]
  /\ UNCHANGED <<committed, moved>>

\* The next hold in the order they were listed.
FirstListed(c, h) ==
  /\ call[c].listed[h] # NoRow
  /\ \A g \in HoldIds : g < h => call[c].listed[g] = NoRow

PostRelease(c) ==
  /\ Posting(c, {"RELEASE"})
  /\ \E h \in HoldIds :
       /\ FirstListed(c, h)
       /\ LET listed == call[c].listed[h]
              r == CurrentRow(c, listed.bal)
          IN /\ CanUnreserve(r, listed.qty)
             /\ SaveRow(c, listed.bal, AfterUnreserve(r, listed.qty))
             /\ HoldIsFree(c, h)
             /\ holdRow' = [holdRow EXCEPT ![c][h] =
                  [listed EXCEPT !.status = "RELEASED"]]
             /\ call' = [call EXCEPT
                  ![c].listed[h] = NoRow,
                  ![c].astray = @ \/ CurrentHold(c, h) # listed]
  /\ UNCHANGED <<committed, moved>>

\* The note that completes an order releases what is left of its holds, in
\* the transaction of the issue.
ReleaseRest(c) ==
  /\ Posting(c, {"ISSUE"})
  /\ call[c].plan = {}
  /\ call' = [call EXCEPT ![c].op = "RELEASE",
                          ![c].listed = ActiveHolds(c, call[c].doc)]
  /\ UNCHANGED <<committed, written>>

-----------------------------------------------------------------------------
(* The end of the transaction.                                              *)

End(c) ==
  /\ call' = [call EXCEPT ![c] = IdleCall]
  /\ row' = [row EXCEPT ![c] = UnwrittenRows]
  /\ holdRow' = [holdRow EXCEPT ![c] = NoHolds]
  /\ moved' = [moved EXCEPT ![c] = Nothing]

Commit(c) ==
  /\ Posting(c, Op)
  /\ call[c].plan = {}
  /\ call[c].op = "RELEASE" => call[c].listed = NoHolds
  /\ balance' = [b \in Balances |-> CurrentRow(c, b)]
  /\ hold' = [h \in HoldIds |-> CurrentHold(c, h)]
  /\ net' = [b \in Balances |-> net[b] + moved[c][b]]
  /\ disturbed' = (disturbed \/ call[c].astray)
  /\ End(c)

Abort(c) ==
  /\ call[c].phase # "IDLE"
  /\ End(c)
  /\ UNCHANGED committed

Next ==
  \E c \in Calls :
    \/ BeginReceive(c)
    \/ BeginTake(c)
    \/ \E doc \in Documents : \/ BeginIssue(c, doc)
                              \/ BeginReserve(c, doc)
                              \/ BeginRelease(c, doc)
    \/ PlanLine(c)
    \/ Shortage(c)
    \/ PostReceive(c)
    \/ PostOutbound(c)
    \/ PostReserve(c)
    \/ PostRelease(c)
    \/ ReleaseRest(c)
    \/ Commit(c)
    \/ Abort(c)

Spec == Init /\ [][Next]_vars

-----------------------------------------------------------------------------
(* Properties.                                                              *)

\* The types; that no quantity of a balance goes below zero is part of them.
TypeOK ==
  /\ balance \in [Balances -> Row]
  /\ hold \in [HoldIds -> Hold]
  /\ net \in [Balances -> Int]
  /\ call \in [Calls -> Call]
  /\ row \in [Calls -> [Balances -> Row \union {NoRow}]]
  /\ holdRow \in [Calls -> [HoldIds -> Hold \union {NoRow}]]
  /\ moved \in [Calls -> [Balances -> Int]]
  /\ disturbed \in BOOLEAN

\* The balance is the projection of the append-only movements, and no more of
\* it is reserved than is there: no save of a call that planned on an older
\* balance loses what another call posted (docs/state-machine.md:169-173).
BalanceIsItsMovements ==
  \A b \in Balances :
    /\ balance[b].onHand = net[b]
    /\ balance[b].reserved <= balance[b].onHand

ActiveOn(b) ==
  SumFunction([h \in {h \in HoldIds : hold[h].bal = b /\ hold[h].status = "ACTIVE"} |->
                 hold[h].qty])

\* Whatever releases, issues and reserves overlap, no stock is withheld that
\* no document holds: stock counted as reserved always has a reservation that
\* can still be released or consumed.
NothingReservedForNobody ==
  \A b \in Balances : balance[b].reserved <= ActiveOn(b)

\* The reserved quantity of a balance is the sum of the ACTIVE reservations on
\* it, unless a call committed that wrote a reservation somebody else had
\* changed since it was listed, or whose lines consumed one hold twice.
ReservedIsTheHolds ==
  ~ disturbed => \A b \in Balances : balance[b].reserved = ActiveOn(b)

\* Reserved stock and reservations agree.
ReservationsHoldTogether == NothingReservedForNobody /\ ReservedIsTheHolds

\* "Reservations never exceed on-hand" (stock-ledger.service.ts:112), so that
\* a document can issue what it reserved (docs/state-machine.md:174-176).
HoldsAreBacked ==
  \A b \in Balances : ActiveOn(b) <= balance[b].onHand

\* A save of reserve that will be refused as "modified concurrently"
\* (domain/errors.ts:70) is refused because another call changed the balance.
ConflictMeansAnotherWriter ==
  \A c \in Calls : Posting(c, {"RESERVE"}) =>
    \A a \in NextAllocations(c) :
      CurrentRow(c, a.bal).version # a.seen.version
        => balance[a.bal].version # a.seen.version
=============================================================================
