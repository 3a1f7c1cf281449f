------------------------- MODULE StockLedger_proofs -------------------------
(***************************************************************************)
(* Proofs about StockLedger, for any balances, documents, lines and        *)
(* overlapping calls: the types; that the balances are the sum of their    *)
(* movements and never have more reserved than is there; and that reserved *)
(* stock and reservations agree.                                           *)
(*                                                                         *)
(* Two facts carry the balances.  A row a transaction has written is       *)
(* locked, so the committed row underneath does not move before the        *)
(* commit.  And reserve, which saves the copy of its plan, gets past the   *)
(* version check only while that copy is the committed row.                *)
(*                                                                         *)
(* The reservations are harder: a call saves a hold by id, from the copy   *)
(* it listed at first, and another call may have released, consumed or     *)
(* even resurrected the hold since.  What survives is that the reserved    *)
(* quantity of a balance can be split over the holds on it so that no hold *)
(* is charged with more than it has in any copy: not in the table, and not *)
(* in the memory of a call that may still save it.  A stale save then      *)
(* lowers the reserved quantity by no less than the hold's share.          *)
(***************************************************************************)
EXTENDS StockLedger, SumLemmas

\* A call that plans has a line to plan.
CallShape(k) ==
  /\ k \in Call
  /\ k.phase = "PLANNING" => k.lines # <<>>

CallsInv ==
  /\ call \in [Calls -> Call]
  /\ \A c \in Calls : CallShape(call[c])

HoldsInv ==
  /\ hold \in [HoldIds -> Hold]
  /\ holdRow \in [Calls -> [HoldIds -> Hold \union {NoRow}]]

TablesInv ==
  /\ balance \in [Balances -> Row]
  /\ net \in [Balances -> Int]
  /\ row \in [Calls -> [Balances -> Row \union {NoRow}]]
  /\ moved \in [Calls -> [Balances -> Int]]

\* What a transaction has written of b extends the committed row by its own
\* movements, under a later version.
WritesExtend(c, b) ==
  IF row[c][b] = NoRow
  THEN moved[c][b] = 0
  ELSE /\ row[c][b].onHand = net[b] + moved[c][b]
       /\ row[c][b].reserved <= row[c][b].onHand
       /\ row[c][b].version > balance[b].version

OneWriter ==
  \A b \in Balances : \A c, d \in Calls :
    row[c][b] # NoRow /\ row[d][b] # NoRow => c = d

RowsInv ==
  /\ TablesInv
  /\ BalanceIsItsMovements
  /\ \A c \in Calls, b \in Balances : WritesExtend(c, b)
  /\ OneWriter

\* A plan of reserve is never ahead of the balance, and a copy with the
\* balance's version is the balance.
SeenIsCurrent(a) ==
  /\ a.seen \in Row
  /\ a.seen.version <= balance[a.bal].version
  /\ a.seen.version = balance[a.bal].version => a.seen = balance[a.bal]

SeenInv ==
  \A c \in Calls : call[c].op = "RESERVE" =>
    \A a \in call[c].plan : SeenIsCurrent(a)

\* The invariant of the balances.
Inv == CallsInv /\ HoldsInv /\ RowsInv /\ SeenInv

\* What a reservation withholds of b.
Weight(v, b) == IF v.bal = b /\ v.status = "ACTIVE" THEN v.qty ELSE 0
\* What the holds hs withhold of b; the holds as c sees them.
HeldOn(hs, b) == SumFunction([h \in HoldIds |-> Weight(hs[h], b)])
SeenHolds(c) == [h \in HoldIds |-> CurrentHold(c, h)]

\* Nothing is written before the first posting.
NothingWrittenYet(c) ==
  call[c].phase # "POSTING" =>
    /\ \A b \in Balances : row[c][b] = NoRow
    /\ \A h \in HoldIds : holdRow[c][h] = NoRow

\* A hold is written together with its balance, by one call, and stays on that
\* balance; only reserve writes one that did not exist.
WrittenHold(c, h) ==
  holdRow[c][h] # NoRow =>
    /\ holdRow[c][h].status # "FREE"
    /\ row[c][holdRow[c][h].bal] # NoRow
    /\ hold[h].status = "FREE" \/ hold[h].bal = holdRow[c][h].bal
    /\ call[c].op # "RESERVE" => hold[h].status # "FREE"
    /\ \A d \in Calls : holdRow[d][h] # NoRow => d = c

\* A listed hold exists, and was ACTIVE or has been consumed since.
ListedHold(c, h) ==
  call[c].listed[h] # NoRow =>
    /\ hold[h].status # "FREE"
    /\ call[c].listed[h].bal = hold[h].bal
    /\ \/ call[c].listed[h].status = "ACTIVE"
       \/ call[c].listed[h].status = "CONSUMED" /\ call[c].listed[h].qty = 0

\* The reserved quantity of b is split over its holds, q[h] for h: no more than
\* the hold withholds, and no more than a call that may still save it remembers.
CommittedBacked(b) ==
  \E q \in [HoldIds -> Nat] :
    /\ balance[b].reserved <= SumFunction(q)
    /\ \A h \in HoldIds : q[h] <= Weight(hold[h], b)
    /\ \A h \in HoldIds, d \in Calls :
         row[d][b] = NoRow /\ call[d].listed[h] # NoRow => q[h] <= call[d].listed[h].qty

\* The same split for a row c has written, to hold before and after its commit.
Backs(q, c, b) ==
  /\ \A h \in HoldIds : q[h] <= Weight(CurrentHold(c, h), b)
  /\ \A h \in HoldIds : hold[h].status # "FREE" => q[h] <= Weight(hold[h], b)
  /\ \A h \in HoldIds, d \in Calls :
       call[d].listed[h] # NoRow => q[h] <= call[d].listed[h].qty

WrittenBacked(c, b) ==
  row[c][b] # NoRow =>
    \E q \in [HoldIds -> Nat] : row[c][b].reserved <= SumFunction(q) /\ Backs(q, c, b)

\* While nothing was disturbed, reserved is the sum of the holds: of the
\* committed ones, and of those a call sees that has not gone astray.
CommittedEqual(b) == ~ disturbed => balance[b].reserved = HeldOn(hold, b)

WrittenEqual(c, b) ==
  row[c][b] # NoRow /\ ~ disturbed /\ ~ call[c].astray =>
    row[c][b].reserved = HeldOn(SeenHolds(c), b)

\* What the reservations add to Inv.
ReservedInv ==
  /\ disturbed \in BOOLEAN
  /\ \A c \in Calls : NothingWrittenYet(c)
  /\ \A c \in Calls, h \in HoldIds : WrittenHold(c, h) /\ ListedHold(c, h)
  /\ \A b \in Balances : CommittedBacked(b) /\ CommittedEqual(b)
  /\ \A c \in Calls, b \in Balances : WrittenBacked(c, b) /\ WrittenEqual(c, b)

-----------------------------------------------------------------------------
(* Lemmas.                                                                  *)

\* The reservations are finitely many.
LEMMA HoldIdsFinite == IsFiniteSet(HoldIds)
BY FS_Interval, BoundsAssumption DEF HoldIds

\* What a document holds on a balance is a quantity.
LEMMA HeldByType ==
  ASSUME NEW listed \in [HoldIds -> Hold \union {NoRow}], NEW b
  PROVE  HeldBy(listed, b) \in Nat
<1> DEFINE T == {h \in HoldIds : listed[h] # NoRow /\ listed[h].bal = b}
           g == [h \in T |-> listed[h].qty]
<1>1. IsFiniteSet(T)
  <2>1. T \subseteq HoldIds
    OBVIOUS
  <2>2. QED
    BY <2>1, HoldIdsFinite, FS_Subset
<1>2. \A h \in T : listed[h].qty \in Nat
  BY DEF Hold
<1>3. g \in [T -> Nat]
  BY <1>2
<1>4. HeldBy(listed, b) = SumFunction(g)
  BY DEF HeldBy
<1> HIDE DEF T, g
<1>5. QED
  BY <1>1, <1>3, <1>4, SumBounds

\* The row a transaction sees is well typed.
LEMMA CurrentRowType ==
  ASSUME TablesInv, NEW c \in Calls, NEW b \in Balances
  PROVE  CurrentRow(c, b) \in Row
BY DEF TablesInv, CurrentRow

\* The hold a transaction sees is well typed.
LEMMA CurrentHoldType ==
  ASSUME HoldsInv, NEW c \in Calls, NEW h \in HoldIds
  PROVE  CurrentHold(c, h) \in Hold
BY DEF HoldsInv, CurrentHold

\* listActive returns well typed holds.
LEMMA ActiveHoldsType ==
  ASSUME HoldsInv, NEW c \in Calls, NEW doc
  PROVE  ActiveHolds(c, doc) \in [HoldIds -> Hold \union {NoRow}]
BY CurrentHoldType DEF ActiveHolds

\* The row a transaction sees satisfies what the committed rows satisfy.
LEMMA CurrentRowExtends ==
  ASSUME RowsInv, NEW c \in Calls, NEW b \in Balances
  PROVE  /\ CurrentRow(c, b) \in Row
         /\ CurrentRow(c, b).onHand = net[b] + moved[c][b]
         /\ CurrentRow(c, b).reserved <= CurrentRow(c, b).onHand
         /\ CurrentRow(c, b).version >= balance[b].version
<1>1. CurrentRow(c, b) \in Row
  BY CurrentRowType DEF RowsInv
<1>2. WritesExtend(c, b)
  BY DEF RowsInv
<1>3. /\ balance[b] \in Row
      /\ net[b] \in Int
      /\ moved[c][b] \in Int
      /\ balance[b].onHand = net[b]
      /\ balance[b].reserved <= balance[b].onHand
  BY DEF RowsInv, TablesInv, BalanceIsItsMovements
<1>4. CASE row[c][b] = NoRow
  BY <1>1, <1>2, <1>3, <1>4 DEF CurrentRow, WritesExtend, Row
<1>5. CASE row[c][b] # NoRow
  BY <1>1, <1>2, <1>3, <1>5 DEF CurrentRow, WritesExtend, Row
<1>6. QED
  BY <1>4, <1>5

\* Saving one balance: if the new row adds delta to what the transaction sees,
\* and delta is recorded as its movement, the rows stay what they should be.
LEMMA SaveKeepsRows ==
  ASSUME RowsInv, NEW c \in Calls, NEW b \in Balances, NEW r \in Row,
         NEW delta \in Int,
         SaveRow(c, b, r),
         r.version = CurrentRow(c, b).version + 1,
         r.onHand = CurrentRow(c, b).onHand + delta,
         r.reserved <= r.onHand,
         moved' \in [Calls -> [Balances -> Int]],
         \A d \in Calls, x \in Balances :
           moved'[d][x] = IF d = c /\ x = b THEN moved[c][b] + delta
                                            ELSE moved[d][x],
         UNCHANGED <<balance, net>>
  PROVE  RowsInv'
<1>1. /\ CurrentRow(c, b) \in Row
      /\ CurrentRow(c, b).onHand = net[b] + moved[c][b]
      /\ CurrentRow(c, b).version >= balance[b].version
  BY CurrentRowExtends
<1>2. /\ balance[b] \in Row
      /\ net[b] \in Int
      /\ moved[c][b] \in Int
      /\ row \in [Calls -> [Balances -> Row \union {NoRow}]]
  BY DEF RowsInv, TablesInv
<1>3. row' = [row EXCEPT ![c][b] = r]
  BY DEF SaveRow
<1>4. TablesInv'
  BY <1>2, <1>3 DEF RowsInv, TablesInv
<1>5. BalanceIsItsMovements'
  BY DEF RowsInv, BalanceIsItsMovements
<1>6. \A d \in Calls, x \in Balances : WritesExtend(d, x)'
  <2> TAKE d \in Calls, x \in Balances
  <2>1. CASE d = c /\ x = b
    <3>1. row'[d][x] = r /\ r # NoRow /\ moved'[d][x] = moved[c][b] + delta
      BY <1>2, <1>3, <2>1, NoRowAssumption
    <3>2. /\ r.onHand = net[b] + (moved[c][b] + delta)
          /\ r.version > balance[b].version
      BY <1>1, <1>2 DEF Row
    <3>3. QED
      BY <2>1, <3>1, <3>2 DEF WritesExtend
  <2>2. CASE ~ (d = c /\ x = b)
    <3>1. row'[d][x] = row[d][x] /\ moved'[d][x] = moved[d][x]
      BY <1>2, <1>3, <2>2
    <3>2. WritesExtend(d, x)
      BY DEF RowsInv
    <3>3. QED
      BY <3>1, <3>2 DEF WritesExtend
  <2>3. QED
    BY <2>1, <2>2
<1>7. OneWriter'
  <2>1. \A d \in Calls \ {c} : row[d][b] = NoRow
    BY DEF SaveRow, RowIsFree
  <2>2. \A d \in Calls, x \in Balances :
          row'[d][x] = IF d = c /\ x = b THEN r ELSE row[d][x]
    BY <1>2, <1>3
  <2>3. QED
    BY <2>1, <2>2 DEF RowsInv, OneWriter
<1>8. QED
  BY <1>4, <1>5, <1>6, <1>7 DEF RowsInv

\* The balances applyMovement returns; first, for a receipt.
LEMMA AfterReceiptRow ==
  ASSUME NEW r \in Row, r.reserved <= r.onHand, NEW qty \in Nat
  PROVE  /\ AfterReceipt(r, qty) \in Row
         /\ AfterReceipt(r, qty).version = r.version + 1
         /\ AfterReceipt(r, qty).onHand = r.onHand + qty
         /\ AfterReceipt(r, qty).reserved <= AfterReceipt(r, qty).onHand
BY DEF AfterReceipt, Row

\* An outbound posting keeps the balance above what is reserved on it.
LEMMA AfterIssueRow ==
  ASSUME NEW r \in Row, NEW qty \in Nat, NEW consume, CanIssue(r, qty, consume)
  PROVE  /\ AfterIssue(r, qty, consume) \in Row
         /\ AfterIssue(r, qty, consume).version = r.version + 1
         /\ AfterIssue(r, qty, consume).onHand = r.onHand + (0 - qty)
         /\ AfterIssue(r, qty, consume).reserved
              <= AfterIssue(r, qty, consume).onHand
BY DEF AfterIssue, CanIssue, Row

\* A reservation stays within what is on hand.
LEMMA AfterReserveRow ==
  ASSUME NEW r \in Row, NEW qty \in Nat, CanReserve(r, qty)
  PROVE  /\ AfterReserve(r, qty) \in Row
         /\ AfterReserve(r, qty).version = r.version + 1
         /\ AfterReserve(r, qty).onHand = r.onHand + 0
         /\ AfterReserve(r, qty).reserved <= AfterReserve(r, qty).onHand
BY DEF AfterReserve, CanReserve, Row

\* A release leaves what is on hand.
LEMMA AfterUnreserveRow ==
  ASSUME NEW r \in Row, r.reserved <= r.onHand, NEW qty \in Nat,
         CanUnreserve(r, qty)
  PROVE  /\ AfterUnreserve(r, qty) \in Row
         /\ AfterUnreserve(r, qty).version = r.version + 1
         /\ AfterUnreserve(r, qty).onHand = r.onHand + 0
         /\ AfterUnreserve(r, qty).reserved <= AfterUnreserve(r, qty).onHand
BY DEF AfterUnreserve, CanUnreserve, Row

\* A call that changes only its own memory, and keeps the plan's copies, keeps
\* the whole invariant.
LEMMA OwnMemoryStep ==
  ASSUME Inv, NEW c \in Calls, NEW k,
         CallShape(k),
         k.op = "RESERVE" => \A a \in k.plan : SeenIsCurrent(a),
         call' = [call EXCEPT ![c] = k]
  PROVE  /\ CallsInv'
         /\ balance' = balance => SeenInv'
<1>1. /\ call \in [Calls -> Call]
      /\ \A d \in Calls : CallShape(call[d])
  BY DEF Inv, CallsInv
<1>2. \A d \in Calls : call'[d] = IF d = c THEN k ELSE call[d]
  BY <1>1
<1>3. call' \in [Calls -> Call]
  BY <1>1 DEF CallShape
<1>4. CallsInv'
  <2>1. \A d \in Calls : CallShape(call'[d])
    BY <1>1, <1>2
  <2>2. QED
    BY <1>3, <2>1 DEF CallsInv, CallShape
<1>5. ASSUME balance' = balance
      PROVE  SeenInv'
  <2>1. \A d \in Calls : call'[d].op = "RESERVE" =>
          \A a \in call'[d].plan : SeenIsCurrent(a)
    BY <1>2 DEF Inv, SeenInv
  <2>2. QED
    BY <1>5, <2>1 DEF SeenInv, SeenIsCurrent
<1>6. QED
  BY <1>4, <1>5

-----------------------------------------------------------------------------
(* The initial state and the steps.                                         *)

\* The memory of an idle call.
LEMMA IdleCallShape ==
  CallShape(IdleCall) /\ IdleCall.op # "RESERVE" /\ IdleCall.plan = {}
BY DEF CallShape, Call, IdleCall, NoHolds, Op

\* Before the first call nothing is written, planned or reserved.
LEMMA InitInv ==
  ASSUME Init
  PROVE  Inv
<1>1. CallsInv /\ SeenInv
  <2>1. \A c \in Calls : call[c] = IdleCall
    BY DEF Init
  <2>2. IdleCall \in Call
    BY IdleCallShape DEF CallShape
  <2>3. call \in [Calls -> Call]
    BY <2>2 DEF Init
  <2>4. \A c \in Calls : CallShape(call[c])
    BY <2>1, IdleCallShape
  <2>5. SeenInv
    BY <2>1, IdleCallShape DEF SeenInv
  <2>6. QED
    BY <2>3, <2>4, <2>5 DEF CallsInv
<1>2. FreeHold \in Hold
  BY BalancesAssumption DEF FreeHold, Hold, HoldStatus
<1>3. HoldsInv
  BY <1>2 DEF Init, HoldsInv, NoHolds
<1>4. RowsInv
  BY OpeningAssumption
  DEF Init, RowsInv, TablesInv, BalanceIsItsMovements, WritesExtend, OneWriter,
      UnwrittenRows, Nothing, Row
<1>5. QED
  BY <1>1, <1>3, <1>4 DEF Inv

\* The tables a step leaves alone.
LEMMA TablesUnchanged ==
  ASSUME Inv, UNCHANGED <<committed, written>>
  PROVE  HoldsInv' /\ RowsInv'
BY DEF Inv, committed, written, HoldsInv, RowsInv, TablesInv,
       BalanceIsItsMovements, WritesExtend, OneWriter

\* Beginning a call: the plan is empty, or the lines of a receipt.
LEMMA BeginStep ==
  ASSUME Inv, NEW c \in Calls, NEW op, NEW doc, NEW phase, NEW lines,
         NEW listed, NEW plan,
         CallShape([phase |-> phase, op |-> op, doc |-> doc, lines |-> lines,
                    listed |-> listed, plan |-> plan, astray |-> FALSE]),
         op = "RESERVE" => plan = {},
         Begin(c, op, doc, phase, lines, listed, plan)
  PROVE  Inv'
<1> DEFINE k == [phase |-> phase, op |-> op, doc |-> doc, lines |-> lines,
                 listed |-> listed, plan |-> plan, astray |-> FALSE]
<1>1. call' = [call EXCEPT ![c] = k] /\ UNCHANGED <<committed, written>>
  BY DEF Begin
<1>2. k.op = "RESERVE" => \A a \in k.plan : SeenIsCurrent(a)
  OBVIOUS
<1>3. balance' = balance
  BY <1>1 DEF committed
<1>4. CallsInv' /\ SeenInv'
  <2> HIDE DEF k
  <2>1. CallShape(k)
    BY DEF k
  <2>2. QED
    BY <1>1, <1>2, <1>3, <2>1, OwnMemoryStep
<1>5. QED
  BY <1>1, <1>4, TablesUnchanged DEF Inv

\* A receipt: the plan is the lines.
LEMMA BeginReceiveStep ==
  ASSUME Inv, NEW c \in Calls, BeginReceive(c)
  PROVE  Inv'
<1>1. PICK lines \in ReceiptLists :
        Begin(c, "RECEIVE", NoDocument, "POSTING", <<>>, NoHolds,
              {[left |-> Len(lines) - i, bal |-> lines[i].bal,
                qty |-> lines[i].qty, mine |-> 0, seen |-> NoRow]
               : i \in DOMAIN lines})
  BY DEF BeginReceive
<1>2. \A i \in DOMAIN lines : lines[i] \in Receipt
  BY ReceiptsAssumption
<1> DEFINE plan == {[left |-> Len(lines) - i, bal |-> lines[i].bal,
                     qty |-> lines[i].qty, mine |-> 0, seen |-> NoRow]
                    : i \in DOMAIN lines}
<1>3. plan \in SUBSET Allocation
  <2>1. \A i \in DOMAIN lines : Len(lines) - i \in Nat
    BY ReceiptsAssumption
  <2>2. QED
    BY <1>2, <2>1 DEF Receipt, Allocation
<1> HIDE DEF plan
<1>4. CallShape([phase |-> "POSTING", op |-> "RECEIVE", doc |-> NoDocument,
                 lines |-> <<>>, listed |-> NoHolds, plan |-> plan,
                 astray |-> FALSE])
  BY <1>3 DEF CallShape, Call, Op, NoHolds
<1>5. Begin(c, "RECEIVE", NoDocument, "POSTING", <<>>, NoHolds, plan)
  BY <1>1 DEF plan
<1>6. QED
  BY <1>4, <1>5, BeginStep

\* The outbound calls begin with their lines and, of an issue, the holds.
LEMMA BeginPlanningStep ==
  ASSUME Inv, NEW c \in Calls, NEW op \in Op, NEW doc \in Documents \union {NoDocument},
         NEW lines \in LineLists,
         NEW listed \in [HoldIds -> Hold \union {NoRow}],
         Begin(c, op, doc, "PLANNING", lines, listed, {})
  PROVE  Inv'
<1>1. lines \in Seq(Line) /\ lines # <<>>
  BY LinesAssumption
<1>2. CallShape([phase |-> "PLANNING", op |-> op, doc |-> doc, lines |-> lines,
                 listed |-> listed, plan |-> {}, astray |-> FALSE])
  BY <1>1 DEF CallShape, Call
<1>3. QED
  BY <1>2, BeginStep

\* An issue, with the holds of its document.
LEMMA BeginIssueStep ==
  ASSUME Inv, NEW c \in Calls, NEW doc \in Documents, BeginIssue(c, doc)
  PROVE  Inv'
<1>1. PICK lines \in LineLists :
        Begin(c, "ISSUE", doc, "PLANNING", lines, ActiveHolds(c, doc), {})
  BY DEF BeginIssue
<1>2. QED
  BY <1>1, ActiveHoldsType, BeginPlanningStep DEF Inv, Op

\* An outbound posting that consumes no holds.
LEMMA BeginTakeStep ==
  ASSUME Inv, NEW c \in Calls, BeginTake(c)
  PROVE  Inv'
<1>1. NoHolds \in [HoldIds -> Hold \union {NoRow}]
  BY DEF NoHolds
<1>2. QED
  BY <1>1, BeginPlanningStep DEF BeginTake, Op

\* A reservation.
LEMMA BeginReserveStep ==
  ASSUME Inv, NEW c \in Calls, NEW doc \in Documents, BeginReserve(c, doc)
  PROVE  Inv'
<1>1. NoHolds \in [HoldIds -> Hold \union {NoRow}]
  BY DEF NoHolds
<1>2. QED
  BY <1>1, BeginPlanningStep DEF BeginReserve, Op

\* A release, with the holds of its document and nothing to plan.
LEMMA BeginReleaseStep ==
  ASSUME Inv, NEW c \in Calls, NEW doc \in Documents, BeginRelease(c, doc)
  PROVE  Inv'
<1>1. ActiveHolds(c, doc) \in [HoldIds -> Hold \union {NoRow}]
  BY ActiveHoldsType DEF Inv
<1>2. CallShape([phase |-> "POSTING", op |-> "RELEASE", doc |-> doc,
                 lines |-> <<>>, listed |-> ActiveHolds(c, doc), plan |-> {},
                 astray |-> FALSE])
  BY <1>1 DEF CallShape, Call, Op
<1>3. Begin(c, "RELEASE", doc, "POSTING", <<>>, ActiveHolds(c, doc), {})
  BY DEF BeginRelease
<1>4. QED
  BY <1>2, <1>3, BeginStep

-----------------------------------------------------------------------------
(* Planning.                                                                *)

\* The plan of a line: copies of the balances as they are, for a reserve.
LEMMA PlanLineStep ==
  ASSUME Inv, NEW c \in Calls, PlanLine(c)
  PROVE  Inv'
<1> DEFINE line == Head(call[c].lines)
           rest == Tail(call[c].lines)
           Added(take) ==
             {[left |-> Len(rest), bal |-> line.from[i], qty |-> take[i],
               mine |-> HeldBy(call[c].listed, line.from[i]),
               seen |-> IF call[c].op = "RESERVE"
                        THEN balance[line.from[i]] ELSE NoRow]
              : i \in {j \in DOMAIN line.from : take[j] > 0}}
<1>1. CallShape(call[c]) /\ call \in [Calls -> Call]
  BY DEF Inv, CallsInv
<1>2. PICK take \in [DOMAIN line.from -> 0 .. line.qty] :
        call' = [call EXCEPT
          ![c].lines = rest,
          ![c].phase = IF rest = <<>> THEN "POSTING" ELSE @,
          ![c].plan = @ \union Added(take)]
  BY DEF PlanLine
<1>3. line \in Line /\ rest \in Seq(Line)
  <2>1. call[c].phase = "PLANNING"
    BY DEF PlanLine
  <2>2. call[c].lines \in Seq(Line) /\ call[c].lines # <<>>
    BY <1>1, <2>1 DEF CallShape, Call
  <2>3. QED
    BY <2>2
<1>4. /\ Added(take) \subseteq Allocation
      /\ call[c].op = "RESERVE" => \A a \in Added(take) : SeenIsCurrent(a)
  <2>1. line.from \in Seq(Balances) /\ line.qty \in Nat /\ Len(rest) \in Nat
    BY <1>3 DEF Line
  <2>2. call[c].listed \in [HoldIds -> Hold \union {NoRow}]
    BY <1>1 DEF Call
  <2>3. balance \in [Balances -> Row]
    BY DEF Inv, RowsInv, TablesInv
  <2>4. ASSUME NEW a \in Added(take)
        PROVE  /\ a \in Allocation
               /\ call[c].op = "RESERVE" => SeenIsCurrent(a)
    <3>1. PICK i \in DOMAIN line.from :
            /\ take[i] > 0
            /\ a = [left |-> Len(rest), bal |-> line.from[i], qty |-> take[i],
                    mine |-> HeldBy(call[c].listed, line.from[i]),
                    seen |-> IF call[c].op = "RESERVE"
                             THEN balance[line.from[i]] ELSE NoRow]
      OBVIOUS
    <3>2. PICK b : b = line.from[i]
      OBVIOUS
    <3>3. b \in Balances
      BY <2>1, <3>2, SMTT(20)
    <3>4. PICK mine : mine = HeldBy(call[c].listed, b)
      OBVIOUS
    <3>5. mine \in Nat
      BY <2>2, <3>3, <3>4, HeldByType
    <3>6. take[i] \in Nat \ {0}
      BY <2>1, <3>1, SMTT(20)
    <3>7. PICK left, qty : left = Len(rest) /\ qty = take[i]
      OBVIOUS
    <3>8. left \in Nat /\ qty \in Nat \ {0} /\ balance[b] \in Row
      BY <2>1, <2>3, <3>3, <3>6, <3>7
    <3>9. a = [left |-> left, bal |-> b, qty |-> qty, mine |-> mine,
               seen |-> IF call[c].op = "RESERVE" THEN balance[b] ELSE NoRow]
      BY <3>1, <3>2, <3>4, <3>7
    <3> HIDE DEF line, rest, Added
    <3>10. a \in Allocation
      BY <3>3, <3>5, <3>8, <3>9 DEF Allocation
    <3>11. call[c].op = "RESERVE" => a.seen = balance[b] /\ a.bal = b
      BY <3>9
    <3>12. call[c].op = "RESERVE" => SeenIsCurrent(a)
      BY <3>8, <3>11 DEF SeenIsCurrent, Row
    <3>13. QED  BY <3>10, <3>12
  <2>5. QED
    BY <2>4
<1> DEFINE k == [call[c] EXCEPT
                   !.lines = rest,
                   !.phase = IF rest = <<>> THEN "POSTING" ELSE @,
                   !.plan = @ \union Added(take)]
<1> HIDE DEF Added, line, rest
<1>5. call' = [call EXCEPT ![c] = k]
  BY <1>1, <1>2
<1>6. /\ CallShape(k)
      /\ k.op = call[c].op
      /\ k.plan = call[c].plan \union Added(take)
  BY <1>1, <1>3, <1>4 DEF CallShape, Call
<1>7. k.op = "RESERVE" => \A a \in k.plan : SeenIsCurrent(a)
  BY <1>4, <1>6 DEF Inv, SeenInv
<1>8. UNCHANGED <<committed, written>> /\ balance' = balance
  BY DEF PlanLine, committed
<1>9. CallsInv' /\ SeenInv'
  <2> HIDE DEF k
  <2>1. QED
    BY <1>5, <1>6, <1>7, <1>8, OwnMemoryStep
<1>10. QED
  BY <1>8, <1>9, TablesUnchanged DEF Inv

\* A call that ends without a trace in the tables.
LEMMA ShortageStep ==
  ASSUME Inv, NEW c \in Calls, Shortage(c)
  PROVE  Inv'
<1>1. /\ call' = [call EXCEPT ![c] = IdleCall]
      /\ UNCHANGED <<committed, written>>
      /\ balance' = balance
  BY DEF Shortage, committed
<1>2. CallsInv' /\ SeenInv'
  BY <1>1, IdleCallShape, OwnMemoryStep
<1>3. QED
  BY <1>1, <1>2, TablesUnchanged DEF Inv

-----------------------------------------------------------------------------
(* Posting.                                                                 *)

\* A call that has posted part of its plan keeps its shape, and its copies.
LEMMA PostedPartStep ==
  ASSUME Inv, NEW c \in Calls, NEW a,
         call' = [call EXCEPT ![c].plan = @ \ {a}],
         balance' = balance
  PROVE  CallsInv' /\ SeenInv'
<1> DEFINE k == [call[c] EXCEPT !.plan = @ \ {a}]
<1>1. CallShape(call[c]) /\ call \in [Calls -> Call]
  BY DEF Inv, CallsInv
<1>2. call' = [call EXCEPT ![c] = k]
  BY <1>1
<1>3. CallShape(k) /\ k.op = call[c].op /\ k.plan = call[c].plan \ {a}
  BY <1>1 DEF CallShape, Call
<1>4. k.op = "RESERVE" => \A x \in k.plan : SeenIsCurrent(x)
  BY <1>3 DEF Inv, SeenInv
<1> HIDE DEF k
<1>5. QED
  BY <1>2, <1>3, <1>4, OwnMemoryStep

\* The allocation a posting step takes is well typed.
LEMMA NextAllocationType ==
  ASSUME Inv, NEW c \in Calls, NEW a \in NextAllocations(c)
  PROVE  a \in call[c].plan /\ a.bal \in Balances /\ a.qty \in Nat \ {0}
BY DEF Inv, CallsInv, Call, Allocation, NextAllocations

\* One line of a receipt.
LEMMA PostReceiveStep ==
  ASSUME Inv, NEW c \in Calls, PostReceive(c)
  PROVE  Inv'
<1>1. PICK a \in NextAllocations(c) :
        /\ SaveRow(c, a.bal, AfterReceipt(CurrentRow(c, a.bal), a.qty))
        /\ moved' = [moved EXCEPT ![c][a.bal] = @ + a.qty]
        /\ call' = [call EXCEPT ![c].plan = @ \ {a}]
  BY DEF PostReceive
<1>2. a.bal \in Balances /\ a.qty \in Nat \ {0}
  BY NextAllocationType
<1>3. UNCHANGED <<balance, net, hold, holdRow>>
  BY DEF PostReceive, committed
<1> DEFINE r == AfterReceipt(CurrentRow(c, a.bal), a.qty)
<1>4. /\ r \in Row
      /\ r.version = CurrentRow(c, a.bal).version + 1
      /\ r.onHand = CurrentRow(c, a.bal).onHand + a.qty
      /\ r.reserved <= r.onHand
  <2>1. /\ CurrentRow(c, a.bal) \in Row
        /\ CurrentRow(c, a.bal).reserved <= CurrentRow(c, a.bal).onHand
    BY <1>2, CurrentRowExtends DEF Inv
  <2>2. QED
    BY <1>2, <2>1, AfterReceiptRow
<1>5. /\ moved' \in [Calls -> [Balances -> Int]]
      /\ \A d \in Calls, x \in Balances :
           moved'[d][x] = IF d = c /\ x = a.bal THEN moved[c][a.bal] + a.qty
                                                ELSE moved[d][x]
  BY <1>1, <1>2 DEF Inv, RowsInv, TablesInv
<1>6. RowsInv'
  <2>1. SaveRow(c, a.bal, r) /\ a.qty \in Int /\ RowsInv
    BY <1>1, <1>2 DEF Inv
  <2> HIDE DEF r
  <2>2. QED
    BY <1>2, <1>3, <1>4, <1>5, <2>1, SaveKeepsRows
<1>7. CallsInv' /\ SeenInv'
  BY <1>1, <1>3, PostedPartStep
<1>8. HoldsInv'
  BY <1>3 DEF Inv, HoldsInv
<1>9. QED
  BY <1>6, <1>7, <1>8 DEF Inv

\* A hold less what is consumed of it is a hold.
LEMMA AfterConsumptionType ==
  ASSUME NEW k \in Hold, NEW take \in Nat, take <= k.qty
  PROVE  AfterConsumption(k, take) \in Hold
<1>1. /\ k.qty \in Nat
      /\ k.qty - take \in Nat
      /\ k.status \in HoldStatus
      /\ "CONSUMED" \in HoldStatus
  BY DEF Hold, HoldStatus
<1> DEFINE status == IF k.qty = take THEN "CONSUMED" ELSE k.status
<1>2. status \in HoldStatus
  BY <1>1
<1> HIDE DEF status
<1>3. [k EXCEPT !.qty = k.qty - take, !.status = status] \in Hold
  BY <1>1, <1>2 DEF Hold
<1>4. QED
  BY <1>3 DEF AfterConsumption, status

\* What postOutbound consumes of a listed hold leaves a hold.
LEMMA ConsumedHoldType ==
  ASSUME NEW listed \in [HoldIds -> Hold \union {NoRow}], NEW b, NEW consume \in Nat,
         NEW take \in [HoldIds -> 0 .. consume], NEW h \in HoldIds,
         take[h] > 0, take[h] <= Consumable(listed, b)[h]
  PROVE  AfterConsumption(listed[h], take[h]) \in Hold
<1>1. take[h] \in Nat
  OBVIOUS
<1>2. listed[h] # NoRow /\ take[h] <= listed[h].qty
  BY <1>1 DEF Consumable
<1>3. listed[h] \in Hold
  BY <1>2
<1>4. QED
  BY <1>1, <1>2, <1>3, AfterConsumptionType

\* One allocation of an outbound plan, its holds and its movement.
LEMMA PostOutboundStep ==
  ASSUME Inv, NEW c \in Calls, PostOutbound(c)
  PROVE  Inv'
<1>1. PICK a \in NextAllocations(c) :
        LET r == CurrentRow(c, a.bal)
            consume == AtMost(a.mine, a.qty)
            listed == call[c].listed
            offers == Consumable(listed, a.bal)
        IN /\ CanIssue(r, a.qty, consume)
           /\ SaveRow(c, a.bal, AfterIssue(r, a.qty, consume))
           /\ moved' = [moved EXCEPT ![c][a.bal] = @ - a.qty]
           /\ \E take \in [HoldIds -> 0 .. consume] :
                LET touched == {h \in HoldIds : take[h] > 0}
                IN /\ Draws(take, offers, AtMost(consume, Total(offers)))
                   /\ \A h \in touched : HoldIsFree(c, h)
                   /\ holdRow' = [holdRow EXCEPT ![c] =
                        [h \in HoldIds |-> IF h \in touched
                           THEN AfterConsumption(listed[h], take[h])
                           ELSE holdRow[c][h]]]
                   /\ call' = [call EXCEPT
                        ![c].plan = @ \ {a},
                        ![c].listed = [h \in HoldIds |-> IF h \in touched
                           THEN AfterConsumption(listed[h], take[h])
                           ELSE listed[h]],
                        ![c].astray =
                          \/ @
                          \/ Total(offers) < consume
                          \/ \E h \in touched : CurrentHold(c, h) # listed[h]]
  BY DEF PostOutbound
<1> DEFINE consume == AtMost(a.mine, a.qty)
           listed == call[c].listed
           offers == Consumable(listed, a.bal)
           Touched(take) == {h \in HoldIds : take[h] > 0}
           After(take) == [h \in HoldIds |-> IF h \in Touched(take)
                             THEN AfterConsumption(listed[h], take[h])
                             ELSE listed[h]]
           Astray(take) == \/ call[c].astray
                           \/ Total(offers) < consume
                           \/ \E h \in Touched(take) : CurrentHold(c, h) # listed[h]
<1>2. /\ CanIssue(CurrentRow(c, a.bal), a.qty, consume)
      /\ SaveRow(c, a.bal, AfterIssue(CurrentRow(c, a.bal), a.qty, consume))
      /\ moved' = [moved EXCEPT ![c][a.bal] = @ - a.qty]
  BY <1>1
<1>3. PICK take \in [HoldIds -> 0 .. consume] :
        /\ \A h \in HoldIds : take[h] <= offers[h]
        /\ holdRow' = [holdRow EXCEPT ![c] =
             [h \in HoldIds |-> IF h \in Touched(take)
                THEN AfterConsumption(listed[h], take[h])
                ELSE holdRow[c][h]]]
        /\ call' = [call EXCEPT ![c].plan = @ \ {a},
                                ![c].listed = After(take),
                                ![c].astray = Astray(take)]
  BY <1>1 DEF Draws, Consumable
<1>4. a.bal \in Balances /\ a.qty \in Nat \ {0}
  BY NextAllocationType
<1>5. UNCHANGED <<balance, net, hold>>
  BY DEF PostOutbound, committed
<1>6. RowsInv'
  <2>1. CurrentRow(c, a.bal) \in Row
    BY <1>4, CurrentRowExtends DEF Inv
  <2> DEFINE r == AfterIssue(CurrentRow(c, a.bal), a.qty, consume)
  <2>2. /\ r \in Row
        /\ r.version = CurrentRow(c, a.bal).version + 1
        /\ r.onHand = CurrentRow(c, a.bal).onHand + (0 - a.qty)
        /\ r.reserved <= r.onHand
    BY <1>2, <1>4, <2>1, AfterIssueRow
  <2>3. /\ moved' \in [Calls -> [Balances -> Int]]
        /\ \A d \in Calls, x \in Balances :
             moved'[d][x] = IF d = c /\ x = a.bal
                            THEN moved[c][a.bal] + (0 - a.qty)
                            ELSE moved[d][x]
    BY <1>2, <1>4 DEF Inv, RowsInv, TablesInv
  <2>4. SaveRow(c, a.bal, r) /\ 0 - a.qty \in Int /\ RowsInv
    BY <1>2, <1>4 DEF Inv
  <2> HIDE DEF r
  <2>5. QED
    BY <1>4, <1>5, <2>2, <2>3, <2>4, SaveKeepsRows
<1>7. consume \in Nat
  BY <1>2, <1>4 DEF CanIssue
<1>8. CallShape(call[c]) /\ call \in [Calls -> Call]
  BY DEF Inv, CallsInv
<1>9. listed \in [HoldIds -> Hold \union {NoRow}]
  BY <1>8 DEF Call
<1>10. \A h \in Touched(take) : AfterConsumption(listed[h], take[h]) \in Hold
  <2> HIDE DEF consume, listed
  <2>1. QED
    BY <1>3, <1>7, <1>9, ConsumedHoldType
<1>11. HoldsInv'
  <2> DEFINE new == [h \in HoldIds |-> IF h \in Touched(take)
                       THEN AfterConsumption(listed[h], take[h])
                       ELSE holdRow[c][h]]
  <2> HIDE DEF Touched, listed
  <2>1. new \in [HoldIds -> Hold \union {NoRow}]
    BY <1>10 DEF Inv, HoldsInv
  <2> HIDE DEF new
  <2>2. holdRow' = [holdRow EXCEPT ![c] = new]
    BY <1>3 DEF new
  <2>3. QED
    BY <1>5, <2>1, <2>2 DEF Inv, HoldsInv
<1>12. After(take) \in [HoldIds -> Hold \union {NoRow}]
  <2> HIDE DEF Touched, listed
  <2>1. QED
    BY <1>9, <1>10
<1>13. Astray(take) \in BOOLEAN
  BY <1>8 DEF Call
<1> DEFINE new == [call[c] EXCEPT !.plan = @ \ {a}, !.listed = After(take),
                                  !.astray = Astray(take)]
<1> HIDE DEF After, Astray, Touched, consume, listed, offers
<1>14. call' = [call EXCEPT ![c] = new]
  BY <1>3, <1>8
<1>15. /\ CallShape(new)
       /\ new.op = call[c].op
       /\ new.plan = call[c].plan \ {a}
  BY <1>8, <1>12, <1>13 DEF CallShape, Call
<1>16. new.op = "RESERVE" => \A x \in new.plan : SeenIsCurrent(x)
  BY <1>15 DEF Inv, SeenInv
<1> HIDE DEF new
<1>17. CallsInv' /\ SeenInv'
  BY <1>5, <1>14, <1>15, <1>16, OwnMemoryStep
<1>18. QED
  BY <1>6, <1>11, <1>17 DEF Inv

\* The saved copy of a reserve is what the transaction sees of the balance.
LEMMA SeenIsCurrentRow ==
  ASSUME Inv, NEW c \in Calls, NEW a \in call[c].plan, call[c].op = "RESERVE",
         SavesVersion(CurrentRow(c, a.bal), a.seen)
  PROVE  a.bal \in Balances /\ a.seen = CurrentRow(c, a.bal)
<1>1. a.bal \in Balances
  BY DEF Inv, CallsInv, Call, Allocation
<1>2. SeenIsCurrent(a)
  BY DEF Inv, SeenInv
<1>3. balance[a.bal] \in Row /\ WritesExtend(c, a.bal)
  BY <1>1 DEF Inv, RowsInv, TablesInv
<1>4. CurrentRow(c, a.bal) \in Row
  BY <1>1, CurrentRowExtends DEF Inv
<1>5. CurrentRow(c, a.bal).version = a.seen.version
  BY DEF SavesVersion
<1>6. row[c][a.bal] = NoRow
  BY <1>2, <1>3, <1>4, <1>5 DEF CurrentRow, WritesExtend, SeenIsCurrent, Row
<1>7. QED
  BY <1>1, <1>2, <1>5, <1>6 DEF CurrentRow, SeenIsCurrent

\* reserve saves the copy of its plan: past the version check that copy is
\* what the transaction sees.
LEMMA PostReserveStep ==
  ASSUME Inv, NEW c \in Calls, PostReserve(c)
  PROVE  Inv'
<1>1. PICK a \in NextAllocations(c) :
        /\ CanReserve(a.seen, a.qty)
        /\ SavesVersion(CurrentRow(c, a.bal), a.seen)
        /\ SaveRow(c, a.bal, AfterReserve(a.seen, a.qty))
        /\ \E h \in HoldIds :
             holdRow' = [holdRow EXCEPT ![c][h] =
               [doc |-> call[c].doc, bal |-> a.bal, qty |-> a.qty,
                status |-> "ACTIVE"]]
        /\ call' = [call EXCEPT ![c].plan = @ \ {a}]
  BY DEF PostReserve
<1>2. a \in call[c].plan /\ a.bal \in Balances /\ a.qty \in Nat \ {0}
  BY NextAllocationType
<1>3. UNCHANGED <<balance, net, hold, moved>>
  BY DEF PostReserve, committed
<1>4. SeenIsCurrent(a)
  BY <1>2 DEF PostReserve, Posting, Inv, SeenInv
<1>5. a.seen = CurrentRow(c, a.bal)
  BY <1>1, <1>2, SeenIsCurrentRow DEF PostReserve, Posting
<1>6. RowsInv'
  <2> DEFINE r == AfterReserve(a.seen, a.qty)
  <2>1. /\ r \in Row
        /\ r.version = CurrentRow(c, a.bal).version + 1
        /\ r.onHand = CurrentRow(c, a.bal).onHand + 0
        /\ r.reserved <= r.onHand
    BY <1>1, <1>2, <1>4, <1>5, AfterReserveRow DEF SeenIsCurrent
  <2>2. /\ moved' \in [Calls -> [Balances -> Int]]
        /\ \A d \in Calls, x \in Balances :
             moved'[d][x] = IF d = c /\ x = a.bal THEN moved[c][a.bal] + 0
                                                  ELSE moved[d][x]
    BY <1>2, <1>3 DEF Inv, RowsInv, TablesInv
  <2>3. SaveRow(c, a.bal, r) /\ 0 \in Int /\ RowsInv
    BY <1>1 DEF Inv
  <2> HIDE DEF r
  <2>4. QED
    BY <1>2, <1>3, <2>1, <2>2, <2>3, SaveKeepsRows
<1>7. HoldsInv'
  <2>1. call[c].doc \in Documents \union {NoDocument}
    BY DEF Inv, CallsInv, Call
  <2>2. [doc |-> call[c].doc, bal |-> a.bal, qty |-> a.qty,
         status |-> "ACTIVE"] \in Hold
    BY <1>2, <2>1 DEF Hold, HoldStatus
  <2>3. QED
    BY <1>1, <1>3, <2>2 DEF Inv, HoldsInv
<1>8. CallsInv' /\ SeenInv'
  BY <1>1, <1>3, PostedPartStep
<1>9. QED
  BY <1>6, <1>7, <1>8 DEF Inv

\* One hold of a release.
LEMMA PostReleaseStep ==
  ASSUME Inv, NEW c \in Calls, PostRelease(c)
  PROVE  Inv'
<1>1. PICK h \in HoldIds :
        /\ FirstListed(c, h)
        /\ LET listed == call[c].listed[h]
               r == CurrentRow(c, listed.bal)
           IN /\ CanUnreserve(r, listed.qty)
              /\ SaveRow(c, listed.bal, AfterUnreserve(r, listed.qty))
              /\ holdRow' = [holdRow EXCEPT ![c][h] =
                   [listed EXCEPT !.status = "RELEASED"]]
              /\ call' = [call EXCEPT
                   ![c].listed[h] = NoRow,
                   ![c].astray = @ \/ CurrentHold(c, h) # listed]
  BY DEF PostRelease
<1> DEFINE listed == call[c].listed[h]
           astray == call[c].astray \/ CurrentHold(c, h) # listed
<1>2. CallShape(call[c]) /\ call \in [Calls -> Call]
  BY DEF Inv, CallsInv
<1>3. listed \in Hold
  BY <1>1, <1>2 DEF FirstListed, Call
<1>4. listed.bal \in Balances /\ listed.qty \in Nat
  BY <1>3 DEF Hold
<1>5. UNCHANGED <<balance, net, hold, moved>>
  BY DEF PostRelease, committed
<1>6. RowsInv'
  <2> DEFINE r == AfterUnreserve(CurrentRow(c, listed.bal), listed.qty)
  <2>1. /\ CurrentRow(c, listed.bal) \in Row
        /\ CurrentRow(c, listed.bal).reserved <= CurrentRow(c, listed.bal).onHand
    BY <1>4, CurrentRowExtends DEF Inv
  <2>2. /\ r \in Row
        /\ r.version = CurrentRow(c, listed.bal).version + 1
        /\ r.onHand = CurrentRow(c, listed.bal).onHand + 0
        /\ r.reserved <= r.onHand
    BY <1>1, <1>4, <2>1, AfterUnreserveRow
  <2>3. /\ moved' \in [Calls -> [Balances -> Int]]
        /\ \A d \in Calls, x \in Balances :
             moved'[d][x] = IF d = c /\ x = listed.bal
                            THEN moved[c][listed.bal] + 0
                            ELSE moved[d][x]
    BY <1>4, <1>5 DEF Inv, RowsInv, TablesInv
  <2>4. SaveRow(c, listed.bal, r) /\ 0 \in Int /\ RowsInv
    BY <1>1 DEF Inv
  <2> HIDE DEF r
  <2>5. QED
    BY <1>4, <1>5, <2>2, <2>3, <2>4, SaveKeepsRows
<1>7. HoldsInv'
  <2>1. [listed EXCEPT !.status = "RELEASED"] \in Hold
    BY <1>3 DEF Hold, HoldStatus
  <2>2. QED
    BY <1>1, <1>5, <2>1 DEF Inv, HoldsInv
<1>8. CallsInv' /\ SeenInv'
  <2> DEFINE rest == [call[c].listed EXCEPT ![h] = NoRow]
             new == [call[c] EXCEPT !.listed = rest, !.astray = astray]
  <2>1. rest \in [HoldIds -> Hold \union {NoRow}]
    BY <1>2 DEF Call
  <2>2. astray \in BOOLEAN
    BY <1>2 DEF Call
  <2>3. call' = [call EXCEPT ![c] = new]
    BY <1>1, <1>2
  <2> HIDE DEF rest, astray, listed
  <2>4. CallShape(new) /\ new.op = call[c].op /\ new.plan = call[c].plan
    BY <1>2, <2>1, <2>2 DEF CallShape, Call
  <2>5. new.op = "RESERVE" => \A x \in new.plan : SeenIsCurrent(x)
    BY <2>4 DEF Inv, SeenInv
  <2> HIDE DEF new
  <2>6. QED
    BY <1>5, <2>3, <2>4, <2>5, OwnMemoryStep
<1>9. QED
  BY <1>6, <1>7, <1>8 DEF Inv

\* An issue goes on to release what is left.
LEMMA ReleaseRestStep ==
  ASSUME Inv, NEW c \in Calls, ReleaseRest(c)
  PROVE  Inv'
<1> DEFINE listed == ActiveHolds(c, call[c].doc)
           new == [call[c] EXCEPT !.op = "RELEASE", !.listed = listed]
<1>1. CallShape(call[c]) /\ call \in [Calls -> Call]
  BY DEF Inv, CallsInv
<1>2. listed \in [HoldIds -> Hold \union {NoRow}]
  BY ActiveHoldsType DEF Inv
<1>3. /\ UNCHANGED <<committed, written>>
      /\ balance' = balance
      /\ call' = [call EXCEPT ![c] = new]
  BY <1>1 DEF ReleaseRest, committed
<1> HIDE DEF listed
<1>4. CallShape(new) /\ new.op # "RESERVE"
  BY <1>1, <1>2 DEF CallShape, Call, Op
<1> HIDE DEF new
<1>5. CallsInv' /\ SeenInv'
  BY <1>3, <1>4, OwnMemoryStep
<1>6. QED
  BY <1>3, <1>5, TablesUnchanged DEF Inv

-----------------------------------------------------------------------------
(* The end of a transaction.                                                *)

\* After the end a call has nothing uncommitted, and nothing to post.
LEMMA EndStep ==
  ASSUME Inv, NEW c \in Calls, End(c)
  PROVE  /\ CallsInv'
         /\ balance' = balance => SeenInv'
         /\ \A d \in Calls :
              call'[d] = IF d = c THEN IdleCall ELSE call[d]
         /\ holdRow' \in [Calls -> [HoldIds -> Hold \union {NoRow}]]
         /\ row' \in [Calls -> [Balances -> Row \union {NoRow}]]
         /\ moved' \in [Calls -> [Balances -> Int]]
         /\ \A d \in Calls, x \in Balances :
              /\ row'[d][x] = IF d = c THEN NoRow ELSE row[d][x]
              /\ moved'[d][x] = IF d = c THEN 0 ELSE moved[d][x]
<1>1. /\ call' = [call EXCEPT ![c] = IdleCall]
      /\ row' = [row EXCEPT ![c] = UnwrittenRows]
      /\ holdRow' = [holdRow EXCEPT ![c] = NoHolds]
      /\ moved' = [moved EXCEPT ![c] = Nothing]
  BY DEF End
<1>2. call \in [Calls -> Call]
  BY DEF Inv, CallsInv
<1>3. CallsInv' /\ (balance' = balance => SeenInv')
  BY <1>1, IdleCallShape, OwnMemoryStep
<1>4. \A d \in Calls : call'[d] = IF d = c THEN IdleCall ELSE call[d]
  BY <1>1, <1>2
<1>5. NoHolds \in [HoldIds -> Hold \union {NoRow}]
  BY DEF NoHolds
<1>6. holdRow' \in [Calls -> [HoldIds -> Hold \union {NoRow}]]
  BY <1>1, <1>5 DEF Inv, HoldsInv
<1>7. /\ row' \in [Calls -> [Balances -> Row \union {NoRow}]]
      /\ \A d \in Calls, x \in Balances :
           row'[d][x] = IF d = c THEN NoRow ELSE row[d][x]
  BY <1>1 DEF Inv, RowsInv, TablesInv, UnwrittenRows
<1>8. /\ moved' \in [Calls -> [Balances -> Int]]
      /\ \A d \in Calls, x \in Balances :
           moved'[d][x] = IF d = c THEN 0 ELSE moved[d][x]
  BY <1>1 DEF Inv, RowsInv, TablesInv, Nothing
<1>9. QED
  BY <1>3, <1>4, <1>6, <1>7, <1>8

\* Less is written after the end.
LEMMA EndLeavesOneWriter ==
  ASSUME Inv, NEW c \in Calls, End(c)
  PROVE  OneWriter'
<1>1. \A d \in Calls, x \in Balances :
        row'[d][x] = IF d = c THEN NoRow ELSE row[d][x]
  BY EndStep
<1>2. OneWriter
  BY DEF Inv, RowsInv
<1>3. SUFFICES ASSUME NEW x \in Balances, NEW d \in Calls, NEW e \in Calls,
                      row'[d][x] # NoRow, row'[e][x] # NoRow
               PROVE  d = e
  BY DEF OneWriter
<1>4. row[d][x] # NoRow /\ row[e][x] # NoRow
  BY <1>1, <1>3
<1>5. QED
  BY <1>2, <1>4 DEF OneWriter

\* A transaction rolled back leaves the committed tables as they were.
LEMMA AbortStep ==
  ASSUME Inv, NEW c \in Calls, Abort(c)
  PROVE  Inv'
<1>1. End(c) /\ UNCHANGED <<balance, hold, net>>
  BY DEF Abort, committed
<1>2. CallsInv' /\ SeenInv'
  BY <1>1, EndStep
<1>3. HoldsInv'
  BY <1>1, EndStep DEF Inv, HoldsInv
<1>4. RowsInv'
  <2>1. TablesInv' /\ BalanceIsItsMovements'
    BY <1>1, EndStep DEF Inv, RowsInv, TablesInv, BalanceIsItsMovements
  <2>2. OneWriter'
    BY <1>1, EndLeavesOneWriter
  <2>3. \A d \in Calls, x \in Balances : WritesExtend(d, x)'
    <3> TAKE d \in Calls, x \in Balances
    <3>1. /\ row'[d][x] = IF d = c THEN NoRow ELSE row[d][x]
          /\ moved'[d][x] = IF d = c THEN 0 ELSE moved[d][x]
      BY <1>1, EndStep
    <3>2. WritesExtend(d, x)
      BY DEF Inv, RowsInv
    <3>3. QED
      BY <1>1, <3>1, <3>2 DEF WritesExtend
  <2>4. QED
    BY <2>1, <2>2, <2>3 DEF RowsInv
<1>5. QED
  BY <1>2, <1>3, <1>4 DEF Inv

\* The commit makes what the call saw the committed row. Whoever has planned
\* on the old row is left with an older version; nobody else has written it.
LEMMA CommitStep ==
  ASSUME Inv, NEW c \in Calls, Commit(c)
  PROVE  Inv'
<1>1. /\ End(c)
      /\ balance' = [b \in Balances |-> CurrentRow(c, b)]
      /\ hold' = [h \in HoldIds |-> CurrentHold(c, h)]
      /\ net' = [b \in Balances |-> net[b] + moved[c][b]]
  BY DEF Commit
<1>2. \A b \in Balances :
        /\ CurrentRow(c, b) \in Row
        /\ CurrentRow(c, b).onHand = net[b] + moved[c][b]
        /\ CurrentRow(c, b).reserved <= CurrentRow(c, b).onHand
        /\ CurrentRow(c, b).version >= balance[b].version
  BY CurrentRowExtends DEF Inv
<1>3. \A b \in Balances : balance[b] \in Row /\ net[b] \in Int /\ moved[c][b] \in Int
  BY DEF Inv, RowsInv, TablesInv
<1>4. \A b \in Balances :
        \/ balance'[b] = balance[b] /\ row[c][b] = NoRow
        \/ /\ row[c][b] # NoRow
           /\ balance'[b].version > balance[b].version
  <2> TAKE b \in Balances
  <2>1. balance'[b] = CurrentRow(c, b) /\ WritesExtend(c, b)
    BY <1>1 DEF Inv, RowsInv
  <2>2. QED
    BY <2>1 DEF CurrentRow, WritesExtend
<1>5. HoldsInv'
  <2>1. \A h \in HoldIds : CurrentHold(c, h) \in Hold
    BY CurrentHoldType DEF Inv
  <2>2. QED
    BY <1>1, <2>1, EndStep DEF HoldsInv
<1>6. TablesInv' /\ BalanceIsItsMovements'
  BY <1>1, <1>2, <1>3, EndStep DEF TablesInv, BalanceIsItsMovements
<1>7. OneWriter'
  BY <1>1, EndLeavesOneWriter
<1>8. \A d \in Calls, x \in Balances : WritesExtend(d, x)'
  <2> TAKE d \in Calls, x \in Balances
  <2>1. CASE d = c
    BY <1>1, <2>1, EndStep DEF WritesExtend
  <2>2. CASE d # c
    <3>1. row'[d][x] = row[d][x] /\ moved'[d][x] = moved[d][x]
      BY <1>1, <2>2, EndStep
    <3>2. WritesExtend(d, x)
      BY DEF Inv, RowsInv
    <3>3. CASE row[d][x] = NoRow
      BY <3>1, <3>2, <3>3 DEF WritesExtend
    <3>4. CASE row[d][x] # NoRow
      <4>1. row[c][x] = NoRow
        BY <2>2, <3>4 DEF Inv, RowsInv, OneWriter
      <4>2. balance'[x] = balance[x] /\ net'[x] = net[x]
        <5>1. moved[c][x] = 0
          BY <4>1 DEF Inv, RowsInv, WritesExtend
        <5>2. QED
          BY <1>1, <1>3, <4>1, <5>1 DEF CurrentRow
      <4>3. QED
        BY <3>1, <3>2, <3>4, <4>2 DEF WritesExtend
    <3>5. QED
      BY <3>3, <3>4
  <2>3. QED
    BY <2>1, <2>2
<1>9. RowsInv'
  BY <1>6, <1>7, <1>8 DEF RowsInv
<1>10. SeenInv'
  <2> SUFFICES ASSUME NEW d \in Calls, call'[d].op = "RESERVE",
                      NEW a \in call'[d].plan
               PROVE  SeenIsCurrent(a)'
    BY DEF SeenInv
  <2>1. call'[d] = call[d]
    BY <1>1, EndStep, IdleCallShape
  <2>2. SeenIsCurrent(a) /\ a.bal \in Balances
    BY <2>1 DEF Inv, SeenInv, CallsInv, Call, Allocation
  <2>3. balance[a.bal] \in Row /\ balance'[a.bal] \in Row
    BY <1>1, <1>2, <1>3, <2>2
  <2>4. QED
    BY <1>4, <2>2, <2>3 DEF SeenIsCurrent, Row
<1>11. QED
  BY <1>1, <1>5, <1>9, <1>10, EndStep DEF Inv

\* Every step keeps the invariant.
LEMMA NextStep ==
  ASSUME Inv, [Next]_vars
  PROVE  Inv'
<1>1. CASE UNCHANGED vars
  BY <1>1 DEF vars, Inv, CallsInv, CallShape, HoldsInv, RowsInv, TablesInv,
              BalanceIsItsMovements, WritesExtend, OneWriter, SeenInv, SeenIsCurrent
<1>2. CASE Next
  <2>1. PICK c \in Calls :
          \/ BeginReceive(c)
          \/ BeginTake(c)
          \/ \E doc \in Documents : \/ BeginIssue(c, doc)
                                    \/ BeginReserve(c, doc)
                                    \/ BeginRelease(c, doc)
          \/ PlanLine(c)
          \/ Shortage(c)
          \/ PostReceive(c)
          \/ PostOutbound(c)
          \/ PostReserve(c)
          \/ PostRelease(c)
          \/ ReleaseRest(c)
          \/ Commit(c)
          \/ Abort(c)
    BY <1>2 DEF Next
  <2>2. CASE BeginReceive(c)
    BY <2>2, BeginReceiveStep
  <2>3. CASE BeginTake(c)
    BY <2>3, BeginTakeStep
  <2>4. CASE \E doc \in Documents : BeginIssue(c, doc)
    BY <2>4, BeginIssueStep
  <2>5. CASE \E doc \in Documents : BeginReserve(c, doc)
    BY <2>5, BeginReserveStep
  <2>6. CASE \E doc \in Documents : BeginRelease(c, doc)
    BY <2>6, BeginReleaseStep
  <2>7. CASE PlanLine(c)
    BY <2>7, PlanLineStep
  <2>8. CASE Shortage(c)
    BY <2>8, ShortageStep
  <2>9. CASE PostReceive(c)
    BY <2>9, PostReceiveStep
  <2>10. CASE PostOutbound(c)
    BY <2>10, PostOutboundStep
  <2>11. CASE PostReserve(c)
    BY <2>11, PostReserveStep
  <2>12. CASE PostRelease(c)
    BY <2>12, PostReleaseStep
  <2>13. CASE ReleaseRest(c)
    BY <2>13, ReleaseRestStep
  <2>14. CASE Commit(c)
    BY <2>14, CommitStep
  <2>15. CASE Abort(c)
    BY <2>15, AbortStep
  <2>16. QED
    BY <2>1, <2>2, <2>3, <2>4, <2>5, <2>6, <2>7, <2>8, <2>9, <2>10, <2>11,
       <2>12, <2>13, <2>14, <2>15
<1>3. QED
  BY <1>1, <1>2

-----------------------------------------------------------------------------
(* Reservations: what the steps share.                                      *)

\* What a hold withholds is a quantity.
LEMMA WeightType ==
  ASSUME NEW v \in Hold, NEW b
  PROVE  Weight(v, b) \in Nat
<1>1. v.qty \in Nat
  BY DEF Hold
<1>2. QED
  BY <1>1 DEF Weight

\* What is withheld by holds that weigh the same.
LEMMA HeldSame ==
  ASSUME NEW hs \in [HoldIds -> Hold], NEW ks \in [HoldIds -> Hold], NEW b,
         \A h \in HoldIds : Weight(ks[h], b) = Weight(hs[h], b)
  PROVE  HeldOn(ks, b) = HeldOn(hs, b)
<1>1. \A h \in HoldIds : Weight(hs[h], b) \in Nat
  BY WeightType
<1>2. [h \in HoldIds |-> Weight(ks[h], b)] = [h \in HoldIds |-> Weight(hs[h], b)]
  BY <1>1
<1>3. QED
  BY <1>2 DEF HeldOn

\* So is what each of them withholds.
LEMMA WeightsType ==
  ASSUME NEW hs \in [HoldIds -> Hold], NEW b
  PROVE  [h \in HoldIds |-> Weight(hs[h], b)] \in [HoldIds -> Nat]
<1>1. \A h \in HoldIds : Weight(hs[h], b) \in Nat
  BY WeightType
<1>2. QED
  BY <1>1

\* The ACTIVE reservations of b are what the committed holds withhold of it.
LEMMA ActiveIsHeld ==
  ASSUME HoldsInv, NEW b
  PROVE  ActiveOn(b) = HeldOn(hold, b)
<1> DEFINE T == {h \in HoldIds : hold[h].bal = b /\ hold[h].status = "ACTIVE"}
           g == [h \in HoldIds |-> Weight(hold[h], b)]
           k == [h \in T |-> hold[h].qty]
<1>1. hold \in [HoldIds -> Hold]
  BY DEF HoldsInv
<1>2. g \in [HoldIds -> Nat] /\ g \in [HoldIds -> Int]
  BY <1>1, WeightsType
<1>3. T \in SUBSET HoldIds /\ \A h \in HoldIds \ T : g[h] = 0
  BY DEF Weight
<1>4. \A h \in T : hold[h].qty \in Nat /\ g[h] = hold[h].qty
  BY <1>1 DEF Hold, Weight
<1>5. k \in [T -> Int] /\ \A h \in T : k[h] = g[h]
  BY <1>4
<1>6. ActiveOn(b) = SumFunction(k) /\ HeldOn(hold, b) = SumFunction(g)
  BY DEF ActiveOn, HeldOn
<1> HIDE DEF T, g, k
<1>7. QED
  BY <1>2, <1>3, <1>5, <1>6, HoldIdsFinite, SumNonZeros

\* A call that has not written b sees the holds on b as they are committed.
LEMMA SeenWeight ==
  ASSUME ReservedInv, NEW c \in Calls, NEW b \in Balances, NEW h \in HoldIds,
         row[c][b] = NoRow
  PROVE  Weight(CurrentHold(c, h), b) = Weight(hold[h], b)
<1>1. WrittenHold(c, h)
  BY DEF ReservedInv
<1>2. CASE holdRow[c][h] = NoRow
  BY <1>2 DEF CurrentHold
<1>3. CASE holdRow[c][h] # NoRow
  <2>1. /\ holdRow[c][h].bal # b
        /\ hold[h].status = "FREE" \/ hold[h].bal # b
    BY <1>1, <1>3 DEF WrittenHold
  <2>2. QED
    BY <1>3, <2>1 DEF CurrentHold, Weight
<1>4. QED
  BY <1>2, <1>3

\* The holds a call sees are well typed.
LEMMA SeenHoldsType ==
  ASSUME HoldsInv, NEW c \in Calls
  PROVE  SeenHolds(c) \in [HoldIds -> Hold]
BY CurrentHoldType DEF SeenHolds

\* The row a call would write next is backed as its own rows are.
LEMMA RowBacked ==
  ASSUME Inv, ReservedInv, NEW c \in Calls, NEW b \in Balances, RowIsFree(c, b)
  PROVE  \E q \in [HoldIds -> Nat] :
           CurrentRow(c, b).reserved <= SumFunction(q) /\ Backs(q, c, b)
<1>1. CASE row[c][b] # NoRow
  BY <1>1 DEF ReservedInv, WrittenBacked, CurrentRow
<1>2. CASE row[c][b] = NoRow
  <2>1. CommittedBacked(b)
    BY DEF ReservedInv
  <2>2. PICK q \in [HoldIds -> Nat] :
          /\ balance[b].reserved <= SumFunction(q)
          /\ \A h \in HoldIds : q[h] <= Weight(hold[h], b)
          /\ \A h \in HoldIds, d \in Calls :
               row[d][b] = NoRow /\ call[d].listed[h] # NoRow => q[h] <= call[d].listed[h].qty
    BY <2>1 DEF CommittedBacked
  <2>3. \A d \in Calls : row[d][b] = NoRow
    BY <1>2 DEF RowIsFree
  <2>4. \A h \in HoldIds : Weight(CurrentHold(c, h), b) = Weight(hold[h], b)
    BY <1>2, SeenWeight
  <2>5. Backs(q, c, b)
    BY <2>2, <2>3, <2>4 DEF Backs
  <2>6. CurrentRow(c, b) = balance[b]
    BY <1>2 DEF CurrentRow
  <2>7. QED
    BY <2>2, <2>5, <2>6
<1>3. QED
  BY <1>1, <1>2

\* What a call sees that has not gone astray, before anything was disturbed.
LEMMA RowEqual ==
  ASSUME Inv, ReservedInv, NEW c \in Calls, NEW b \in Balances,
         ~ disturbed, ~ call[c].astray
  PROVE  CurrentRow(c, b).reserved = HeldOn(SeenHolds(c), b)
<1>1. CASE row[c][b] # NoRow
  BY <1>1 DEF ReservedInv, WrittenEqual, CurrentRow
<1>2. CASE row[c][b] = NoRow
  <2>1. \A h \in HoldIds : Weight(SeenHolds(c)[h], b) = Weight(hold[h], b)
    BY <1>2, SeenWeight DEF SeenHolds
  <2>2. SeenHolds(c) \in [HoldIds -> Hold] /\ hold \in [HoldIds -> Hold]
    BY SeenHoldsType DEF Inv, HoldsInv
  <2>3. HeldOn(SeenHolds(c), b) = HeldOn(hold, b)
    BY <2>1, <2>2, HeldSame
  <2>4. balance[b].reserved = HeldOn(hold, b)
    BY DEF ReservedInv, CommittedEqual
  <2>5. QED
    BY <1>2, <2>3, <2>4 DEF CurrentRow
<1>3. QED
  BY <1>1, <1>2

\* What a posting step may do to the holds of c, all of them on b.
PostedHold(c, b, h) ==
  /\ HoldIsFree(c, h)
  /\ CurrentHold(c, h).status = "FREE" \/ CurrentHold(c, h).bal = b
  /\ hold[h].status = "FREE" \/ hold[h].bal = b
  /\ call[c].op # "RESERVE" => hold[h].status # "FREE"

\* A posting that saves b and some holds on b keeps the reservations, if the
\* saved row is backed and, of a call that is not astray, equal.
LEMMA PostKeepsHolds ==
  ASSUME Inv, ReservedInv, Inv', NEW c \in Calls, NEW b \in Balances, NEW r \in Row,
         SaveRow(c, b, r), UNCHANGED <<balance, hold, disturbed>>,
         call'[c].phase = "POSTING", call'[c].op = call[c].op,
         call[c].astray => call'[c].astray,
         \A d \in Calls \ {c} : call'[d] = call[d] /\ holdRow'[d] = holdRow[d],
         NEW S \in SUBSET HoldIds,
         \A h \in HoldIds \ S : /\ holdRow'[c][h] = holdRow[c][h]
                                /\ call'[c].listed[h] = call[c].listed[h],
         \A h \in S : /\ PostedHold(c, b, h)
                      /\ holdRow'[c][h] \in Hold
                      /\ holdRow'[c][h].bal = b
                      /\ holdRow'[c][h].status # "FREE",
         \A h \in S : call'[c].listed[h] # NoRow =>
                      /\ call[c].listed[h] # NoRow
                      /\ call'[c].listed[h].bal = b
                      /\ \/ call'[c].listed[h].status = "ACTIVE"
                         \/ call'[c].listed[h].status = "CONSUMED" /\ call'[c].listed[h].qty = 0,
         \E q \in [HoldIds -> Nat] : r.reserved <= SumFunction(q) /\ Backs(q, c, b)',
         ~ disturbed /\ ~ call'[c].astray => r.reserved = HeldOn(SeenHolds(c), b)'
  PROVE  ReservedInv'
<1>1. /\ row \in [Calls -> [Balances -> Row \union {NoRow}]]
      /\ \A d \in Calls \ {c} : row[d][b] = NoRow
      /\ r # NoRow
  BY NoRowAssumption DEF Inv, RowsInv, TablesInv, SaveRow, RowIsFree
<1>2. \A d \in Calls, x \in Balances : row'[d][x] = IF d = c /\ x = b THEN r ELSE row[d][x]
  BY <1>1 DEF SaveRow
<1>3. /\ \A d \in Calls, h \in HoldIds : WrittenHold(d, h) /\ ListedHold(d, h)
      /\ \A d \in Calls : NothingWrittenYet(d)
  BY DEF ReservedInv
<1>4. \A h \in S : holdRow'[c][h] # NoRow
  BY NoRowAssumption
<1>5. \A h \in HoldIds : hold[h] \in Hold
  BY DEF Inv, HoldsInv
<1>6. \A d \in Calls, h \in HoldIds : CurrentHold(d, h) \in Hold /\ CurrentHold(d, h)' \in Hold
  <2> TAKE d \in Calls, h \in HoldIds
  <2>1. CurrentHold(d, h) \in Hold
    BY CurrentHoldType DEF Inv
  <2>2. hold' \in [HoldIds -> Hold] /\ holdRow' \in [Calls -> [HoldIds -> Hold \union {NoRow}]]
    BY DEF Inv, HoldsInv
  <2>3. CurrentHold(d, h)' \in Hold
    BY <2>2 DEF CurrentHold
  <2>4. QED
    BY <2>1, <2>3
<1>7. \A d \in Calls, h \in HoldIds :
        call'[d].listed[h] # NoRow => call'[d].listed[h].qty \in Nat
  <2> TAKE d \in Calls, h \in HoldIds
  <2>1. call'[d].listed \in [HoldIds -> Hold \union {NoRow}]
    BY DEF Inv, CallsInv, Call
  <2>2. call'[d].listed[h] # NoRow => call'[d].listed[h] \in Hold
    BY <2>1
  <2>3. QED
    BY <2>2 DEF Hold
<1>8. \A h \in S, x \in Balances : x # b =>
        /\ Weight(CurrentHold(c, h), x) = 0
        /\ Weight(CurrentHold(c, h)', x) = 0
        /\ Weight(hold[h], x) = 0
  <2> TAKE h \in S, x \in Balances
  <2>1. CurrentHold(c, h)' = holdRow'[c][h]
    BY <1>4 DEF CurrentHold
  <2>2. QED
    BY <2>1 DEF Weight, PostedHold
<1>9. \A d \in Calls, h \in HoldIds : d # c \/ h \notin S =>
        /\ holdRow'[d][h] = holdRow[d][h]
        /\ call'[d].listed[h] = call[d].listed[h]
        /\ CurrentHold(d, h)' = CurrentHold(d, h)
  BY DEF CurrentHold
<1>10. \A d \in Calls, h \in HoldIds, x \in Balances : x # b =>
         Weight(CurrentHold(d, h)', x) = Weight(CurrentHold(d, h), x)
  BY <1>8, <1>9
<1>11. \A d \in Calls : NothingWrittenYet(d)'
  <2> TAKE d \in Calls
  <2>1. CASE d = c
    BY <2>1 DEF NothingWrittenYet
  <2>2. CASE d # c
    BY <1>2, <1>3, <1>9, <2>2 DEF NothingWrittenYet
  <2>3. QED
    BY <2>1, <2>2
<1>12. \A d \in Calls, h \in HoldIds : WrittenHold(d, h)'
  <2> TAKE d \in Calls, h \in HoldIds
  <2>1. CASE d = c /\ h \in S
    <3>1. \A e \in Calls \ {c} : holdRow'[e][h] = NoRow
      BY <2>1, <1>9 DEF PostedHold, HoldIsFree
    <3>2. row'[c][b] # NoRow
      BY <1>1, <1>2
    <3>3. QED
      BY <2>1, <3>1, <3>2 DEF WrittenHold, PostedHold
  <2>2. CASE ~ (d = c /\ h \in S)
    <3>1. /\ holdRow'[d][h] = holdRow[d][h]
          /\ call'[d].op = call[d].op
      BY <1>9, <2>2
    <3>2. SUFFICES ASSUME holdRow[d][h] # NoRow PROVE WrittenHold(d, h)'
      BY <3>1 DEF WrittenHold
    <3>3. /\ holdRow[d][h].status # "FREE"
          /\ row[d][holdRow[d][h].bal] # NoRow
          /\ hold[h].status = "FREE" \/ hold[h].bal = holdRow[d][h].bal
          /\ call[d].op # "RESERVE" => hold[h].status # "FREE"
          /\ \A e \in Calls : holdRow[e][h] # NoRow => e = d
      BY <1>3, <3>2 DEF WrittenHold
    <3>4. holdRow[d][h].bal \in Balances
      <4>1. holdRow[d][h] \in Hold
        BY <3>2 DEF Inv, HoldsInv
      <4>2. QED
        BY <4>1 DEF Hold
    <3>5. row'[d][holdRow[d][h].bal] # NoRow
      BY <1>1, <1>2, <3>3, <3>4
    <3>6. \A e \in Calls : holdRow'[e][h] # NoRow => e = d
      <4> TAKE e \in Calls
      <4>1. CASE e = c /\ h \in S
        <5>1. d # c /\ HoldIsFree(c, h)
          BY <2>2, <4>1 DEF PostedHold
        <5>2. QED
          BY <3>2, <5>1 DEF HoldIsFree
      <4>2. CASE ~ (e = c /\ h \in S)
        BY <1>9, <3>3, <4>2
      <4>3. QED
        BY <4>1, <4>2
    <3>7. QED
      BY <3>1, <3>3, <3>5, <3>6 DEF WrittenHold
  <2>3. QED
    BY <2>1, <2>2
<1>13. \A d \in Calls, h \in HoldIds : ListedHold(d, h)'
  <2> TAKE d \in Calls, h \in HoldIds
  <2>1. CASE d = c /\ h \in S
    <3> SUFFICES ASSUME call'[c].listed[h] # NoRow PROVE ListedHold(c, h)'
      BY <2>1 DEF ListedHold
    <3>1. hold[h].status # "FREE"
      BY <1>3, <2>1 DEF ListedHold
    <3>2. hold[h].bal = b
      BY <2>1, <3>1 DEF PostedHold
    <3>3. QED
      BY <2>1, <3>1, <3>2 DEF ListedHold
  <2>2. CASE ~ (d = c /\ h \in S)
    BY <1>3, <1>9, <2>2 DEF ListedHold
  <2>3. QED
    BY <2>1, <2>2
<1>14. \A h \in S, x \in Balances, q \in [HoldIds -> Nat] :
         x # b /\ q[h] <= Weight(hold[h], x) => q[h] = 0
  BY <1>8
<1>15. \A x \in Balances : CommittedBacked(x)'
  <2> TAKE x \in Balances
  <2>1. CommittedBacked(x)
    BY DEF ReservedInv
  <2>2. PICK q \in [HoldIds -> Nat] :
          /\ balance[x].reserved <= SumFunction(q)
          /\ \A h \in HoldIds : q[h] <= Weight(hold[h], x)
          /\ \A h \in HoldIds, d \in Calls :
               row[d][x] = NoRow /\ call[d].listed[h] # NoRow => q[h] <= call[d].listed[h].qty
    BY <2>1 DEF CommittedBacked
  <2>3. ASSUME NEW h \in HoldIds, NEW d \in Calls, row'[d][x] = NoRow,
               call'[d].listed[h] # NoRow
        PROVE  q[h] <= call'[d].listed[h].qty
    <3>1. row[d][x] = NoRow /\ (d = c => x # b)
      BY <1>1, <1>2, <2>3
    <3>2. CASE d = c /\ h \in S
      <4>1. q[h] = 0
        BY <1>14, <2>2, <3>1, <3>2
      <4>2. call'[d].listed[h].qty \in Nat
        BY <1>7, <2>3, <3>2
      <4>3. QED
        BY <4>1, <4>2
    <3>3. CASE ~ (d = c /\ h \in S)
      BY <1>9, <2>2, <2>3, <3>1, <3>3
    <3>4. QED
      BY <3>2, <3>3
  <2>4. QED
    BY <2>2, <2>3 DEF CommittedBacked
<1>16. \A d \in Calls, x \in Balances : WrittenBacked(d, x)'
  <2> TAKE d \in Calls, x \in Balances
  <2>1. CASE d = c /\ x = b
    <3>1. row'[c][b] = r
      BY <1>2
    <3>2. QED
      BY <2>1, <3>1 DEF WrittenBacked
  <2>2. CASE ~ (d = c /\ x = b) /\ row'[d][x] # NoRow
    <3>1. row'[d][x] = row[d][x] /\ row[d][x] # NoRow /\ x # b
      BY <1>1, <1>2, <2>2
    <3>2. PICK q \in [HoldIds -> Nat] : row[d][x].reserved <= SumFunction(q) /\ Backs(q, d, x)
      BY <3>1 DEF ReservedInv, WrittenBacked
    <3>3. \A h \in HoldIds : q[h] <= Weight(CurrentHold(d, h)', x)
      BY <1>10, <3>1, <3>2 DEF Backs
    <3>4. ASSUME NEW h \in HoldIds, NEW e \in Calls, call'[e].listed[h] # NoRow
          PROVE  q[h] <= call'[e].listed[h].qty
      <4>1. CASE e = c /\ h \in S
        <5>1. call[c].listed[h] # NoRow
          BY <3>4, <4>1
        <5>2. hold[h].status # "FREE"
          BY <1>3, <5>1 DEF ListedHold
        <5>3. q[h] = 0
          BY <1>14, <3>1, <3>2, <4>1, <5>2 DEF Backs
        <5>4. call'[e].listed[h].qty \in Nat
          BY <1>7, <3>4, <4>1, <5>1
        <5>5. QED
          BY <5>3, <5>4
      <4>2. CASE ~ (e = c /\ h \in S)
        BY <1>9, <3>2, <3>4, <4>2 DEF Backs
      <4>3. QED
        BY <4>1, <4>2
    <3>5. Backs(q, d, x)'
      BY <3>2, <3>3, <3>4 DEF Backs
    <3>6. QED
      BY <3>1, <3>2, <3>5 DEF WrittenBacked
  <2>3. QED
    BY <2>1, <2>2 DEF WrittenBacked
<1>17. \A d \in Calls, x \in Balances : WrittenEqual(d, x)'
  <2> TAKE d \in Calls, x \in Balances
  <2>1. CASE d = c /\ x = b
    BY <1>2, <2>1 DEF WrittenEqual
  <2>2. CASE ~ (d = c /\ x = b) /\ row'[d][x] # NoRow /\ ~ disturbed /\ ~ call'[d].astray
    <3>1. row'[d][x] = row[d][x] /\ row[d][x] # NoRow /\ x # b
      BY <1>1, <1>2, <2>2
    <3>2. ~ call[d].astray
      BY <2>2, <1>9
    <3>3. row[d][x].reserved = HeldOn(SeenHolds(d), x)
      BY <2>2, <3>1, <3>2 DEF ReservedInv, WrittenEqual
    <3> DEFINE new == [h \in HoldIds |-> CurrentHold(d, h)']
    <3>4. new \in [HoldIds -> Hold] /\ SeenHolds(d) \in [HoldIds -> Hold]
      BY <1>6 DEF SeenHolds
    <3>5. \A h \in HoldIds : Weight(new[h], x) = Weight(SeenHolds(d)[h], x)
      BY <1>10, <3>1 DEF SeenHolds
    <3>6. SeenHolds(d)' = new
      BY DEF SeenHolds
    <3> HIDE DEF new
    <3>7. HeldOn(new, x) = HeldOn(SeenHolds(d), x)
      BY <3>4, <3>5, HeldSame
    <3>8. HeldOn(SeenHolds(d), x)' = HeldOn(new, x)
      BY <3>6 DEF HeldOn
    <3>9. QED
      BY <3>1, <3>3, <3>7, <3>8 DEF WrittenEqual
  <2>3. QED
    BY <2>1, <2>2 DEF WrittenEqual
<1>18. \A x \in Balances : CommittedEqual(x)'
  BY ZenonT(30) DEF ReservedInv, CommittedEqual, HeldOn
<1>19. QED
  BY <1>11, <1>12, <1>13, <1>15, <1>16, <1>17, <1>18 DEF ReservedInv

\* What listActive may have found of h: nothing, or what c sees of it.
FoundHold(c, h) ==
  /\ CurrentHold(c, h).status = "ACTIVE"
  /\ call[c].phase = "POSTING" => call[c].op # "RESERVE"

\* A hold withholds no more than its quantity.
LEMMA WeightAtMost ==
  ASSUME NEW v \in Hold, NEW b
  PROVE  Weight(v, b) <= v.qty
<1>1. v.qty \in Nat
  BY DEF Hold
<1>2. QED
  BY <1>1 DEF Weight

\* A step of the memory of one call.
LEMMA MemoryKeepsHolds ==
  ASSUME Inv, ReservedInv, Inv', NEW c \in Calls, UNCHANGED <<committed, written>>,
         \A d \in Calls \ {c} : call'[d] = call[d],
         call[c].phase = "POSTING" =>
           /\ call'[c].phase = "POSTING"
           /\ call[c].op = "RESERVE" => call'[c].op = "RESERVE"
           /\ call[c].astray => call'[c].astray,
         \A h \in HoldIds : \/ call'[c].listed[h] = NoRow
                            \/ call'[c].listed[h] = call[c].listed[h]
                            \/ FoundHold(c, h) /\ call'[c].listed[h] = CurrentHold(c, h)
  PROVE  ReservedInv'
<1>1. UNCHANGED <<balance, hold, disturbed, row, holdRow>>
  BY DEF committed, written
<1>2. /\ \A d \in Calls, h \in HoldIds : WrittenHold(d, h) /\ ListedHold(d, h)
      /\ \A d \in Calls : NothingWrittenYet(d)
  BY DEF ReservedInv
<1>3. \A d \in Calls, h \in HoldIds : CurrentHold(d, h)' = CurrentHold(d, h)
  BY <1>1 DEF CurrentHold
<1>4. \A h \in HoldIds : FoundHold(c, h) =>
        /\ hold[h].status # "FREE"
        /\ CurrentHold(c, h).bal = hold[h].bal
  <2> TAKE h \in HoldIds
  <2>1. CASE holdRow[c][h] = NoRow
    BY <2>1 DEF CurrentHold, FoundHold
  <2>2. CASE holdRow[c][h] # NoRow
    <3>1. call[c].phase = "POSTING"
      BY <1>2, <2>2 DEF NothingWrittenYet
    <3>2. QED
      BY <1>2, <2>2, <3>1 DEF WrittenHold, CurrentHold, FoundHold
  <2>3. QED
    BY <2>1, <2>2
<1>5. \A d \in Calls, h \in HoldIds :
        \/ call'[d].listed[h] = NoRow
        \/ call'[d].listed[h] = call[d].listed[h]
        \/ d = c /\ FoundHold(c, h) /\ call'[d].listed[h] = CurrentHold(c, h)
  OBVIOUS
<1>6. \A h \in HoldIds : CurrentHold(c, h) \in Hold /\ CurrentHold(c, h).qty \in Nat
  <2> TAKE h \in HoldIds
  <2>1. CurrentHold(c, h) \in Hold
    BY CurrentHoldType DEF Inv
  <2>2. QED
    BY <2>1 DEF Hold
<1>7. \A h \in HoldIds, x \in Balances : Weight(CurrentHold(c, h), x) <= CurrentHold(c, h).qty
  BY <1>6, WeightAtMost
<1>8. \A h \in HoldIds, x \in Balances :
        Weight(hold[h], x) \in Nat /\ Weight(CurrentHold(c, h), x) \in Nat
  BY <1>6, WeightType DEF Inv, HoldsInv
<1>9. \A d \in Calls : NothingWrittenYet(d)'
  BY <1>1, <1>2 DEF NothingWrittenYet
<1>10. \A d \in Calls, h \in HoldIds : WrittenHold(d, h)'
  <2> TAKE d \in Calls, h \in HoldIds
  <2>1. CASE holdRow[d][h] # NoRow
    <3>1. call[d].phase = "POSTING"
      BY <1>2, <2>1 DEF NothingWrittenYet
    <3>2. call[d].op = "RESERVE" => call'[d].op = "RESERVE"
      BY <3>1
    <3>3. QED
      BY <1>1, <1>2, <2>1, <3>2 DEF WrittenHold
  <2>2. QED
    BY <1>1, <2>1 DEF WrittenHold
<1>11. \A d \in Calls, h \in HoldIds : ListedHold(d, h)'
  <2> TAKE d \in Calls, h \in HoldIds
  <2>1. CASE call'[d].listed[h] = call[d].listed[h]
    BY <1>1, <1>2, <2>1 DEF ListedHold
  <2>2. CASE d = c /\ FoundHold(c, h) /\ call'[d].listed[h] = CurrentHold(c, h)
    BY <1>1, <1>4, <2>2 DEF ListedHold, FoundHold
  <2>3. QED
    BY <1>5, <2>1, <2>2 DEF ListedHold
<1>12. \A x \in Balances : CommittedBacked(x)'
  <2> TAKE x \in Balances
  <2>1. CommittedBacked(x)
    BY DEF ReservedInv
  <2>2. PICK q \in [HoldIds -> Nat] :
          /\ balance[x].reserved <= SumFunction(q)
          /\ \A h \in HoldIds : q[h] <= Weight(hold[h], x)
          /\ \A h \in HoldIds, d \in Calls :
               row[d][x] = NoRow /\ call[d].listed[h] # NoRow => q[h] <= call[d].listed[h].qty
    BY <2>1 DEF CommittedBacked
  <2>3. ASSUME NEW h \in HoldIds, NEW d \in Calls, row[d][x] = NoRow,
               call'[d].listed[h] # NoRow
        PROVE  q[h] <= call'[d].listed[h].qty
    <3>1. CASE call'[d].listed[h] = call[d].listed[h]
      BY <2>2, <2>3, <3>1
    <3>2. CASE d = c /\ FoundHold(c, h) /\ call'[d].listed[h] = CurrentHold(c, h)
      <4>1. Weight(CurrentHold(c, h), x) = Weight(hold[h], x)
        BY <2>3, <3>2, SeenWeight
      <4>2. q[h] \in Nat /\ q[h] <= Weight(CurrentHold(c, h), x)
        BY <2>2, <4>1
      <4>3. QED
        BY <1>6, <1>7, <1>8, <3>2, <4>2
    <3>3. QED
      BY <1>5, <2>3, <3>1, <3>2
  <2>4. QED
    BY <1>1, <2>2, <2>3 DEF CommittedBacked
<1>13. \A d \in Calls, x \in Balances : WrittenBacked(d, x)'
  <2> TAKE d \in Calls, x \in Balances
  <2> SUFFICES ASSUME row[d][x] # NoRow PROVE WrittenBacked(d, x)'
    BY <1>1 DEF WrittenBacked
  <2>1. PICK q \in [HoldIds -> Nat] : row[d][x].reserved <= SumFunction(q) /\ Backs(q, d, x)
    BY DEF ReservedInv, WrittenBacked
  <2>2. ASSUME NEW h \in HoldIds, NEW e \in Calls, call'[e].listed[h] # NoRow
        PROVE  q[h] <= call'[e].listed[h].qty
    <3>1. CASE call'[e].listed[h] = call[e].listed[h]
      BY <2>1, <2>2, <3>1 DEF Backs
    <3>2. CASE e = c /\ FoundHold(c, h) /\ call'[e].listed[h] = CurrentHold(c, h)
      <4>1. CASE d = c
        <5>1. q[h] \in Nat /\ q[h] <= Weight(CurrentHold(c, h), x)
          BY <2>1, <4>1 DEF Backs
        <5>2. QED
          BY <1>6, <1>7, <1>8, <3>2, <5>1
      <4>2. CASE d # c
        <5>1. row[c][x] = NoRow
          BY <4>2 DEF Inv, RowsInv, OneWriter
        <5>2. Weight(CurrentHold(c, h), x) = Weight(hold[h], x)
          BY <5>1, SeenWeight
        <5>3. q[h] \in Nat /\ q[h] <= Weight(CurrentHold(c, h), x)
          BY <1>4, <2>1, <3>2, <5>2 DEF Backs
        <5>4. QED
          BY <1>6, <1>7, <1>8, <3>2, <5>3
      <4>3. QED
        BY <4>1, <4>2
    <3>3. QED
      BY <1>5, <2>2, <3>1, <3>2
  <2>3. Backs(q, d, x)'
    BY <1>1, <1>3, <2>1, <2>2 DEF Backs
  <2>4. QED
    BY <1>1, <2>1, <2>3 DEF WrittenBacked
<1>14. \A d \in Calls, x \in Balances : WrittenEqual(d, x)'
  <2> TAKE d \in Calls, x \in Balances
  <2> SUFFICES ASSUME row[d][x] # NoRow, ~ disturbed, ~ call'[d].astray
               PROVE  WrittenEqual(d, x)'
    BY <1>1 DEF WrittenEqual
  <2>1. call[d].phase = "POSTING"
    BY <1>2 DEF NothingWrittenYet
  <2>2. ~ call[d].astray
    BY <2>1
  <2>3. SeenHolds(d)' = SeenHolds(d)
    BY <1>3 DEF SeenHolds
  <2>4. QED
    BY <1>1, <2>2, <2>3 DEF ReservedInv, WrittenEqual, HeldOn
<1>15. \A x \in Balances : CommittedEqual(x)'
  BY <1>1 DEF ReservedInv, CommittedEqual, HeldOn
<1>16. QED
  BY <1>1, <1>9, <1>10, <1>11, <1>12, <1>13, <1>14, <1>15 DEF ReservedInv

\* The end of a transaction, committed or not.
LEMMA AbortKeepsHolds ==
  ASSUME Inv, ReservedInv, Inv', NEW c \in Calls, Abort(c)
  PROVE  ReservedInv'
<1>1. UNCHANGED <<balance, hold, disturbed>>
  BY DEF Abort, committed
<1>2. End(c)
  BY DEF Abort
<1>3. /\ \A d \in Calls : call'[d] = IF d = c THEN IdleCall ELSE call[d]
      /\ \A d \in Calls, x \in Balances : row'[d][x] = IF d = c THEN NoRow ELSE row[d][x]
  BY <1>2, EndStep
<1>4. \A d \in Calls, h \in HoldIds :
        holdRow'[d][h] = IF d = c THEN NoRow ELSE holdRow[d][h]
  BY <1>2 DEF End, NoHolds, Inv, HoldsInv
<1>5. \A h \in HoldIds : call'[c].listed[h] = NoRow
  BY <1>3 DEF IdleCall, NoHolds
<1>6. /\ \A d \in Calls, h \in HoldIds : WrittenHold(d, h) /\ ListedHold(d, h)
      /\ \A d \in Calls : NothingWrittenYet(d)
  BY DEF ReservedInv
<1>7. \A d \in Calls \ {c} : call'[d] = call[d]
  BY <1>3
<1>8. \A d \in Calls \ {c}, h \in HoldIds : CurrentHold(d, h)' = CurrentHold(d, h)
  BY <1>1, <1>4 DEF CurrentHold
<1>9. \A d \in Calls : NothingWrittenYet(d)'
  BY <1>3, <1>4, <1>6 DEF NothingWrittenYet
<1>10. \A d \in Calls, h \in HoldIds : WrittenHold(d, h)'
  <2> TAKE d \in Calls, h \in HoldIds
  <2> SUFFICES ASSUME d # c, holdRow[d][h] # NoRow PROVE WrittenHold(d, h)'
    BY <1>4 DEF WrittenHold
  <2>1. holdRow[d][h].bal \in Balances
    <3>1. holdRow[d][h] \in Hold
      BY DEF Inv, HoldsInv
    <3>2. QED
      BY <3>1 DEF Hold
  <2>2. WrittenHold(d, h)
    BY <1>6
  <2>3. QED
    BY <1>1, <1>3, <1>4, <1>7, <2>1, <2>2 DEF WrittenHold
<1>11. \A d \in Calls, h \in HoldIds : ListedHold(d, h)'
  BY <1>1, <1>5, <1>6, <1>7 DEF ListedHold
<1>12. \A x \in Balances : CommittedBacked(x)'
  <2> TAKE x \in Balances
  <2>1. CommittedBacked(x)
    BY DEF ReservedInv
  <2>2. PICK q \in [HoldIds -> Nat] :
          /\ balance[x].reserved <= SumFunction(q)
          /\ \A h \in HoldIds : q[h] <= Weight(hold[h], x)
          /\ \A h \in HoldIds, d \in Calls :
               row[d][x] = NoRow /\ call[d].listed[h] # NoRow => q[h] <= call[d].listed[h].qty
    BY <2>1 DEF CommittedBacked
  <2>3. \A h \in HoldIds, d \in Calls :
          row'[d][x] = NoRow /\ call'[d].listed[h] # NoRow => q[h] <= call'[d].listed[h].qty
    BY <1>3, <1>5, <1>7, <2>2
  <2>4. QED
    BY <1>1, <2>2, <2>3 DEF CommittedBacked
<1>13. \A d \in Calls, x \in Balances : WrittenBacked(d, x)'
  <2> TAKE d \in Calls, x \in Balances
  <2> SUFFICES ASSUME d # c, row[d][x] # NoRow PROVE WrittenBacked(d, x)'
    BY <1>3 DEF WrittenBacked
  <2>1. PICK q \in [HoldIds -> Nat] : row[d][x].reserved <= SumFunction(q) /\ Backs(q, d, x)
    BY DEF ReservedInv, WrittenBacked
  <2>2. Backs(q, d, x)'
    BY <1>1, <1>5, <1>7, <1>8, <2>1 DEF Backs
  <2>3. QED
    BY <1>3, <2>1, <2>2 DEF WrittenBacked
<1>14. \A d \in Calls, x \in Balances : WrittenEqual(d, x)'
  <2> TAKE d \in Calls, x \in Balances
  <2> SUFFICES ASSUME d # c, row[d][x] # NoRow, ~ disturbed, ~ call[d].astray
               PROVE  WrittenEqual(d, x)'
    BY <1>1, <1>3 DEF WrittenEqual
  <2>1. SeenHolds(d)' = SeenHolds(d)
    BY <1>8 DEF SeenHolds
  <2>2. QED
    BY <1>3, <2>1 DEF ReservedInv, WrittenEqual, HeldOn
<1>15. \A x \in Balances : CommittedEqual(x)'
  BY <1>1 DEF ReservedInv, CommittedEqual, HeldOn
<1>16. QED
  BY <1>1, <1>9, <1>10, <1>11, <1>12, <1>13, <1>14, <1>15 DEF ReservedInv

\* The commit: what the call saw becomes what is committed; of a balance that
\* others have written it saw the committed row and holds.
LEMMA CommitKeepsHolds ==
  ASSUME Inv, ReservedInv, Inv', NEW c \in Calls, Commit(c)
  PROVE  ReservedInv'
<1>1. /\ End(c)
      /\ balance' = [b \in Balances |-> CurrentRow(c, b)]
      /\ hold' = [h \in HoldIds |-> CurrentHold(c, h)]
      /\ disturbed' = (disturbed \/ call[c].astray)
  BY DEF Commit
<1>2. /\ \A b \in Balances : balance'[b] = CurrentRow(c, b)
      /\ \A h \in HoldIds : hold'[h] = CurrentHold(c, h)
  BY <1>1
<1>3. /\ \A d \in Calls : call'[d] = IF d = c THEN IdleCall ELSE call[d]
      /\ \A d \in Calls, x \in Balances : row'[d][x] = IF d = c THEN NoRow ELSE row[d][x]
  BY <1>1, EndStep
<1>4. \A d \in Calls, h \in HoldIds :
        holdRow'[d][h] = IF d = c THEN NoRow ELSE holdRow[d][h]
  BY <1>1 DEF End, NoHolds, Inv, HoldsInv
<1>5. \A h \in HoldIds : call'[c].listed[h] = NoRow
  BY <1>3 DEF IdleCall, NoHolds
<1>6. /\ \A d \in Calls, h \in HoldIds : WrittenHold(d, h) /\ ListedHold(d, h)
      /\ \A d \in Calls : NothingWrittenYet(d)
  BY DEF ReservedInv
<1>7. \A d \in Calls \ {c} : call'[d] = call[d]
  BY <1>3
<1>8. \A h \in HoldIds : hold[h].status # "FREE" =>
        CurrentHold(c, h).status # "FREE" /\ CurrentHold(c, h).bal = hold[h].bal
  BY <1>6 DEF WrittenHold, CurrentHold
<1>9. \A h \in HoldIds : hold[h] \in Hold /\ CurrentHold(c, h) \in Hold
  BY CurrentHoldType DEF Inv, HoldsInv
<1>10. \A h \in HoldIds, x \in Balances : Weight(hold[h], x) \in Nat
  BY <1>9, WeightType
<1>11. \A d \in Calls \ {c}, x \in Balances : row[d][x] # NoRow => row[c][x] = NoRow
  BY DEF Inv, RowsInv, OneWriter
\* What the others have written, and see of a balance they have written.
<1>12. \A d \in Calls \ {c}, h \in HoldIds : holdRow[d][h] # NoRow =>
         holdRow[c][h] = NoRow /\ hold'[h] = hold[h]
  BY <1>2, <1>6 DEF WrittenHold, CurrentHold
<1>13. \A d \in Calls \ {c}, h \in HoldIds, x \in Balances : row[c][x] = NoRow =>
         Weight(CurrentHold(d, h)', x) = Weight(CurrentHold(d, h), x)
  <2> TAKE d \in Calls \ {c}, h \in HoldIds, x \in Balances
  <2>1. CASE holdRow[d][h] # NoRow
    BY <1>4, <2>1 DEF CurrentHold
  <2>2. CASE holdRow[d][h] = NoRow
    <3>1. CurrentHold(d, h) = hold[h] /\ CurrentHold(d, h)' = CurrentHold(c, h)
      BY <1>2, <1>4, <2>2 DEF CurrentHold
    <3>2. QED
      BY <3>1, SeenWeight
  <2>3. QED
    BY <2>1, <2>2
<1>14. \A d \in Calls : NothingWrittenYet(d)'
  BY <1>3, <1>4, <1>6 DEF NothingWrittenYet
<1>15. \A d \in Calls, h \in HoldIds : WrittenHold(d, h)'
  <2> TAKE d \in Calls, h \in HoldIds
  <2> SUFFICES ASSUME d # c, holdRow[d][h] # NoRow PROVE WrittenHold(d, h)'
    BY <1>4 DEF WrittenHold
  <2>1. holdRow[d][h].bal \in Balances
    <3>1. holdRow[d][h] \in Hold
      BY DEF Inv, HoldsInv
    <3>2. QED
      BY <3>1 DEF Hold
  <2>2. WrittenHold(d, h) /\ hold'[h] = hold[h]
    BY <1>6, <1>12
  <2>3. QED
    BY <1>3, <1>4, <1>7, <2>1, <2>2 DEF WrittenHold
<1>16. \A d \in Calls, h \in HoldIds : ListedHold(d, h)'
  <2> TAKE d \in Calls, h \in HoldIds
  <2> SUFFICES ASSUME d # c, call[d].listed[h] # NoRow PROVE ListedHold(d, h)'
    BY <1>5, <1>7 DEF ListedHold
  <2>1. hold'[h].status # "FREE" /\ hold'[h].bal = hold[h].bal
    BY <1>2, <1>6, <1>8 DEF ListedHold
  <2>2. QED
    BY <1>6, <1>7, <2>1 DEF ListedHold
<1>17. \A x \in Balances : CommittedBacked(x)'
  <2> TAKE x \in Balances
  <2>1. PICK q \in [HoldIds -> Nat] :
          /\ balance'[x].reserved <= SumFunction(q)
          /\ \A h \in HoldIds : q[h] <= Weight(CurrentHold(c, h), x)
          /\ \A h \in HoldIds, d \in Calls \ {c} :
               row[d][x] = NoRow /\ call[d].listed[h] # NoRow => q[h] <= call[d].listed[h].qty
    <3>1. CASE row[c][x] # NoRow
      <4>1. PICK q \in [HoldIds -> Nat] : row[c][x].reserved <= SumFunction(q) /\ Backs(q, c, x)
        BY <3>1 DEF ReservedInv, WrittenBacked
      <4>2. balance'[x] = row[c][x]
        BY <1>2, <3>1 DEF CurrentRow
      <4>3. QED
        BY <4>1, <4>2 DEF Backs
    <3>2. CASE row[c][x] = NoRow
      <4>1. CommittedBacked(x)
        BY DEF ReservedInv
      <4>2. balance'[x] = balance[x]
        BY <1>2, <3>2 DEF CurrentRow
      <4>3. \A h \in HoldIds : Weight(CurrentHold(c, h), x) = Weight(hold[h], x)
        BY <3>2, SeenWeight
      <4>4. QED
        BY <4>1, <4>2, <4>3 DEF CommittedBacked
    <3>3. QED
      BY <3>1, <3>2
  <2>2. \A h \in HoldIds : q[h] <= Weight(hold'[h], x)
    BY <1>2, <2>1
  <2>3. \A h \in HoldIds, d \in Calls :
          row'[d][x] = NoRow /\ call'[d].listed[h] # NoRow => q[h] <= call'[d].listed[h].qty
    BY <1>3, <1>5, <1>7, <2>1
  <2>4. QED
    BY <2>1, <2>2, <2>3 DEF CommittedBacked
<1>18. \A d \in Calls, x \in Balances : WrittenBacked(d, x)'
  <2> TAKE d \in Calls, x \in Balances
  <2> SUFFICES ASSUME d # c, row[d][x] # NoRow PROVE WrittenBacked(d, x)'
    BY <1>3 DEF WrittenBacked
  <2>1. row[c][x] = NoRow
    BY <1>11
  <2>2. PICK q \in [HoldIds -> Nat] : row[d][x].reserved <= SumFunction(q) /\ Backs(q, d, x)
    BY DEF ReservedInv, WrittenBacked
  <2>3. \A h \in HoldIds : q[h] <= Weight(CurrentHold(d, h)', x)
    BY <1>13, <2>1, <2>2 DEF Backs
  <2>4. \A h \in HoldIds : hold'[h].status # "FREE" => q[h] <= Weight(hold'[h], x)
    <3> TAKE h \in HoldIds
    <3>1. Weight(hold'[h], x) = Weight(hold[h], x)
      BY <1>2, <2>1, SeenWeight
    <3>2. CASE hold[h].status # "FREE"
      BY <2>2, <3>1, <3>2 DEF Backs
    <3>3. CASE hold[h].status = "FREE" /\ hold'[h].status # "FREE"
      <4>1. holdRow[d][h] = NoRow
        BY <1>12, <3>3
      <4>2. q[h] <= Weight(hold[h], x)
        BY <2>2, <4>1 DEF Backs, CurrentHold
      <4>3. QED
        BY <3>1, <4>2
    <3>4. QED
      BY <3>2, <3>3
  <2>5. \A h \in HoldIds, e \in Calls :
          call'[e].listed[h] # NoRow => q[h] <= call'[e].listed[h].qty
    BY <1>5, <1>7, <2>2 DEF Backs
  <2>6. Backs(q, d, x)'
    BY <2>3, <2>4, <2>5 DEF Backs
  <2>7. QED
    BY <1>3, <2>2, <2>6 DEF WrittenBacked
<1>19. disturbed' \in BOOLEAN
  BY <1>1 DEF ReservedInv, Inv, CallsInv, Call
<1>20. \A d \in Calls, x \in Balances : WrittenEqual(d, x)'
  <2> TAKE d \in Calls, x \in Balances
  <2> SUFFICES ASSUME d # c, row[d][x] # NoRow, ~ disturbed', ~ call[d].astray
               PROVE  WrittenEqual(d, x)'
    BY <1>3 DEF WrittenEqual
  <2>1. row[c][x] = NoRow
    BY <1>11
  <2> DEFINE new == [h \in HoldIds |-> CurrentHold(d, h)']
  <2>2. \A h \in HoldIds : CurrentHold(d, h)' \in Hold
    <3>1. hold' \in [HoldIds -> Hold] /\ holdRow' \in [Calls -> [HoldIds -> Hold \union {NoRow}]]
      BY DEF Inv, HoldsInv
    <3>2. QED
      BY <3>1 DEF CurrentHold
  <2>3. new \in [HoldIds -> Hold] /\ SeenHolds(d) \in [HoldIds -> Hold]
    BY <2>2, SeenHoldsType DEF Inv
  <2>4. \A h \in HoldIds : Weight(new[h], x) = Weight(SeenHolds(d)[h], x)
    BY <1>13, <2>1 DEF SeenHolds
  <2>5. SeenHolds(d)' = new
    BY DEF SeenHolds
  <2> HIDE DEF new
  <2>6. HeldOn(new, x) = HeldOn(SeenHolds(d), x)
    BY <2>3, <2>4, HeldSame
  <2>7. HeldOn(SeenHolds(d), x)' = HeldOn(new, x)
    BY <2>5 DEF HeldOn
  <2>8. ~ disturbed
    BY <1>1
  <2>9. row[d][x].reserved = HeldOn(SeenHolds(d), x)
    BY <2>8 DEF ReservedInv, WrittenEqual
  <2>10. QED
    BY <1>3, <2>6, <2>7, <2>9 DEF WrittenEqual
<1>21. \A x \in Balances : CommittedEqual(x)'
  <2> TAKE x \in Balances
  <2> SUFFICES ASSUME ~ disturbed' PROVE balance'[x].reserved = HeldOn(hold', x)
    BY DEF CommittedEqual, HeldOn
  <2>1. ~ disturbed /\ ~ call[c].astray
    BY <1>1
  <2>2. hold' = SeenHolds(c)
    BY <1>1 DEF SeenHolds
  <2>3. CurrentRow(c, x).reserved = HeldOn(SeenHolds(c), x)
    BY <2>1, RowEqual
  <2>4. QED
    BY <1>2, <2>2, <2>3
<1>22. QED
  BY <1>14, <1>15, <1>16, <1>17, <1>18, <1>19, <1>20, <1>21 DEF ReservedInv

-----------------------------------------------------------------------------
(* Reservations: posting.                                                   *)

\* What a posting leaves of the call that makes it.
LEMMA PostedCall ==
  ASSUME Inv, NEW c \in Calls, NEW a, call' = [call EXCEPT ![c].plan = @ \ {a}]
  PROVE  /\ \A d \in Calls \ {c} : call'[d] = call[d]
         /\ call'[c].phase = call[c].phase /\ call'[c].op = call[c].op
         /\ call'[c].astray = call[c].astray
         /\ call'[c].listed = call[c].listed
<1>1. call \in [Calls -> Call]
  BY DEF Inv, CallsInv
<1>2. /\ \A d \in Calls \ {c} : call'[d] = call[d]
      /\ call'[c] = [call[c] EXCEPT !.plan = @ \ {a}]
  BY <1>1
<1>3. call[c] \in Call
  BY <1>1
<1>4. QED
  BY <1>2, <1>3 DEF Call

\* One line of a receipt.
LEMMA PostReceiveHolds ==
  ASSUME Inv, ReservedInv, Inv', NEW c \in Calls, PostReceive(c)
  PROVE  ReservedInv'
<1>1. PICK a \in NextAllocations(c) :
        /\ SaveRow(c, a.bal, AfterReceipt(CurrentRow(c, a.bal), a.qty))
        /\ call' = [call EXCEPT ![c].plan = @ \ {a}]
  BY DEF PostReceive
<1>2. UNCHANGED <<balance, hold, disturbed, holdRow>> /\ call[c].phase = "POSTING"
  BY DEF PostReceive, committed, Posting
<1>3. a.bal \in Balances /\ a.qty \in Nat \ {0}
  BY NextAllocationType
<1> DEFINE b == a.bal
           r == AfterReceipt(CurrentRow(c, b), a.qty)
<1>4. CurrentRow(c, b) \in Row /\ CurrentRow(c, b).reserved <= CurrentRow(c, b).onHand
  BY <1>3, CurrentRowExtends DEF Inv
<1>5. r \in Row /\ r.reserved = CurrentRow(c, b).reserved
  BY <1>3, <1>4, AfterReceiptRow DEF AfterReceipt
<1>6. SaveRow(c, b, r)
  BY <1>1
<1>7. RowIsFree(c, b)
  BY <1>6 DEF SaveRow
<1> HIDE DEF r
<1>8. /\ \A d \in Calls \ {c} : call'[d] = call[d] /\ holdRow'[d] = holdRow[d]
      /\ call'[c].phase = "POSTING" /\ call'[c].op = call[c].op
      /\ call'[c].astray = call[c].astray
      /\ call'[c].listed = call[c].listed
  BY <1>1, <1>2, PostedCall
<1>9. \E q \in [HoldIds -> Nat] : r.reserved <= SumFunction(q) /\ Backs(q, c, b)'
  <2>1. PICK q \in [HoldIds -> Nat] :
          CurrentRow(c, b).reserved <= SumFunction(q) /\ Backs(q, c, b)
    BY <1>3, <1>7, RowBacked
  <2>2. Backs(q, c, b)'
    BY <1>2, <1>8, <2>1 DEF Backs, CurrentHold
  <2>3. QED
    BY <1>5, <2>1, <2>2
<1>10. ~ disturbed /\ ~ call'[c].astray => r.reserved = HeldOn(SeenHolds(c), b)'
  <2> SUFFICES ASSUME ~ disturbed, ~ call'[c].astray PROVE r.reserved = HeldOn(SeenHolds(c), b)'
    OBVIOUS
  <2>1. SeenHolds(c)' = SeenHolds(c)
    BY <1>2 DEF SeenHolds, CurrentHold
  <2>2. HeldOn(SeenHolds(c), b)' = HeldOn(SeenHolds(c), b)
    BY <2>1 DEF HeldOn
  <2>3. CurrentRow(c, b).reserved = HeldOn(SeenHolds(c), b)
    BY <1>3, <1>8, RowEqual
  <2>4. QED
    BY <1>5, <2>2, <2>3
<1> HIDE DEF b
<1>11. b \in Balances /\ {} \in SUBSET HoldIds
  BY <1>3 DEF b
<1>12. \A h \in HoldIds : holdRow'[c][h] = holdRow[c][h]
       /\ call'[c].listed[h] = call[c].listed[h]
  BY <1>2, <1>8
<1>13. ReservedInv'
  BY <1>2, <1>5, <1>6, <1>8, <1>9, <1>10, <1>11, <1>12, PostKeepsHolds
<1>14. QED
  BY <1>13

\* A new reservation.
LEMMA PostReserveHolds ==
  ASSUME Inv, ReservedInv, Inv', NEW c \in Calls, PostReserve(c)
  PROVE  ReservedInv'
<1>1. PICK a \in NextAllocations(c) :
        /\ CanReserve(a.seen, a.qty)
        /\ SavesVersion(CurrentRow(c, a.bal), a.seen)
        /\ SaveRow(c, a.bal, AfterReserve(a.seen, a.qty))
        /\ \E h \in HoldIds :
             /\ UnusedHold(h)
             /\ holdRow' = [holdRow EXCEPT ![c][h] =
                  [doc |-> call[c].doc, bal |-> a.bal, qty |-> a.qty,
                   status |-> "ACTIVE"]]
        /\ call' = [call EXCEPT ![c].plan = @ \ {a}]
  BY DEF PostReserve
<1>2. /\ UNCHANGED <<balance, hold, disturbed>>
      /\ call[c].phase = "POSTING" /\ call[c].op = "RESERVE"
  BY DEF PostReserve, committed, Posting
<1>3. a \in call[c].plan /\ a.bal \in Balances /\ a.qty \in Nat \ {0}
  BY NextAllocationType
<1> DEFINE b == a.bal
           r == AfterReserve(CurrentRow(c, b), a.qty)
           v == [doc |-> call[c].doc, bal |-> b, qty |-> a.qty, status |-> "ACTIVE"]
<1>4. a.seen = CurrentRow(c, b)
  BY <1>1, <1>2, <1>3, SeenIsCurrentRow
<1>5. PICK n \in HoldIds : UnusedHold(n) /\ holdRow' = [holdRow EXCEPT ![c][n] = v]
  BY <1>1
<1>6. CurrentRow(c, b) \in Row
  BY <1>3, CurrentRowExtends DEF Inv
<1>7. r \in Row /\ r.reserved = CurrentRow(c, b).reserved + a.qty
  BY <1>1, <1>3, <1>4, <1>6, AfterReserveRow DEF AfterReserve
<1>8. SaveRow(c, b, r) /\ RowIsFree(c, b)
  BY <1>1, <1>4 DEF SaveRow
<1>9. v \in Hold /\ v.bal = b /\ v.status = "ACTIVE" /\ v.qty = a.qty
  <2>1. call[c].doc \in Documents \union {NoDocument}
    BY DEF Inv, CallsInv, Call
  <2>2. QED
    BY <1>3, <2>1 DEF Hold, HoldStatus
<1> HIDE DEF r, v, b
<1>10. b \in Balances
  BY <1>3 DEF b
<1>11. /\ \A d \in Calls \ {c} : call'[d] = call[d]
       /\ call'[c].phase = "POSTING" /\ call'[c].op = call[c].op
       /\ call'[c].astray = call[c].astray
       /\ call'[c].listed = call[c].listed
  BY <1>1, <1>2, PostedCall
<1>12. /\ \A d \in Calls \ {c} : holdRow'[d] = holdRow[d]
       /\ holdRow'[c][n] = v
       /\ \A h \in HoldIds \ {n} : holdRow'[c][h] = holdRow[c][h]
  BY <1>5 DEF Inv, HoldsInv
<1>13. /\ hold[n].status = "FREE"
       /\ \A d \in Calls : holdRow[d][n] = NoRow
       /\ \A d \in Calls : call[d].listed[n] = NoRow
  BY <1>5 DEF UnusedHold, ReservedInv, ListedHold
<1>14. /\ \A h \in HoldIds \ {n} : CurrentHold(c, h)' = CurrentHold(c, h)
       /\ CurrentHold(c, n)' = v
       /\ CurrentHold(c, n) = hold[n]
  BY <1>2, <1>9, <1>12, <1>13, NoRowAssumption DEF CurrentHold
<1>15. PostedHold(c, b, n)
  BY <1>2, <1>13, <1>14 DEF PostedHold, HoldIsFree
<1>16. Weight(v, b) = a.qty /\ Weight(hold[n], b) = 0
  BY <1>9, <1>13 DEF Weight
<1>17. \E q \in [HoldIds -> Nat] : r.reserved <= SumFunction(q) /\ Backs(q, c, b)'
  <2>1. PICK q \in [HoldIds -> Nat] :
          CurrentRow(c, b).reserved <= SumFunction(q) /\ Backs(q, c, b)
    BY <1>8, <1>10, RowBacked
  <2>2. q[n] = 0
    BY <1>14, <1>16, <2>1 DEF Backs
  <2> DEFINE p == [q EXCEPT ![n] = a.qty]
  <2>3. p \in [HoldIds -> Nat] /\ p[n] = a.qty /\ \A h \in HoldIds \ {n} : p[h] = q[h]
    BY <1>3
  <2> HIDE DEF p
  <2>4. q \in [HoldIds -> Int] /\ p \in [HoldIds -> Int]
    BY <2>3
  <2>5. SumFunction(p) = SumFunction(q) - q[n] + p[n]
    BY <2>3, <2>4, HoldIdsFinite, OneRow
  <2>6. SumFunction(q) \in Nat
    BY HoldIdsFinite, SumBounds
  <2>7. r.reserved <= SumFunction(p)
    <3>1. CurrentRow(c, b).reserved \in Nat /\ a.qty \in Nat
      BY <1>3, <1>6 DEF Row
    <3>2. QED
      BY <1>7, <2>1, <2>2, <2>3, <2>5, <2>6, <3>1
  <2>8. Backs(p, c, b)'
    <3>1. \A h \in HoldIds : p[h] <= Weight(CurrentHold(c, h)', b)
      <4> TAKE h \in HoldIds
      <4>1. CASE h = n
        BY <1>3, <1>14, <1>16, <2>3, <4>1
      <4>2. CASE h # n
        BY <1>14, <2>1, <2>3, <4>2 DEF Backs
      <4>3. QED
        BY <4>1, <4>2
    <3>2. \A h \in HoldIds : hold'[h].status # "FREE" => p[h] <= Weight(hold'[h], b)
      BY <1>2, <1>13, <2>1, <2>3 DEF Backs
    <3>3. \A h \in HoldIds, d \in Calls :
            call'[d].listed[h] # NoRow => p[h] <= call'[d].listed[h].qty
      BY <1>11, <1>13, <2>1, <2>3 DEF Backs
    <3>4. QED
      BY <3>1, <3>2, <3>3 DEF Backs
  <2>9. QED
    BY <2>3, <2>7, <2>8
<1>18. ~ disturbed /\ ~ call'[c].astray => r.reserved = HeldOn(SeenHolds(c), b)'
  <2> SUFFICES ASSUME ~ disturbed, ~ call'[c].astray PROVE r.reserved = HeldOn(SeenHolds(c), b)'
    OBVIOUS
  <2> DEFINE g == [h \in HoldIds |-> Weight(SeenHolds(c)[h], b)]
             k == [h \in HoldIds |-> Weight(CurrentHold(c, h)', b)]
  <2>1. CurrentRow(c, b).reserved = HeldOn(SeenHolds(c), b)
    BY <1>10, <1>11, RowEqual
  <2>2. SeenHolds(c) \in [HoldIds -> Hold]
    BY SeenHoldsType DEF Inv
  <2>3. g \in [HoldIds -> Nat]
    BY <2>2, WeightsType
  <2>4. \A h \in HoldIds \ {n} : k[h] = g[h]
    BY <1>14 DEF SeenHolds
  <2>5. k[n] = a.qty /\ g[n] = 0
    BY <1>14, <1>16 DEF SeenHolds
  <2>6. k \in [HoldIds -> Nat]
    BY <1>3, <2>3, <2>4, <2>5
  <2>7. HeldOn(SeenHolds(c), b) = SumFunction(g)
    BY DEF HeldOn
  <2>8. HeldOn(SeenHolds(c), b)' = SumFunction(k)
    BY DEF HeldOn, SeenHolds, b
  <2> HIDE DEF g, k
  <2>9. g \in [HoldIds -> Int] /\ k \in [HoldIds -> Int]
    BY <2>3, <2>6
  <2>10. SumFunction(k) = SumFunction(g) - g[n] + k[n]
    BY <2>4, <2>9, HoldIdsFinite, OneRow
  <2>11. SumFunction(g) \in Nat
    BY <2>3, HoldIdsFinite, SumBounds
  <2>12. QED
    BY <1>3, <1>7, <2>1, <2>5, <2>7, <2>8, <2>10, <2>11
<1>19. ReservedInv'
  <2>1. {n} \in SUBSET HoldIds
    BY <1>5
  <2>2. \A h \in HoldIds \ {n} : /\ holdRow'[c][h] = holdRow[c][h]
                                 /\ call'[c].listed[h] = call[c].listed[h]
    BY <1>11, <1>12
  <2>3. \A h \in {n} : /\ PostedHold(c, b, h)
                       /\ holdRow'[c][h] \in Hold
                       /\ holdRow'[c][h].bal = b
                       /\ holdRow'[c][h].status # "FREE"
    BY <1>9, <1>12, <1>15
  <2>4. \A h \in {n} : call'[c].listed[h] = NoRow
    BY <1>11, <1>13
  <2>5. QED
    BY <1>2, <1>7, <1>8, <1>10, <1>11, <1>12, <1>17, <1>18, <2>1, <2>2, <2>3, <2>4,
       PostKeepsHolds
<1>20. QED
  BY <1>19

\* A hold that is listed and its posting: what is known of it.
LEMMA ListedIsPosted ==
  ASSUME Inv, ReservedInv, NEW c \in Calls, NEW h \in HoldIds,
         call[c].listed[h] # NoRow, HoldIsFree(c, h)
  PROVE  /\ call[c].listed[h] \in Hold
         /\ hold[h].status # "FREE"
         /\ PostedHold(c, call[c].listed[h].bal, h)
<1>1. call[c].listed[h] \in Hold
  BY DEF Inv, CallsInv, Call
<1>2. hold[h].status # "FREE" /\ hold[h].bal = call[c].listed[h].bal
  BY DEF ReservedInv, ListedHold
<1>3. CurrentHold(c, h).bal = hold[h].bal
  BY <1>2 DEF ReservedInv, WrittenHold, CurrentHold
<1>4. QED
  BY <1>1, <1>2, <1>3 DEF PostedHold

\* One hold of a release.
LEMMA PostReleaseHolds ==
  ASSUME Inv, ReservedInv, Inv', NEW c \in Calls, PostRelease(c)
  PROVE  ReservedInv'
<1>1. PICK n \in HoldIds :
        /\ FirstListed(c, n)
        /\ LET listed == call[c].listed[n]
               r == CurrentRow(c, listed.bal)
           IN /\ CanUnreserve(r, listed.qty)
              /\ SaveRow(c, listed.bal, AfterUnreserve(r, listed.qty))
              /\ HoldIsFree(c, n)
              /\ holdRow' = [holdRow EXCEPT ![c][n] =
                   [listed EXCEPT !.status = "RELEASED"]]
              /\ call' = [call EXCEPT
                   ![c].listed[n] = NoRow,
                   ![c].astray = @ \/ CurrentHold(c, n) # listed]
  BY DEF PostRelease
<1> PICK w : w = call[c].listed[n]
  OBVIOUS
<1>2. /\ w # NoRow
      /\ CanUnreserve(CurrentRow(c, w.bal), w.qty)
      /\ SaveRow(c, w.bal, AfterUnreserve(CurrentRow(c, w.bal), w.qty))
      /\ HoldIsFree(c, n)
      /\ holdRow' = [holdRow EXCEPT ![c][n] = [w EXCEPT !.status = "RELEASED"]]
      /\ call' = [call EXCEPT ![c].listed[n] = NoRow,
                              ![c].astray = @ \/ CurrentHold(c, n) # w]
  BY <1>1 DEF FirstListed
<1>3. /\ UNCHANGED <<balance, hold, disturbed>>
      /\ call[c].phase = "POSTING"
  BY DEF PostRelease, committed, Posting
<1>4. w \in Hold /\ hold[n].status # "FREE" /\ PostedHold(c, w.bal, n)
  BY <1>2, ListedIsPosted
<1>5. w.bal \in Balances /\ w.qty \in Nat
  BY <1>4 DEF Hold
<1> DEFINE b == w.bal
           r == AfterUnreserve(CurrentRow(c, b), w.qty)
           v == [w EXCEPT !.status = "RELEASED"]
<1>6. CurrentRow(c, b) \in Row /\ CurrentRow(c, b).reserved <= CurrentRow(c, b).onHand
  BY <1>5, CurrentRowExtends DEF Inv
<1>7. r \in Row /\ r.reserved = CurrentRow(c, b).reserved - w.qty
  BY <1>2, <1>5, <1>6, AfterUnreserveRow DEF AfterUnreserve
<1>8. SaveRow(c, b, r) /\ RowIsFree(c, b)
  BY <1>2 DEF SaveRow
<1>9. v \in Hold /\ v.bal = b /\ v.status = "RELEASED"
  BY <1>4 DEF Hold, HoldStatus
<1>10. holdRow' = [holdRow EXCEPT ![c][n] = v]
  BY <1>2
<1> HIDE DEF r, v, b
<1>11. b \in Balances /\ PostedHold(c, b, n)
  BY <1>4, <1>5 DEF b
<1>12. /\ \A d \in Calls \ {c} : call'[d] = call[d]
       /\ call'[c].phase = "POSTING" /\ call'[c].op = call[c].op
       /\ call[c].astray => call'[c].astray
       /\ ~ call'[c].astray => CurrentHold(c, n) = w
       /\ call'[c].listed[n] = NoRow
       /\ \A h \in HoldIds \ {n} : call'[c].listed[h] = call[c].listed[h]
  <2>1. call \in [Calls -> Call]
    BY DEF Inv, CallsInv
  <2>2. /\ \A d \in Calls \ {c} : call'[d] = call[d]
        /\ call'[c] = [call[c] EXCEPT !.listed = [call[c].listed EXCEPT ![n] = NoRow],
                                      !.astray = call[c].astray \/ CurrentHold(c, n) # w]
    BY <1>2, <2>1
  <2>3. call[c] \in Call
    BY <2>1
  <2>4. /\ call'[c].phase = call[c].phase /\ call'[c].op = call[c].op
        /\ call'[c].astray = (call[c].astray \/ CurrentHold(c, n) # w)
        /\ call'[c].listed = [call[c].listed EXCEPT ![n] = NoRow]
    BY <2>2, <2>3 DEF Call
  <2>5. call[c].listed \in [HoldIds -> Hold \union {NoRow}]
    BY <2>3 DEF Call
  <2>6. QED
    BY <1>3, <2>2, <2>4, <2>5
<1>13. /\ \A d \in Calls \ {c} : holdRow'[d] = holdRow[d]
       /\ holdRow'[c][n] = v
       /\ \A h \in HoldIds \ {n} : holdRow'[c][h] = holdRow[c][h]
  BY <1>10 DEF Inv, HoldsInv
<1>14. /\ \A h \in HoldIds \ {n} : CurrentHold(c, h)' = CurrentHold(c, h)
       /\ CurrentHold(c, n)' = v
  BY <1>3, <1>9, <1>13, NoRowAssumption DEF CurrentHold
<1>15. Weight(v, b) = 0
  BY <1>9 DEF Weight
<1>16. Weight(w, b) = w.qty
  <2>1. w.status = "ACTIVE" \/ w.qty = 0
    BY <1>2 DEF ReservedInv, ListedHold
  <2>2. QED
    BY <2>1 DEF Weight, b
<1>17. \E q \in [HoldIds -> Nat] : r.reserved <= SumFunction(q) /\ Backs(q, c, b)'
  <2>1. PICK q \in [HoldIds -> Nat] :
          CurrentRow(c, b).reserved <= SumFunction(q) /\ Backs(q, c, b)
    BY <1>8, <1>11, RowBacked
  <2>2. q[n] <= w.qty
    BY <1>2, <2>1 DEF Backs
  <2> DEFINE p == [q EXCEPT ![n] = 0]
  <2>3. p \in [HoldIds -> Nat] /\ p[n] = 0 /\ \A h \in HoldIds \ {n} : p[h] = q[h]
    OBVIOUS
  <2> HIDE DEF p
  <2>4. q \in [HoldIds -> Int] /\ p \in [HoldIds -> Int]
    BY <2>3
  <2>5. SumFunction(p) = SumFunction(q) - q[n] + p[n]
    BY <2>3, <2>4, HoldIdsFinite, OneRow
  <2>6. SumFunction(q) \in Nat
    BY HoldIdsFinite, SumBounds
  <2>7. r.reserved <= SumFunction(p)
    <3>1. CurrentRow(c, b).reserved \in Nat /\ q[n] \in Nat
      BY <1>6 DEF Row
    <3>2. QED
      BY <1>5, <1>7, <2>1, <2>2, <2>3, <2>5, <2>6, <3>1
  <2>8. Backs(p, c, b)'
    <3>1. \A h \in HoldIds : p[h] <= Weight(CurrentHold(c, h)', b)
      <4> TAKE h \in HoldIds
      <4>1. CASE h = n
        BY <1>14, <1>15, <2>3, <4>1
      <4>2. CASE h # n
        BY <1>14, <2>1, <2>3, <4>2 DEF Backs
      <4>3. QED
        BY <4>1, <4>2
    <3>2. \A h \in HoldIds : hold'[h].status # "FREE" => p[h] <= Weight(hold'[h], b)
      <4> TAKE h \in HoldIds
      <4>1. Weight(hold[n], b) \in Nat
        BY WeightType DEF Inv, HoldsInv
      <4>2. QED
        BY <1>3, <2>1, <2>3, <4>1 DEF Backs
    <3>3. \A h \in HoldIds, d \in Calls :
            call'[d].listed[h] # NoRow => p[h] <= call'[d].listed[h].qty
      <4> SUFFICES ASSUME NEW h \in HoldIds, NEW d \in Calls, call'[d].listed[h] # NoRow
                   PROVE  p[h] <= call'[d].listed[h].qty
        OBVIOUS
      <4>1. call'[d].listed[h] = call[d].listed[h]
        BY <1>12
      <4>2. q[h] <= call[d].listed[h].qty
        BY <2>1, <4>1 DEF Backs
      <4>3. call[d].listed[h].qty \in Nat
        <5>1. call[d].listed[h] \in Hold
          BY <4>1 DEF Inv, CallsInv, Call
        <5>2. QED
          BY <5>1 DEF Hold
      <4>4. QED
        BY <2>3, <4>1, <4>2, <4>3
    <3>4. QED
      BY <3>1, <3>2, <3>3 DEF Backs
  <2>9. QED
    BY <2>3, <2>7, <2>8
<1>18. ~ disturbed /\ ~ call'[c].astray => r.reserved = HeldOn(SeenHolds(c), b)'
  <2> SUFFICES ASSUME ~ disturbed, ~ call'[c].astray PROVE r.reserved = HeldOn(SeenHolds(c), b)'
    OBVIOUS
  <2> DEFINE g == [h \in HoldIds |-> Weight(SeenHolds(c)[h], b)]
             k == [h \in HoldIds |-> Weight(CurrentHold(c, h)', b)]
  <2>1. CurrentRow(c, b).reserved = HeldOn(SeenHolds(c), b) /\ CurrentHold(c, n) = w
    BY <1>11, <1>12, RowEqual
  <2>2. SeenHolds(c) \in [HoldIds -> Hold]
    BY SeenHoldsType DEF Inv
  <2>3. g \in [HoldIds -> Nat]
    BY <2>2, WeightsType
  <2>4. \A h \in HoldIds \ {n} : k[h] = g[h]
    BY <1>14 DEF SeenHolds
  <2>5. k[n] = 0 /\ g[n] = w.qty
    BY <1>14, <1>15, <1>16, <2>1 DEF SeenHolds
  <2>6. k \in [HoldIds -> Nat]
    BY <2>3, <2>4, <2>5
  <2>7. HeldOn(SeenHolds(c), b) = SumFunction(g)
    BY DEF HeldOn
  <2>8. HeldOn(SeenHolds(c), b)' = SumFunction(k)
    BY DEF HeldOn, SeenHolds, b
  <2> HIDE DEF g, k
  <2>9. g \in [HoldIds -> Int] /\ k \in [HoldIds -> Int]
    BY <2>3, <2>6
  <2>10. SumFunction(k) = SumFunction(g) - g[n] + k[n]
    BY <2>4, <2>9, HoldIdsFinite, OneRow
  <2>11. SumFunction(g) \in Nat
    BY <2>3, HoldIdsFinite, SumBounds
  <2>12. QED
    BY <1>5, <1>7, <2>1, <2>5, <2>7, <2>8, <2>10, <2>11
<1>19. ReservedInv'
  <2>1. {n} \in SUBSET HoldIds
    BY <1>1
  <2>2. \A h \in HoldIds \ {n} : /\ holdRow'[c][h] = holdRow[c][h]
                                 /\ call'[c].listed[h] = call[c].listed[h]
    BY <1>12, <1>13
  <2>3. \A h \in {n} : /\ PostedHold(c, b, h)
                       /\ holdRow'[c][h] \in Hold
                       /\ holdRow'[c][h].bal = b
                       /\ holdRow'[c][h].status # "FREE"
    BY <1>9, <1>11, <1>13
  <2>4. \A h \in {n} : call'[c].listed[h] = NoRow
    BY <1>12
  <2>5. QED
    BY <1>3, <1>7, <1>8, <1>11, <1>12, <1>13, <1>17, <1>18, <2>1, <2>2, <2>3, <2>4,
       PostKeepsHolds, ZenonT(30)
<1>20. QED
  BY <1>19

\* What a consumption leaves of a hold.
LEMMA AfterConsumptionHold ==
  ASSUME NEW v \in Hold, v.status = "ACTIVE", NEW take \in Nat, take <= v.qty
  PROVE  /\ AfterConsumption(v, take) \in Hold
         /\ AfterConsumption(v, take).bal = v.bal
         /\ AfterConsumption(v, take).qty = v.qty - take
         /\ \/ AfterConsumption(v, take).status = "ACTIVE"
            \/ /\ AfterConsumption(v, take).status = "CONSUMED"
               /\ AfterConsumption(v, take).qty = 0
         /\ Weight(AfterConsumption(v, take), v.bal) = v.qty - take
<1>1. AfterConsumption(v, take) \in Hold
  BY AfterConsumptionType
<1>2. v.qty \in Nat /\ v.qty - take \in Nat
  BY DEF Hold
<1> DEFINE status == IF v.qty = take THEN "CONSUMED" ELSE v.status
           k == [v EXCEPT !.qty = v.qty - take, !.status = status]
<1>3. AfterConsumption(v, take) = k
  BY DEF AfterConsumption
<1> HIDE DEF status
<1>4. k.bal = v.bal /\ k.qty = v.qty - take /\ k.status = status
  BY DEF Hold
<1>5. status = "ACTIVE" \/ (status = "CONSUMED" /\ v.qty - take = 0)
  BY <1>2 DEF status
<1> HIDE DEF k
<1>6. Weight(k, v.bal) = v.qty - take
  BY <1>4, <1>5 DEF Weight
<1>7. QED
  BY <1>1, <1>3, <1>4, <1>5, <1>6

\* A backing less what is taken of it.
LEMMA LessTaken ==
  ASSUME NEW q \in [HoldIds -> Nat], NEW take \in [HoldIds -> Nat]
  PROVE  \E p \in [HoldIds -> Nat] :
           /\ SumFunction(q) <= SumFunction(p) + SumFunction(take)
           /\ \A h \in HoldIds : p[h] = AtLeastZero(q[h] - take[h])
<1> DEFINE p == [h \in HoldIds |-> AtLeastZero(q[h] - take[h])]
           s == [h \in HoldIds |-> p[h] + take[h]]
<1>1. p \in [HoldIds -> Nat] /\ \A h \in HoldIds : p[h] = AtLeastZero(q[h] - take[h])
  BY DEF AtLeastZero
<1>2. \A h \in HoldIds : q[h] <= p[h] + take[h]
  BY <1>1 DEF AtLeastZero
<1> HIDE DEF p
<1>3. s \in [HoldIds -> Int] /\ \A h \in HoldIds : s[h] = p[h] + take[h] /\ q[h] <= s[h]
  BY <1>1, <1>2
<1> HIDE DEF s
<1>4. p \in [HoldIds -> Int] /\ q \in [HoldIds -> Int] /\ take \in [HoldIds -> Int]
  BY <1>1
<1>5. SumFunction(q) <= SumFunction(s)
  BY <1>3, <1>4, HoldIdsFinite, SumMonotone
<1>6. SumFunction(s) = SumFunction(p) + SumFunction(take)
  BY <1>3, <1>4, HoldIdsFinite, SumTogether
<1>7. QED
  BY <1>1, <1>5, <1>6

\* One allocation of an outbound plan.
LEMMA PostOutboundHolds ==
  ASSUME Inv, ReservedInv, Inv', NEW c \in Calls, PostOutbound(c)
  PROVE  ReservedInv'
<1>1. PICK a \in NextAllocations(c) :
        LET r == CurrentRow(c, a.bal)
            consume == AtMost(a.mine, a.qty)
            listed == call[c].listed
            offers == Consumable(listed, a.bal)
        IN /\ CanIssue(r, a.qty, consume)
           /\ SaveRow(c, a.bal, AfterIssue(r, a.qty, consume))
           /\ \E take \in [HoldIds -> 0 .. consume] :
                LET touched == {h \in HoldIds : take[h] > 0}
                IN /\ Draws(take, offers, AtMost(consume, Total(offers)))
                   /\ \A h \in touched : HoldIsFree(c, h)
                   /\ holdRow' = [holdRow EXCEPT ![c] =
                        [h \in HoldIds |-> IF h \in touched
                           THEN AfterConsumption(listed[h], take[h])
                           ELSE holdRow[c][h]]]
                   /\ call' = [call EXCEPT
                        ![c].plan = @ \ {a},
                        ![c].listed = [h \in HoldIds |-> IF h \in touched
                           THEN AfterConsumption(listed[h], take[h])
                           ELSE listed[h]],
                        ![c].astray =
                          \/ @
                          \/ Total(offers) < consume
                          \/ \E h \in touched : CurrentHold(c, h) # listed[h]]
  BY DEF PostOutbound
<1>2. /\ UNCHANGED <<balance, hold, disturbed>>
      /\ call[c].phase = "POSTING" /\ call[c].op # "RESERVE"
  BY DEF PostOutbound, committed, Posting, Outbound
<1> DEFINE b == a.bal
<1>3. b \in Balances /\ a.qty \in Nat \ {0}
  BY NextAllocationType
<1> PICK consume : consume = AtMost(a.mine, a.qty)
  OBVIOUS
<1> PICK listed : listed = call[c].listed
  OBVIOUS
<1> PICK offers : offers = Consumable(listed, b)
  OBVIOUS
<1> DEFINE r == AfterIssue(CurrentRow(c, b), a.qty, consume)
<1>4. /\ CanIssue(CurrentRow(c, b), a.qty, consume)
      /\ SaveRow(c, b, r)
  BY <1>1
<1>5. PICK take \in [HoldIds -> 0 .. consume] :
        /\ Draws(take, offers, AtMost(consume, Total(offers)))
        /\ \A h \in {h \in HoldIds : take[h] > 0} : HoldIsFree(c, h)
        /\ holdRow' = [holdRow EXCEPT ![c] =
             [h \in HoldIds |-> IF h \in {g \in HoldIds : take[g] > 0}
                THEN AfterConsumption(listed[h], take[h])
                ELSE holdRow[c][h]]]
        /\ call' = [call EXCEPT
             ![c].plan = @ \ {a},
             ![c].listed = [h \in HoldIds |-> IF h \in {g \in HoldIds : take[g] > 0}
                THEN AfterConsumption(listed[h], take[h])
                ELSE listed[h]],
             ![c].astray =
               \/ @
               \/ Total(offers) < consume
               \/ \E h \in {h \in HoldIds : take[h] > 0} : CurrentHold(c, h) # listed[h]]
  BY <1>1, ZenonT(30)
<1> PICK S : S = {h \in HoldIds : take[h] > 0}
  OBVIOUS
<1>6. CurrentRow(c, b) \in Row
  BY <1>3, CurrentRowExtends DEF Inv
<1>7. r \in Row /\ r.reserved = CurrentRow(c, b).reserved - consume /\ consume \in Nat
  BY <1>3, <1>4, <1>6, AfterIssueRow DEF AfterIssue, CanIssue
<1>8. RowIsFree(c, b)
  BY <1>4 DEF SaveRow
<1> HIDE DEF r, b
<1>9. S \in SUBSET HoldIds /\ \A h \in S : HoldIsFree(c, h)
  BY <1>5
\* The holds that are touched.
<1>10. listed \in [HoldIds -> Hold \union {NoRow}]
  BY DEF Inv, CallsInv, Call
<1>11. /\ take \in [HoldIds -> Nat]
       /\ \A h \in HoldIds : take[h] <= offers[h]
       /\ SumFunction(take) = AtMost(consume, Total(offers))
  <2>1. DOMAIN offers = HoldIds
    BY DEF Consumable
  <2>2. Draws(take, offers, AtMost(consume, Total(offers)))
    BY <1>5
  <2>3. \A h \in HoldIds : take[h] <= offers[h]
    BY <2>1, <2>2 DEF Draws
  <2>4. SumFunction(take) = AtMost(consume, Total(offers))
    <3>1. Total(take) = AtMost(consume, Total(offers))
      BY <2>2 DEF Draws
    <3>2. Total(take) = SumFunction(take)
      BY DEF Total
    <3>3. QED
      BY <3>1, <3>2
  <2>5. QED
    BY <1>7, <2>3, <2>4
<1>12. \A h \in HoldIds : h \notin S => take[h] = 0
  BY <1>11
<1>13. \A h \in S : /\ listed[h] \in Hold /\ listed[h] # NoRow
                    /\ listed[h].bal = b /\ listed[h].status = "ACTIVE"
                    /\ take[h] <= listed[h].qty
  <2> TAKE h \in S
  <2>1. take[h] > 0 /\ take[h] \in Nat /\ take[h] <= offers[h] /\ h \in HoldIds
    BY <1>9, <1>11
  <2>2. listed[h] # NoRow /\ listed[h].bal = b /\ offers[h] = listed[h].qty
    BY <2>1 DEF Consumable
  <2>3. listed[h] \in Hold
    BY <1>10, <2>1, <2>2
  <2>4. listed[h].status = "ACTIVE"
    BY <2>1, <2>2 DEF ReservedInv, ListedHold
  <2>5. QED
    BY <2>1, <2>2, <2>3, <2>4
<1> DEFINE After(h) == AfterConsumption(listed[h], take[h])
<1>14. \A h \in S : /\ After(h) \in Hold /\ After(h).bal = b
                    /\ After(h).qty = listed[h].qty - take[h]
                    /\ \/ After(h).status = "ACTIVE"
                       \/ After(h).status = "CONSUMED" /\ After(h).qty = 0
                    /\ Weight(After(h), b) = listed[h].qty - take[h]
  <2> TAKE h \in S
  <2>1. take[h] \in Nat
    BY <1>9, <1>11
  <2>2. QED
    BY <1>13, <2>1, AfterConsumptionHold
<1>15. \A h \in S : PostedHold(c, b, h) /\ hold[h].status # "FREE"
  BY <1>9, <1>13, ListedIsPosted
<1> HIDE DEF After
<1>16. /\ \A d \in Calls \ {c} : holdRow'[d] = holdRow[d]
       /\ \A h \in HoldIds : holdRow'[c][h] = IF h \in S THEN After(h) ELSE holdRow[c][h]
  BY <1>5 DEF Inv, HoldsInv, After
<1>17. /\ \A d \in Calls \ {c} : call'[d] = call[d]
       /\ call'[c].phase = "POSTING" /\ call'[c].op = call[c].op
       /\ call[c].astray => call'[c].astray
       /\ ~ call'[c].astray => /\ ~ (Total(offers) < consume)
                               /\ \A h \in S : CurrentHold(c, h) = listed[h]
       /\ \A h \in HoldIds : call'[c].listed[h] = IF h \in S THEN After(h) ELSE listed[h]
  <2>1. call \in [Calls -> Call]
    BY DEF Inv, CallsInv
  <2> PICK found : found = [h \in HoldIds |-> IF h \in S THEN After(h) ELSE listed[h]]
    OBVIOUS
  <2> DEFINE astray == \/ call[c].astray
                       \/ Total(offers) < consume
                       \/ \E h \in S : CurrentHold(c, h) # listed[h]
  <2>2. /\ \A d \in Calls \ {c} : call'[d] = call[d]
        /\ call'[c] = [call[c] EXCEPT !.plan = @ \ {a}, !.listed = found, !.astray = astray]
    BY <1>5, <2>1 DEF After
  <2>3. call[c] \in Call
    BY <2>1
  <2> HIDE DEF astray
  <2>4. /\ call'[c].phase = call[c].phase /\ call'[c].op = call[c].op
        /\ call'[c].astray = astray
        /\ call'[c].listed = found
    BY <2>2, <2>3 DEF Call
  <2>5. call'[c].astray <=> astray
    BY <2>4
  <2>6. QED
    BY <1>2, <2>2, <2>4, <2>5 DEF astray
<1>18. /\ \A h \in HoldIds \ S : CurrentHold(c, h)' = CurrentHold(c, h)
       /\ \A h \in S : CurrentHold(c, h)' = After(h)
  BY <1>2, <1>9, <1>14, <1>16, NoRowAssumption DEF CurrentHold
<1>19. /\ SumFunction(take) \in Nat /\ SumFunction(take) <= consume
       /\ ~ (Total(offers) < consume) => SumFunction(take) = consume
  <2>1. SumFunction(take) \in Nat
    BY <1>11, HoldIdsFinite, SumBounds
  <2>2. Total(offers) \in Nat
    <3>1. \A h \in HoldIds : listed[h] # NoRow => listed[h].qty \in Nat
      BY <1>10 DEF Hold
    <3>2. offers \in [HoldIds -> Nat]
      BY <3>1 DEF Consumable
    <3>3. QED
      BY <3>2, HoldIdsFinite, SumBounds DEF Total
  <2>3. QED
    BY <1>7, <1>11, <2>1, <2>2 DEF AtMost
<1>20. \E q \in [HoldIds -> Nat] : r.reserved <= SumFunction(q) /\ Backs(q, c, b)'
  <2>1. PICK q \in [HoldIds -> Nat] :
          CurrentRow(c, b).reserved <= SumFunction(q) /\ Backs(q, c, b)
    BY <1>3, <1>8, RowBacked
  <2>2. PICK p \in [HoldIds -> Nat] :
          /\ SumFunction(q) <= SumFunction(p) + SumFunction(take)
          /\ \A h \in HoldIds : p[h] = AtLeastZero(q[h] - take[h])
    BY <1>11, LessTaken
  <2>3. \A h \in HoldIds : p[h] <= q[h]
    BY <1>11, <2>2 DEF AtLeastZero
  <2>4. \A h \in S : p[h] <= listed[h].qty - take[h]
    <3> TAKE h \in S
    <3>1. q[h] <= listed[h].qty /\ q[h] \in Nat /\ listed[h].qty \in Nat /\ take[h] \in Nat
      BY <1>9, <1>11, <1>13, <2>1 DEF Backs, Hold
    <3>2. take[h] <= listed[h].qty /\ p[h] = AtLeastZero(q[h] - take[h])
      BY <1>9, <1>13, <2>2
    <3>3. QED
      BY <3>1, <3>2 DEF AtLeastZero
  <2>5. r.reserved <= SumFunction(p)
    <3>1. SumFunction(p) \in Nat /\ SumFunction(q) \in Nat /\ CurrentRow(c, b).reserved \in Nat
      BY <1>6, HoldIdsFinite, SumBounds DEF Row
    <3>2. QED
      BY <1>7, <1>19, <2>1, <2>2, <3>1
  <2>6. \A h \in HoldIds : p[h] \in Nat /\ q[h] \in Nat
    OBVIOUS
  <2>7. \A h \in HoldIds : p[h] <= Weight(CurrentHold(c, h)', b)
    <3> TAKE h \in HoldIds
    <3>1. CASE h \in S
      BY <1>14, <1>18, <2>4, <3>1
    <3>2. CASE h \notin S
      <4>1. Weight(CurrentHold(c, h), b) \in Nat
        BY CurrentHoldType, WeightType DEF Inv
      <4>2. q[h] <= Weight(CurrentHold(c, h), b)
        BY <2>1 DEF Backs
      <4>3. QED
        BY <1>18, <2>3, <2>6, <3>2, <4>1, <4>2
    <3>3. QED
      BY <3>1, <3>2
  <2>8. \A h \in HoldIds : hold'[h].status # "FREE" => p[h] <= Weight(hold'[h], b)
    <3> TAKE h \in HoldIds
    <3>1. Weight(hold[h], b) \in Nat
      BY WeightType DEF Inv, HoldsInv
    <3>2. QED
      BY <1>2, <2>1, <2>3, <2>6, <3>1 DEF Backs
  <2>9. \A h \in HoldIds, d \in Calls :
          call'[d].listed[h] # NoRow => p[h] <= call'[d].listed[h].qty
    <3> SUFFICES ASSUME NEW h \in HoldIds, NEW d \in Calls, call'[d].listed[h] # NoRow
                 PROVE  p[h] <= call'[d].listed[h].qty
      OBVIOUS
    <3>1. CASE d = c /\ h \in S
      BY <1>14, <1>17, <2>4, <3>1
    <3>2. CASE ~ (d = c /\ h \in S)
      <4>1. call'[d].listed[h] = call[d].listed[h]
        BY <1>17, <3>2
      <4>2. q[h] <= call[d].listed[h].qty
        BY <2>1, <4>1 DEF Backs
      <4>3. call[d].listed[h].qty \in Nat
        <5>1. call[d].listed[h] \in Hold
          BY <4>1 DEF Inv, CallsInv, Call
        <5>2. QED
          BY <5>1 DEF Hold
      <4>4. QED
        BY <2>3, <2>6, <4>1, <4>2, <4>3
    <3>3. QED
      BY <3>1, <3>2
  <2>10. Backs(p, c, b)'
    BY <2>7, <2>8, <2>9 DEF Backs
  <2>11. QED
    BY <2>5, <2>10
<1>21. ~ disturbed /\ ~ call'[c].astray => r.reserved = HeldOn(SeenHolds(c), b)'
  <2> SUFFICES ASSUME ~ disturbed, ~ call'[c].astray PROVE r.reserved = HeldOn(SeenHolds(c), b)'
    OBVIOUS
  <2> DEFINE g == [h \in HoldIds |-> Weight(SeenHolds(c)[h], b)]
             k == [h \in HoldIds |-> Weight(CurrentHold(c, h)', b)]
  <2>1. /\ CurrentRow(c, b).reserved = HeldOn(SeenHolds(c), b)
        /\ \A h \in S : CurrentHold(c, h) = listed[h]
        /\ SumFunction(take) = consume
    BY <1>3, <1>17, <1>19, RowEqual
  <2>2. SeenHolds(c) \in [HoldIds -> Hold]
    BY SeenHoldsType DEF Inv
  <2>3. g \in [HoldIds -> Nat]
    BY <2>2, WeightsType
  <2>4. \A h \in HoldIds : k[h] \in Nat /\ g[h] = k[h] + take[h]
    <3> TAKE h \in HoldIds
    <3>1. CASE h \in S
      <4>1. g[h] = listed[h].qty /\ k[h] = listed[h].qty - take[h]
        BY <1>13, <1>14, <1>18, <2>1, <3>1 DEF SeenHolds, Weight
      <4>2. listed[h].qty \in Nat /\ take[h] \in Nat /\ take[h] <= listed[h].qty
        BY <1>11, <1>13, <3>1 DEF Hold
      <4>3. QED
        BY <4>1, <4>2
    <3>2. CASE h \notin S
      <4>1. g[h] = k[h] /\ g[h] \in Nat
        BY <1>18, <2>3, <3>2 DEF SeenHolds
      <4>2. QED
        BY <1>12, <3>2, <4>1
    <3>3. QED
      BY <3>1, <3>2
  <2>5. k \in [HoldIds -> Int]
    BY <2>4
  <2>6. HeldOn(SeenHolds(c), b) = SumFunction(g)
    BY DEF HeldOn
  <2>7. HeldOn(SeenHolds(c), b)' = SumFunction(k)
    BY DEF HeldOn, SeenHolds, b
  <2> HIDE DEF g, k
  <2>8. g \in [HoldIds -> Int] /\ take \in [HoldIds -> Int]
    BY <1>11, <2>3
  <2>9. SumFunction(g) = SumFunction(k) + SumFunction(take)
    BY <2>4, <2>5, <2>8, HoldIdsFinite, SumTogether
  <2>10. SumFunction(k) \in Int
    BY <2>5, HoldIdsFinite, SumIsAnInteger
  <2>11. QED
    BY <1>7, <2>1, <2>6, <2>7, <2>9, <2>10
<1>22. ReservedInv'
  <2>1. \A h \in HoldIds \ S : /\ holdRow'[c][h] = holdRow[c][h]
                               /\ call'[c].listed[h] = call[c].listed[h]
    BY <1>16, <1>17
  <2>2. \A h \in S : /\ PostedHold(c, b, h)
                     /\ holdRow'[c][h] \in Hold
                     /\ holdRow'[c][h].bal = b
                     /\ holdRow'[c][h].status # "FREE"
    BY <1>9, <1>14, <1>15, <1>16
  <2>3. \A h \in S : call'[c].listed[h] # NoRow =>
          /\ call[c].listed[h] # NoRow
          /\ call'[c].listed[h].bal = b
          /\ \/ call'[c].listed[h].status = "ACTIVE"
             \/ call'[c].listed[h].status = "CONSUMED" /\ call'[c].listed[h].qty = 0
    BY <1>9, <1>13, <1>14, <1>17
  <2>4. \A d \in Calls \ {c} : call'[d] = call[d] /\ holdRow'[d] = holdRow[d]
    BY <1>16, <1>17
  <2>5. /\ call'[c].phase = "POSTING" /\ call'[c].op = call[c].op
        /\ call[c].astray => call'[c].astray
    BY <1>17
  <2>6. QED
    BY <1>2, <1>3, <1>4, <1>7, <1>9, <1>20, <1>21, <2>1, <2>2, <2>3, <2>4, <2>5,
       PostKeepsHolds
<1>23. QED
  BY <1>22

-----------------------------------------------------------------------------
(* Reservations: beginning, planning, and the theorems.                     *)

\* listActive finds what the transaction sees.
LEMMA ActiveHoldsFound ==
  ASSUME NEW c \in Calls, NEW doc, NEW h \in HoldIds,
         call[c].phase = "POSTING" => call[c].op # "RESERVE"
  PROVE  \/ ActiveHolds(c, doc)[h] = NoRow
         \/ FoundHold(c, h) /\ ActiveHolds(c, doc)[h] = CurrentHold(c, h)
BY DEF ActiveHolds, FoundHold

\* A call that begins lists the holds of its document, or none.
LEMMA BeginHolds ==
  ASSUME Inv, ReservedInv, Inv', NEW c \in Calls, NEW op, NEW doc, NEW phase, NEW lines,
         NEW listed, NEW plan, Begin(c, op, doc, phase, lines, listed, plan),
         listed = NoHolds \/ listed = ActiveHolds(c, doc)
  PROVE  ReservedInv'
<1>1. /\ call[c].phase = "IDLE"
      /\ UNCHANGED <<committed, written>>
      /\ call \in [Calls -> Call]
      /\ call' = [call EXCEPT ![c] =
           [phase |-> phase, op |-> op, doc |-> doc, lines |-> lines,
            listed |-> listed, plan |-> plan, astray |-> FALSE]]
  BY DEF Begin, Inv, CallsInv
<1>2. call'[c].listed = listed /\ \A d \in Calls \ {c} : call'[d] = call[d]
  BY <1>1
<1>3. \A h \in HoldIds : \/ call'[c].listed[h] = NoRow
                         \/ FoundHold(c, h) /\ call'[c].listed[h] = CurrentHold(c, h)
  BY <1>1, <1>2, ActiveHoldsFound DEF NoHolds
<1>4. QED
  BY <1>1, <1>2, <1>3, MemoryKeepsHolds

\* Planning a line, or giving up, leaves the holds.
LEMMA PlanningHolds ==
  ASSUME Inv, ReservedInv, Inv', NEW c \in Calls, PlanLine(c) \/ Shortage(c)
  PROVE  ReservedInv'
<1>1. /\ call[c].phase = "PLANNING"
      /\ UNCHANGED <<committed, written>>
      /\ call \in [Calls -> Call]
  BY DEF PlanLine, Shortage, Inv, CallsInv
<1>2. CASE PlanLine(c)
  <2> DEFINE line == Head(call[c].lines)
             rest == Tail(call[c].lines)
             Added(take) ==
               {[left |-> Len(rest), bal |-> line.from[i], qty |-> take[i],
                 mine |-> HeldBy(call[c].listed, line.from[i]),
                 seen |-> IF call[c].op = "RESERVE"
                          THEN balance[line.from[i]] ELSE NoRow]
                : i \in {j \in DOMAIN line.from : take[j] > 0}}
             phase == IF rest = <<>> THEN "POSTING" ELSE call[c].phase
             Plan(take) == call[c].plan \union Added(take)
  <2>1. PICK take \in [DOMAIN line.from -> 0 .. line.qty] :
          call' = [call EXCEPT
            ![c].lines = rest,
            ![c].phase = IF rest = <<>> THEN "POSTING" ELSE @,
            ![c].plan = @ \union Added(take)]
    BY <1>2 DEF PlanLine
  <2> HIDE DEF Added, line, rest
  <2>2. call'[c] = [call[c] EXCEPT !.lines = rest, !.phase = phase, !.plan = Plan(take)]
    BY <1>1, <2>1
  <2> HIDE DEF phase, Plan
  <2>3. call'[c].listed = call[c].listed /\ \A d \in Calls \ {c} : call'[d] = call[d]
    BY <1>1, <2>1, <2>2 DEF Call
  <2>4. QED
    BY <1>1, <2>3, MemoryKeepsHolds
<1>3. CASE Shortage(c)
  <2>1. call' = [call EXCEPT ![c] = IdleCall]
    BY <1>3 DEF Shortage
  <2>2. /\ \A h \in HoldIds : call'[c].listed[h] = NoRow
        /\ \A d \in Calls \ {c} : call'[d] = call[d]
    BY <1>1, <2>1 DEF IdleCall, NoHolds
  <2>3. QED
    BY <1>1, <2>2, MemoryKeepsHolds
<1>4. QED
  BY <1>2, <1>3

\* An issue lists what is left of its holds, its own consumption included.
LEMMA ReleaseRestHolds ==
  ASSUME Inv, ReservedInv, Inv', NEW c \in Calls, ReleaseRest(c)
  PROVE  ReservedInv'
<1>1. /\ call[c].phase = "POSTING" /\ call[c].op = "ISSUE"
      /\ UNCHANGED <<committed, written>>
      /\ call \in [Calls -> Call]
      /\ call' = [call EXCEPT ![c].op = "RELEASE", ![c].listed = ActiveHolds(c, call[c].doc)]
  BY DEF ReleaseRest, Posting, Inv, CallsInv
<1> PICK listed : listed = ActiveHolds(c, call[c].doc)
  OBVIOUS
<1>2. /\ \A d \in Calls \ {c} : call'[d] = call[d]
      /\ call'[c] = [call[c] EXCEPT !.op = "RELEASE", !.listed = listed]
  BY <1>1
<1>3. /\ call'[c].phase = "POSTING" /\ call'[c].listed = listed
      /\ call'[c].astray = call[c].astray
  BY <1>1, <1>2 DEF Call
<1>4. \A h \in HoldIds : \/ call'[c].listed[h] = NoRow
                         \/ FoundHold(c, h) /\ call'[c].listed[h] = CurrentHold(c, h)
  BY <1>1, <1>3, ActiveHoldsFound
<1>5. QED
  BY <1>1, <1>2, <1>3, <1>4, MemoryKeepsHolds

\* Before the first call nothing is reserved.
LEMMA InitReserved ==
  ASSUME Init
  PROVE  ReservedInv
<1>1. /\ \A c \in Calls : call[c] = IdleCall
      /\ \A c \in Calls, b \in Balances : row[c][b] = NoRow
      /\ \A c \in Calls, h \in HoldIds : holdRow[c][h] = NoRow /\ call[c].listed[h] = NoRow
      /\ \A h \in HoldIds : hold[h].status = "FREE"
      /\ \A b \in Balances : balance[b].reserved = 0
      /\ disturbed = FALSE
  BY DEF Init, IdleCall, UnwrittenRows, NoHolds, FreeHold
<1> DEFINE q == [h \in HoldIds |-> 0]
<1>2. q \in [HoldIds -> Nat] /\ q \in [HoldIds -> Int] /\ \A h \in HoldIds : q[h] = 0
  OBVIOUS
<1>3. \A h \in HoldIds, b \in Balances : Weight(hold[h], b) = 0
  BY <1>1 DEF Weight
<1>4. \A b \in Balances : HeldOn(hold, b) = SumFunction(q)
  <2> TAKE b \in Balances
  <2>1. [h \in HoldIds |-> Weight(hold[h], b)] = q
    BY <1>3
  <2>2. QED
    BY <2>1 DEF HeldOn
<1> HIDE DEF q
<1>5. SumFunction(q) = 0
  BY <1>2, HoldIdsFinite, SumZeros
<1>6. \A b \in Balances : CommittedBacked(b) /\ CommittedEqual(b)
  BY <1>1, <1>2, <1>3, <1>4, <1>5 DEF CommittedBacked, CommittedEqual
<1>7. QED
  BY <1>1, <1>6 DEF ReservedInv, NothingWrittenYet, WrittenHold, ListedHold,
                    WrittenBacked, WrittenEqual

\* Every step keeps the reservations.
LEMMA NextReserved ==
  ASSUME Inv, ReservedInv, [Next]_vars
  PROVE  ReservedInv'
<1>1. Inv'
  BY NextStep
<1>2. CASE UNCHANGED vars
  BY <1>2 DEF vars, ReservedInv, NothingWrittenYet, WrittenHold, ListedHold, CurrentHold,
              CommittedBacked, CommittedEqual, WrittenBacked, WrittenEqual, Backs, HeldOn,
              SeenHolds
<1>3. CASE Next
  <2>1. PICK c \in Calls :
          \/ BeginReceive(c)
          \/ BeginTake(c)
          \/ \E doc \in Documents : \/ BeginIssue(c, doc)
                                    \/ BeginReserve(c, doc)
                                    \/ BeginRelease(c, doc)
          \/ PlanLine(c)
          \/ Shortage(c)
          \/ PostReceive(c)
          \/ PostOutbound(c)
          \/ PostReserve(c)
          \/ PostRelease(c)
          \/ ReleaseRest(c)
          \/ Commit(c)
          \/ Abort(c)
    BY <1>3 DEF Next
  <2>2. CASE BeginReceive(c)
    <3>1. PICK lines \in ReceiptLists :
            Begin(c, "RECEIVE", NoDocument, "POSTING", <<>>, NoHolds,
                  {[left |-> Len(lines) - i, bal |-> lines[i].bal,
                    qty |-> lines[i].qty, mine |-> 0, seen |-> NoRow]
                   : i \in DOMAIN lines})
      BY <2>2 DEF BeginReceive
    <3> DEFINE plan == {[left |-> Len(lines) - i, bal |-> lines[i].bal,
                         qty |-> lines[i].qty, mine |-> 0, seen |-> NoRow]
                        : i \in DOMAIN lines}
    <3>2. Begin(c, "RECEIVE", NoDocument, "POSTING", <<>>, NoHolds, plan)
      BY <3>1
    <3> HIDE DEF plan
    <3>3. QED
      BY <1>1, <3>2, BeginHolds
  <2>3. CASE BeginTake(c)
    BY <1>1, <2>3, BeginHolds DEF BeginTake
  <2>4. CASE \E doc \in Documents : BeginIssue(c, doc)
    BY <1>1, <2>4, BeginHolds DEF BeginIssue
  <2>5. CASE \E doc \in Documents : BeginReserve(c, doc)
    BY <1>1, <2>5, BeginHolds DEF BeginReserve
  <2>6. CASE \E doc \in Documents : BeginRelease(c, doc)
    BY <1>1, <2>6, BeginHolds DEF BeginRelease
  <2>7. CASE PlanLine(c) \/ Shortage(c)
    BY <1>1, <2>7, PlanningHolds
  <2>8. CASE PostReceive(c)
    BY <1>1, <2>8, PostReceiveHolds
  <2>9. CASE PostOutbound(c)
    BY <1>1, <2>9, PostOutboundHolds
  <2>10. CASE PostReserve(c)
    BY <1>1, <2>10, PostReserveHolds
  <2>11. CASE PostRelease(c)
    BY <1>1, <2>11, PostReleaseHolds
  <2>12. CASE ReleaseRest(c)
    BY <1>1, <2>12, ReleaseRestHolds
  <2>13. CASE Commit(c)
    BY <1>1, <2>13, CommitKeepsHolds
  <2>14. CASE Abort(c)
    BY <1>1, <2>14, AbortKeepsHolds
  <2>15. QED
    BY <2>1, <2>2, <2>3, <2>4, <2>5, <2>6, <2>7, <2>8, <2>9, <2>10, <2>11, <2>12,
       <2>13, <2>14
<1>4. QED
  BY <1>2, <1>3

\* Reserved stock and reservations agree in every state of the invariant.
LEMMA ReservedTogether ==
  ASSUME Inv, ReservedInv
  PROVE  ReservationsHoldTogether
<1>1. HoldsInv
  BY DEF Inv
<1>2. \A b \in Balances : ActiveOn(b) = HeldOn(hold, b)
  BY <1>1, ActiveIsHeld
<1>3. NothingReservedForNobody
  <2> SUFFICES ASSUME NEW b \in Balances PROVE balance[b].reserved <= HeldOn(hold, b)
    BY <1>2 DEF NothingReservedForNobody
  <2>1. CommittedBacked(b)
    BY DEF ReservedInv
  <2>2. PICK q \in [HoldIds -> Nat] :
          /\ balance[b].reserved <= SumFunction(q)
          /\ \A h \in HoldIds : q[h] <= Weight(hold[h], b)
    BY <2>1 DEF CommittedBacked
  <2> DEFINE g == [h \in HoldIds |-> Weight(hold[h], b)]
  <2>3. g \in [HoldIds -> Nat]
    BY <1>1, WeightsType DEF HoldsInv
  <2>4. \A h \in HoldIds : q[h] <= g[h]
    BY <2>2
  <2>5. HeldOn(hold, b) = SumFunction(g)
    BY DEF HeldOn
  <2> HIDE DEF g
  <2>6. q \in [HoldIds -> Int] /\ g \in [HoldIds -> Int]
    BY <2>3
  <2>7. SumFunction(q) <= SumFunction(g)
    BY <2>4, <2>6, HoldIdsFinite, SumMonotone
  <2>8. /\ SumFunction(q) \in Int /\ SumFunction(g) \in Int
        /\ balance[b].reserved \in Int
    <3>1. balance[b] \in Row
      BY DEF Inv, RowsInv, TablesInv
    <3>2. balance[b].reserved \in Int
      BY <3>1 DEF Row
    <3>3. QED
      BY <2>6, <3>2, HoldIdsFinite, SumIsAnInteger
  <2>9. QED
    BY <2>2, <2>5, <2>7, <2>8
<1>4. ReservedIsTheHolds
  BY <1>2 DEF ReservedInv, CommittedEqual, ReservedIsTheHolds
<1>5. QED
  BY <1>3, <1>4 DEF ReservationsHoldTogether

\* Whatever calls overlap, and whichever of them fail, every committed balance
\* is the sum of its committed movements, and no more of it is reserved than
\* is there (postInbound, postOutbound, reserve and release of
\* StockLedgerService, the balance repository's save).
THEOREM BalancesSafe == Spec => []BalanceIsItsMovements
<1>1. Init => Inv
  BY InitInv
<1>2. Inv /\ [Next]_vars => Inv'
  BY NextStep
<1>3. Inv => BalanceIsItsMovements
  BY DEF Inv, RowsInv
<1>4. QED
  BY <1>1, <1>2, <1>3, PTL DEF Spec

\* Every state is well typed: no quantity of a balance or a reservation ever
\* goes below zero, whatever overlaps or fails (postOutbound, reserve and release
\* of StockLedgerService, applyMovement).
THEOREM TypeCorrect == Spec => []TypeOK
<1>1. Init => Inv /\ ReservedInv
  BY InitInv, InitReserved
<1>2. Inv /\ ReservedInv /\ [Next]_vars => Inv' /\ ReservedInv'
  BY NextStep, NextReserved
<1>3. Inv /\ ReservedInv => TypeOK
  BY DEF Inv, CallsInv, HoldsInv, RowsInv, TablesInv, ReservedInv, TypeOK
<1>4. QED
  BY <1>1, <1>2, <1>3, PTL DEF Spec

\* Whatever reservations, issues and releases overlap and whichever fail, stock
\* that counts as reserved always has ACTIVE reservations behind it, and exactly
\* those until a call commits that saved a hold it no longer knew
\* (consumeReservations and release of StockLedgerService).
THEOREM ReservationsSafe == Spec => []ReservationsHoldTogether
<1>1. Init => Inv /\ ReservedInv
  BY InitInv, InitReserved
<1>2. Inv /\ ReservedInv /\ [Next]_vars => Inv' /\ ReservedInv'
  BY NextStep, NextReserved
<1>3. Inv /\ ReservedInv => ReservationsHoldTogether
  BY ReservedTogether
<1>4. QED
  BY <1>1, <1>2, <1>3, PTL DEF Spec
=============================================================================
