--------------------------- MODULE Outbox_proofs ---------------------------
(***************************************************************************)
(* Proofs about Outbox for any set of rows and replicas, any attempt cap   *)
(* and batch size, and any bounds on stalls and faults.                    *)
(*                                                                         *)
(* The writes of markDelivered and markFailure are by id alone, so nothing *)
(* about a row follows from the replica's having leased it.  What carries  *)
(* the argument is the replica's own memory: the attempts it read are      *)
(* below the cap, and an answer "sent" means LINE accepted that row.       *)
(*                                                                         *)
(* Leases are another matter: how many replicas hold a row does follow     *)
(* from the conditional update of claimPending, once every lease lost under *)
(* its holder is counted (LeaseInv).                                       *)
(***************************************************************************)
EXTENDS Outbox, FiniteSetTheorems, TLAPS

\* A "sent" answer in a replica's memory is backed by an acceptance.
SentIsAccepted ==
  \A p \in Replicas :
    worker[p].phase = "answered" /\ worker[p].outcome = "sent"
      => \A c \in worker[p].pushed : c.row \in accepted

\* The part of the invariant about rows, and the part about replicas' memories.
RowsInv ==
  /\ outbox \in [Rows -> Row]
  /\ DeliveredWasAccepted
  /\ LiveRowHasAttemptsLeft

MemoryInv ==
  /\ worker \in [Replicas -> Worker]
  /\ SentIsAccepted

CountersInv ==
  /\ accepted \subseteq Routable
  /\ overtaken \in [Rows -> 0..(MaxStalls + MaxFaults)]
  /\ faults \in 0..MaxFaults
  /\ \A r \in Rows : overtaken[r] <= MaxStalls + faults

Inv == RowsInv /\ MemoryInv /\ CountersInv

\* Finishing a claim keeps a replica's memory well typed (dispatchOne), and
\* leaves no answer behind.
LEMMA DoneWithType ==
  ASSUME NEW w \in Worker, NEW c \in Claim
  PROVE  DoneWith(w, c) \in Worker /\ DoneWith(w, c).phase # "answered"
BY DEF DoneWith, IdleWorker, Worker, Phase, Outcome

\* The row markFailure writes without a retry is well typed and DEAD.
LEMMA DeadRowType ==
  ASSUME outbox \in [Rows -> Row], NEW r \in Rows, NEW a \in 0..(MaxAttempts - 1)
  PROVE  DeadRow(r, a + 1) \in Row /\ DeadRow(r, a + 1).status = "DEAD"
<1>1. outbox[r] \in Row /\ a + 1 \in 0..MaxAttempts
  BY MaxAttemptsAssumption
<1>2. QED
  BY <1>1 DEF DeadRow, Row, Status

\* The row scheduleRetry writes is well typed and, if it can still be pushed, has
\* attempts left (nextDelayMs is compared with the cap before the write).
LEMMA RowAfterRetryType ==
  ASSUME outbox \in [Rows -> Row], NEW r \in Rows, NEW a \in 0..(MaxAttempts - 1)
  PROVE  /\ RowAfterRetry(r, a + 1) \in Row
         /\ RowAfterRetry(r, a + 1).status \in {"PENDING", "DEAD"}
         /\ RowAfterRetry(r, a + 1).status = "PENDING"
              => RowAfterRetry(r, a + 1).attempts < MaxAttempts
<1>1. outbox[r] \in Row /\ a + 1 \in 0..MaxAttempts /\ MaxAttempts \in Nat
  BY MaxAttemptsAssumption
<1>2. CASE Exhausted(a + 1)
  BY <1>1, <1>2 DEF RowAfterRetry, DeadRow, Row, Status
<1>3. CASE ~Exhausted(a + 1)
  <2>1. a + 1 < MaxAttempts
    BY <1>1, <1>3 DEF Exhausted
  <2>2. RowAfterRetry(r, a + 1) = RetryRow(r, a + 1)
    BY <1>3 DEF RowAfterRetry
  <2>3. RetryRow(r, a + 1) \in Row
    BY <1>1 DEF RetryRow, Row, Status
  <2>4. /\ RetryRow(r, a + 1).status = "PENDING"
        /\ RetryRow(r, a + 1).attempts = a + 1
    BY <1>1 DEF RetryRow, Row
  <2>5. QED
    BY <2>1, <2>2, <2>3, <2>4
<1>4. QED
  BY <1>2, <1>3

\* Whatever a tick writes of a claim frees the row, is DELIVERED only after a "sent"
\* answer, and leaves attempts to a row that can still be pushed.
LEMMA OutcomeRowType ==
  ASSUME outbox \in [Rows -> Row], NEW c \in Claim, NEW o
  PROVE  /\ OutcomeRow(o, c) \in Row
         /\ OutcomeRow(o, c).lease = "none"
         /\ OutcomeRow(o, c).status = "DELIVERED" => o = "sent"
         /\ OutcomeRow(o, c).status \notin {"DELIVERED", "DEAD"}
              => OutcomeRow(o, c).attempts < MaxAttempts
<1>1. c.row \in Rows /\ c.attempts \in 0..(MaxAttempts - 1) /\ outbox[c.row] \in Row
  BY DEF Claim
<1>2. /\ DeliveredRow(c.row) \in Row /\ DeliveredRow(c.row).status = "DELIVERED"
      /\ DeliveredRow(c.row).lease = "none"
  BY <1>1 DEF DeliveredRow, Row, Status
<1>3. \A n : DeadRow(c.row, n).lease = "none" /\ RetryRow(c.row, n).lease = "none"
  BY <1>1 DEF DeadRow, RetryRow, Row
<1>4. CASE o = "sent"
  BY <1>2, <1>4 DEF OutcomeRow
<1>5. CASE o = "permanent"
  <2>1. OutcomeRow(o, c) = DeadRow(c.row, c.attempts + 1)
    BY <1>5 DEF OutcomeRow
  <2>2. QED
    BY <1>1, <1>3, <2>1, DeadRowType
<1>6. CASE o \notin {"sent", "permanent"}
  <2> DEFINE R == RowAfterRetry(c.row, c.attempts + 1)
  <2>1. OutcomeRow(o, c) = R
    BY <1>6 DEF OutcomeRow
  <2>2. R.lease = "none"
    BY <1>3 DEF RowAfterRetry
  <2>3. /\ R \in Row /\ R.status \in {"PENDING", "DEAD"}
        /\ R.status = "PENDING" => R.attempts < MaxAttempts
    BY <1>1, RowAfterRetryType
  <2> HIDE DEF R
  <2>4. QED
    BY <2>1, <2>2, <2>3
<1>7. QED
  BY <1>4, <1>5, <1>6

LEMMA InitInv == Init => Inv
BY MaxAttemptsAssumption, BoundsAssumption
DEF Init, Inv, RowsInv, MemoryInv, CountersInv, DeliveredWasAccepted,
    LiveRowHasAttemptsLeft, SentIsAccepted, Row, Status, Worker, IdleWorker, Phase, Outcome

\* Writing one row keeps the part about rows, if the row written is well typed,
\* accepted when DELIVERED and below the cap when it can still be pushed.
LEMMA RowWritten ==
  ASSUME RowsInv, NEW r \in Rows, NEW R \in Row,
         outbox' = [outbox EXCEPT ![r] = R],
         accepted \subseteq accepted',
         R.status = "DELIVERED" => r \in accepted',
         R.status \notin {"DELIVERED", "DEAD"} => R.attempts < MaxAttempts
  PROVE  RowsInv'
BY DEF RowsInv, DeliveredWasAccepted, LiveRowHasAttemptsLeft

\* A step that writes no row keeps the part about rows.
LEMMA RowsKept ==
  ASSUME RowsInv, UNCHANGED outbox, accepted \subseteq accepted'
  PROVE  RowsInv'
BY DEF RowsInv, DeliveredWasAccepted, LiveRowHasAttemptsLeft

\* A replica's step keeps the part about memories, if it remembers "sent" only of
\* rows LINE accepted.
LEMMA MemoryWritten ==
  ASSUME MemoryInv, NEW p \in Replicas, NEW W \in Worker,
         worker' = [worker EXCEPT ![p] = W],
         accepted \subseteq accepted',
         W.phase = "answered" /\ W.outcome = "sent"
           => \A c \in W.pushed : c.row \in accepted'
  PROVE  MemoryInv'
BY DEF MemoryInv, SentIsAccepted

\* A step of no replica keeps the part about memories.
LEMMA MemoryKept ==
  ASSUME MemoryInv, UNCHANGED <<worker, accepted>>
  PROVE  MemoryInv'
BY DEF MemoryInv, SentIsAccepted

\* The end of a tick, or of the last claim, leaves an idle, well-typed memory.
LEMMA IdleType == IdleWorker \in Worker /\ IdleWorker.phase # "answered"
BY DEF IdleWorker, Worker, Phase, Outcome

\* Writing the outcome of a claim (markDelivered, markFailure) keeps the invariant,
\* if the row written does.
LEMMA OutcomeWritten ==
  ASSUME Inv, NEW p \in Replicas, NEW c \in Claim, NEW R \in Row,
         outbox' = [outbox EXCEPT ![c.row] = R],
         worker' = [worker EXCEPT ![p] = DoneWith(@, c)],
         UNCHANGED <<accepted, overtaken, faults>>,
         R.status = "DELIVERED" => c.row \in accepted,
         R.status \notin {"DELIVERED", "DEAD"} => R.attempts < MaxAttempts
  PROVE  Inv'
<1>1. c.row \in Rows
  BY DEF Claim
<1>2. worker[p] \in Worker
  BY DEF Inv, MemoryInv
<1>3. RowsInv'
  BY <1>1, RowWritten DEF Inv
<1>4. MemoryInv'
  BY <1>2, DoneWithType, MemoryWritten DEF Inv
<1>5. QED
  BY <1>3, <1>4 DEF Inv, CountersInv

\* Every step preserves the invariant: one step per action.
LEMMA NextInv == Inv /\ [Next]_vars => Inv'
<1> SUFFICES ASSUME Inv, [Next]_vars PROVE Inv'
  OBVIOUS
<1> USE MaxAttemptsAssumption, BoundsAssumption
<1>a. outbox \in [Rows -> Row] /\ worker \in [Replicas -> Worker] /\ MaxAttempts \in Nat
  BY DEF Inv, RowsInv, MemoryInv
<1>b. \A p \in Replicas :
        \A c \in worker[p].candidates \union worker[p].claimed \union worker[p].pushed :
          c \in Claim /\ c.row \in Rows /\ c.attempts \in 0..(MaxAttempts - 1)
  BY <1>a DEF Worker, Claim
<1>1. ASSUME NEW r \in Rows, Enqueue(r) PROVE Inv'
  <2> DEFINE R == [outbox[r] EXCEPT !.status = "PENDING", !.due = TRUE]
  <2>1. outbox' = [outbox EXCEPT ![r] = R] /\ R \in Row /\ R.status = "PENDING"
    BY <1>1, <1>a DEF Enqueue, Row, Status
  <2>2. R.attempts < MaxAttempts
    BY <1>1, <1>a DEF Enqueue, Inv, RowsInv, LiveRowHasAttemptsLeft, Row
  <2>3. QED
    BY <1>1, <2>1, <2>2, RowWritten, MemoryKept DEF Enqueue, Inv, CountersInv
<1>2. ASSUME NEW r \in Rows, BackoffElapses(r) PROVE Inv'
  <2> DEFINE R == [outbox[r] EXCEPT !.due = TRUE]
  <2>1. /\ outbox' = [outbox EXCEPT ![r] = R] /\ R \in Row
        /\ R.status = outbox[r].status /\ R.attempts = outbox[r].attempts
    BY <1>2, <1>a DEF BackoffElapses, Row, Status
  <2>2. QED
    BY <1>2, <2>1, RowWritten, MemoryKept
    DEF BackoffElapses, Inv, RowsInv, CountersInv, LiveRowHasAttemptsLeft,
        DeliveredWasAccepted
<1>3. ASSUME NEW r \in Rows, LeaseAges(r) PROVE Inv'
  <2> DEFINE R == [outbox[r] EXCEPT !.lease = "stale"]
  <2>1. /\ outbox' = [outbox EXCEPT ![r] = R] /\ R \in Row
        /\ R.status = outbox[r].status /\ R.attempts = outbox[r].attempts
    BY <1>3, <1>a DEF LeaseAges, Row, Status
  <2>2. /\ overtaken' \in [Rows -> 0..(MaxStalls + MaxFaults)]
        /\ \A s \in Rows : overtaken'[s] <= MaxStalls + faults
    BY <1>3 DEF LeaseAges, Inv, CountersInv
  <2>3. QED
    BY <1>3, <2>1, <2>2, RowWritten, MemoryKept
    DEF LeaseAges, Inv, RowsInv, CountersInv, LiveRowHasAttemptsLeft,
        DeliveredWasAccepted
<1>4. ASSUME NEW p \in Replicas, ReadCandidates(p) PROVE Inv'
  <2>1. PICK batch \in SUBSET DueRows :
          worker' = [worker EXCEPT ![p] =
            [IdleWorker EXCEPT
               !.phase = "claiming",
               !.candidates =
                 {[row |-> r, attempts |-> outbox[r].attempts] : r \in batch}]]
    BY <1>4 DEF ReadCandidates
  <2> DEFINE C == {[row |-> r, attempts |-> outbox[r].attempts] : r \in batch}
             W == [IdleWorker EXCEPT !.phase = "claiming", !.candidates = C]
  <2>2. \A r \in batch : r \in Rows /\ outbox[r].attempts \in 0..(MaxAttempts - 1)
    BY <1>a DEF DueRows, Inv, RowsInv, LiveRowHasAttemptsLeft, Row
  <2>3. C \in SUBSET Claim
    BY <2>2 DEF Claim
  <2>4. W \in Worker /\ W.phase = "claiming"
    BY <2>3, IdleType DEF Worker, Phase, IdleWorker
  <2>5. QED
    BY <1>4, <2>1, <2>4, RowsKept, MemoryWritten
    DEF ReadCandidates, Inv, CountersInv
<1>5. ASSUME NEW p \in Replicas, EndClaim(p) PROVE Inv'
  <2> DEFINE W == IF worker[p].claimed = {} THEN IdleWorker
                  ELSE [worker[p] EXCEPT !.phase = "dispatching"]
  <2>1. W \in Worker /\ W.phase # "answered"
    BY <1>a, IdleType DEF Worker, Phase
  <2>2. worker' = [worker EXCEPT ![p] = W]
    BY <1>5, <1>a DEF EndClaim
  <2>3. QED
    BY <1>5, <2>1, <2>2, RowsKept, MemoryWritten DEF EndClaim, Inv, CountersInv
<1>6. ASSUME NEW p \in Replicas, NEW c \in worker[p].candidates, LeaseRow(p, c)
      PROVE  Inv'
  <2>1. c \in Claim /\ c.row \in Rows
    BY <1>b
  <2>2. CASE outbox[c.row].status = "PENDING"
    <3> DEFINE R == [outbox[c.row] EXCEPT !.status = "IN_FLIGHT", !.lease = "fresh"]
               W == [worker[p] EXCEPT !.candidates = @ \ {c},
                                      !.claimed = @ \union {c}]
    <3>1. /\ outbox' = [outbox EXCEPT ![c.row] = R]
          /\ worker' = [worker EXCEPT ![p] = W]
      BY <1>6, <1>a, <2>1, <2>2 DEF LeaseRow
    <3>2. R \in Row /\ R.status = "IN_FLIGHT" /\ R.attempts < MaxAttempts
      <4>1. outbox[c.row] \in Row /\ outbox[c.row].attempts < MaxAttempts
        BY <1>a, <2>1, <2>2 DEF Inv, RowsInv, LiveRowHasAttemptsLeft
      <4>2. QED
        BY <4>1 DEF Row, Status
    <3>3. W \in Worker /\ W.phase = "claiming"
      BY <1>6, <1>a, <2>1 DEF LeaseRow, Worker, Phase
    <3>4. QED
      BY <1>6, <2>1, <3>1, <3>2, <3>3, RowWritten, MemoryWritten
      DEF LeaseRow, Inv, CountersInv
  <2>3. CASE outbox[c.row].status # "PENDING"
    <3> DEFINE W == [worker[p] EXCEPT !.candidates = @ \ {c}]
    <3>1. UNCHANGED outbox /\ worker' = [worker EXCEPT ![p] = W]
      BY <1>6, <1>a, <2>3 DEF LeaseRow
    <3>2. W \in Worker /\ W.phase = "claiming"
      BY <1>6, <1>a DEF LeaseRow, Worker, Phase
    <3>3. QED
      BY <1>6, <3>1, <3>2, RowsKept, MemoryWritten DEF LeaseRow, Inv, CountersInv
  <2>4. QED
    BY <2>2, <2>3
<1>7. ASSUME NEW p \in Replicas, NEW c \in worker[p].claimed, NoRecipient(p, c)
      PROVE  Inv'
  <2>1. c \in Claim /\ c.row \in Rows /\ c.attempts \in 0..(MaxAttempts - 1)
    BY <1>b
  <2>2. /\ DeadRow(c.row, c.attempts + 1) \in Row
        /\ DeadRow(c.row, c.attempts + 1).status = "DEAD"
    BY <1>a, <2>1, DeadRowType
  <2>3. QED
    BY <1>7, <2>1, <2>2, OutcomeWritten DEF NoRecipient, Inv, CountersInv
<1>8. ASSUME NEW p \in Replicas, NEW c \in worker[p].claimed, Push(p, c)
      PROVE  Inv'
  <2>1. PICK answer \in LineAnswers(c.row) :
          /\ accepted' = IF answer.ok THEN accepted \union {c.row} ELSE accepted
          /\ worker' = [worker EXCEPT ![p].phase = "answered", ![p].pushed = {c},
                                      ![p].outcome = answer.outcome]
    BY <1>8 DEF Push
  <2>2. /\ answer.outcome \in Outcome
        /\ answer.outcome = "sent" => c.row \in accepted'
    BY <2>1, DuplicateAnswersAssumption DEF LineAnswers, Outcome
  <2> DEFINE W == [worker[p] EXCEPT !.phase = "answered", !.pushed = {c},
                                    !.outcome = answer.outcome]
  <2>3. W \in Worker /\ W.pushed = {c} /\ W.outcome = answer.outcome
    BY <1>a, <1>b, <2>2 DEF Worker, Phase
  <2>4. worker' = [worker EXCEPT ![p] = W]
    BY <2>1, <1>a
  <2>5. accepted \subseteq accepted' /\ accepted' \subseteq Routable
    BY <1>8, <2>1 DEF Push, Inv, CountersInv
  <2>6. RowsInv'
    BY <1>8, <2>5, RowsKept DEF Push, Inv
  <2>7. MemoryInv'
    BY <2>2, <2>3, <2>4, <2>5, MemoryWritten DEF Inv
  <2>8. QED
    BY <1>8, <2>5, <2>6, <2>7 DEF Push, Inv, CountersInv
<1>9. ASSUME NEW p \in Replicas, NEW c \in worker[p].claimed,
             MarkDelivered(p, c) \/ MarkPermanent(p, c) \/ ScheduleRetry(p, c)
      PROVE  Inv'
  <2>1. c \in Claim /\ c.row \in Rows
    BY <1>b
  <2>2. PICK o : /\ outbox' = [outbox EXCEPT ![c.row] = OutcomeRow(o, c)]
                 /\ o = "sent" => MarkDelivered(p, c)
    BY <1>9 DEF MarkDelivered, MarkPermanent, ScheduleRetry
  <2>3. o = "sent" => c.row \in accepted
    BY <2>2 DEF MarkDelivered, Inv, MemoryInv, SentIsAccepted
  <2>4. PICK R : R = OutcomeRow(o, c)
    OBVIOUS
  <2>5. /\ R \in Row
        /\ R.status = "DELIVERED" => c.row \in accepted
        /\ R.status \notin {"DELIVERED", "DEAD"} => R.attempts < MaxAttempts
    BY <1>a, <2>1, <2>3, <2>4, OutcomeRowType
  <2>6. /\ outbox' = [outbox EXCEPT ![c.row] = R]
        /\ worker' = [worker EXCEPT ![p] = DoneWith(@, c)]
        /\ UNCHANGED <<accepted, overtaken, faults>>
    BY <1>9, <2>2, <2>4 DEF MarkDelivered, MarkPermanent, ScheduleRetry
  <2>7. QED
    BY <2>1, <2>5, <2>6, OutcomeWritten
<1>10. ASSUME NEW p \in Replicas, NEW c \in worker[p].claimed, WriteThrows(p, c)
       PROVE  Inv'
  <2>1. c \in Claim /\ c.row \in Rows /\ worker[p] \in Worker
    BY <1>a, <1>b
  <2> DEFINE W == [worker[p] EXCEPT !.outcome = "thrown"]
  <2>2. worker' = [worker EXCEPT ![p] = W] /\ UNCHANGED accepted
    BY <1>10 DEF WriteThrows
  <2>3. W \in Worker /\ W.outcome = "thrown"
    BY <2>1 DEF Worker, Outcome
  <2> HIDE DEF W
  <2>4. MemoryInv'
    BY <2>2, <2>3, MemoryWritten DEF Inv
  <2>5. RowsInv'
    <3>1. CASE UNCHANGED outbox
      BY <2>2, <3>1, RowsKept DEF Inv
    <3>2. CASE outbox' = [outbox EXCEPT ![c.row] = OutcomeRow(worker[p].outcome, c)]
      <4>1. worker[p].outcome = "sent" => c.row \in accepted
        BY <1>10 DEF WriteThrows, Inv, MemoryInv, SentIsAccepted
      <4>2. PICK R : R = OutcomeRow(worker[p].outcome, c)
        OBVIOUS
      <4>3. /\ R \in Row
            /\ R.status = "DELIVERED" => c.row \in accepted
            /\ R.status \notin {"DELIVERED", "DEAD"} => R.attempts < MaxAttempts
        BY <1>a, <2>1, <4>1, <4>2, OutcomeRowType
      <4>4. QED
        BY <2>1, <2>2, <3>2, <4>2, <4>3, RowWritten DEF Inv
    <3>3. QED
      BY <1>10, <3>1, <3>2 DEF WriteThrows
  <2>6. CountersInv'
    <3>1. /\ faults' = faults + 1 /\ faults' \in 0..MaxFaults /\ faults \in Nat
          /\ MaxStalls \in Nat /\ MaxFaults \in Nat
      BY <1>10 DEF WriteThrows, Inv, CountersInv
    <3>2. ASSUME NEW r \in Rows
          PROVE  /\ overtaken'[r] \in 0..(MaxStalls + MaxFaults)
                 /\ overtaken'[r] <= MaxStalls + faults'
      <4>1. overtaken[r] \in Nat /\ overtaken[r] <= MaxStalls + faults
        BY <3>1 DEF Inv, CountersInv
      <4>2. overtaken'[r] = overtaken[r] \/ overtaken'[r] = overtaken[r] + 1
        BY <1>10 DEF WriteThrows, Inv, CountersInv
      <4>3. QED
        BY <3>1, <4>1, <4>2
    <3>3. overtaken' = [r \in Rows |-> overtaken'[r]]
      BY <1>10 DEF WriteThrows, Inv, CountersInv
    <3>4. overtaken' \in [Rows -> 0..(MaxStalls + MaxFaults)]
      BY <3>2, <3>3
    <3>5. QED
      BY <2>2, <3>1, <3>2, <3>4 DEF Inv, CountersInv
  <2>7. QED
    BY <2>4, <2>5, <2>6 DEF Inv
<1>12. ASSUME NEW p \in Replicas, LoseTick(p) PROVE Inv'
  <2>1. /\ faults' \in 0..MaxFaults /\ faults <= faults' /\ faults \in Nat
        /\ UNCHANGED <<overtaken, accepted>>
    BY <1>12 DEF LoseTick, Inv, CountersInv
  <2>a. \A r \in Rows : overtaken'[r] <= MaxStalls + faults'
    BY <2>1 DEF Inv, CountersInv
  <2>2. QED
    BY <1>12, <2>1, <2>a, IdleType, RowsKept, MemoryWritten DEF LoseTick, Inv, CountersInv
<1>13. ASSUME ReclaimStalled PROVE Inv'
  <2>1. ASSUME NEW r \in Rows
        PROVE  /\ outbox'[r] \in Row
               /\ outbox'[r].status \in {outbox[r].status, "PENDING"}
               /\ outbox'[r].status # outbox[r].status
                    => outbox[r].status = "IN_FLIGHT"
               /\ outbox'[r].attempts = outbox[r].attempts
    BY <1>13, <1>a DEF ReclaimStalled, Stalled, Row, Status
  <2>2. outbox' \in [Rows -> Row]
    BY <1>13, <2>1 DEF ReclaimStalled
  <2>3. RowsInv'
    BY <1>13, <2>1, <2>2
    DEF ReclaimStalled, Inv, RowsInv, DeliveredWasAccepted, LiveRowHasAttemptsLeft
  <2>4. QED
    BY <1>13, <2>3, MemoryKept DEF ReclaimStalled, Inv, CountersInv
<1>14. CASE UNCHANGED vars
  BY <1>14, RowsKept, MemoryKept DEF vars, Inv, CountersInv
<1>15. QED
  BY <1>1, <1>2, <1>3, <1>4, <1>5, <1>6, <1>7, <1>8, <1>9, <1>10, <1>12,
     <1>13, <1>14 DEF Next, WorkerStep

\* The invariant holds in every reachable state.
LEMMA SpecInv == Spec => []Inv
<1>1. QED
  BY InitInv, NextInv, PTL DEF Spec

\* Type correctness of the outbox for every instance.
THEOREM TypeCorrect == Spec => []TypeOK
<1>1. Inv => TypeOK
  BY DEF Inv, RowsInv, MemoryInv, CountersInv, TypeOK
<1>2. QED
  BY <1>1, SpecInv, PTL

\* No replica ever marks a row DELIVERED that LINE did not accept, for any number
\* of replicas, overtaken, crashes and failed writes (markDelivered by id alone).
THEOREM DeliveredSafe == Spec => []DeliveredWasAccepted
<1>1. Inv => DeliveredWasAccepted
  BY DEF Inv, RowsInv
<1>2. QED
  BY <1>1, SpecInv, PTL

\* A row that is not settled always has attempts left, so the cap of nextDelayMs
\* can still send it to DEAD, although attempts are overwritten from stale reads.
THEOREM AttemptsSafe == Spec => []LiveRowHasAttemptsLeft
<1>1. Inv => LiveRowHasAttemptsLeft
  BY DEF Inv, RowsInv
<1>2. QED
  BY <1>1, SpecInv, PTL
-----------------------------------------------------------------------------
(***************************************************************************)
(* Leases                                                                  *)
(***************************************************************************)
\* A tick has one copy of a row at most.
OneClaimEach ==
  \A p \in Replicas :
    \A c, d \in worker[p].candidates \union worker[p].claimed : c.row = d.row => c = d

\* Only a row in flight has a fresh lease, and only such a row has a holder that no
\* loss of a lease accounts for.
LeaseSafe(r) ==
  /\ outbox[r].lease = "fresh" => outbox[r].status = "IN_FLIGHT"
  /\ IsFiniteSet(Holders(r))
  /\ Cardinality(Holders(r)) <= overtaken[r] + (IF outbox[r].lease = "fresh" THEN 1 ELSE 0)

LeaseInv == OneClaimEach /\ \A r \in Rows : LeaseSafe(r)

\* A step of a replica changes the holders of a row by that replica at most.
LEMMA HoldersAfter ==
  ASSUME MemoryInv, NEW p \in Replicas, NEW W, worker' = [worker EXCEPT ![p] = W], NEW r
  PROVE  Holders(r)' = IF \E c \in W.claimed : c.row = r
                       THEN Holders(r) \union {p} ELSE Holders(r) \ {p}
BY DEF Holders, MemoryInv

\* A row keeps its bound while it gains no holder, loses no fresh lease and is not overtaken.
LEMMA LeaseKept ==
  ASSUME Inv, NEW r \in Rows, LeaseSafe(r),
         Holders(r)' \subseteq Holders(r), overtaken'[r] = overtaken[r],
         outbox'[r].lease = "fresh" <=> outbox[r].lease = "fresh",
         outbox'[r].lease = "fresh" => outbox'[r].status = "IN_FLIGHT"
  PROVE  LeaseSafe(r)'
<1> DEFINE H == Holders(r)
           more == IF outbox[r].lease = "fresh" THEN 1 ELSE 0
<1>1. /\ IsFiniteSet(H') /\ Cardinality(H') <= Cardinality(H)
      /\ Cardinality(H) \in Nat /\ Cardinality(H') \in Nat
  BY FS_Subset, FS_CardinalityType DEF LeaseSafe
<1>2. overtaken[r] \in Nat /\ more \in Nat /\ Cardinality(H) <= overtaken[r] + more
  BY BoundsAssumption DEF LeaseSafe, Inv, CountersInv
<1>3. more' = more
  OBVIOUS
<1> HIDE DEF H, more
<1>4. Cardinality(H') <= overtaken'[r] + more'
  BY <1>1, <1>2, <1>3
<1>5. QED
  BY <1>1, <1>4 DEF LeaseSafe, H, more

\* A holder that writes its outcome lets go of the row.
LEMMA LeaseEnds ==
  ASSUME Inv, NEW r \in Rows, LeaseSafe(r), NEW p \in Holders(r),
         Holders(r)' = Holders(r) \ {p}, overtaken'[r] = overtaken[r],
         outbox'[r].lease = "none"
  PROVE  LeaseSafe(r)'
<1> DEFINE H == Holders(r)
           more == IF outbox[r].lease = "fresh" THEN 1 ELSE 0
<1>1. /\ IsFiniteSet(H') /\ Cardinality(H') = Cardinality(H) - 1
      /\ Cardinality(H) \in Nat
  BY FS_RemoveElement, FS_CardinalityType DEF LeaseSafe
<1>2. overtaken[r] \in Nat /\ more \in 0..1 /\ Cardinality(H) <= overtaken[r] + more
  BY BoundsAssumption DEF LeaseSafe, Inv, CountersInv
<1>3. Cardinality(H') <= overtaken'[r] + 0
  <2> HIDE DEF H, more
  <2>1. QED
    BY <1>1, <1>2
<1>4. QED
  BY <1>1, <1>3 DEF LeaseSafe

\* A step that leaves the leases alone, of a replica that takes no row.
LEMMA LeasesKept ==
  ASSUME Inv, LeaseInv, overtaken' = overtaken, NEW p \in Replicas, NEW W \in Worker,
         worker' = [worker EXCEPT ![p] = W], W.claimed \subseteq worker[p].claimed,
         \A c, d \in W.candidates \union W.claimed : c.row = d.row => c = d,
         UNCHANGED outbox
  PROVE  LeaseInv'
<1>1. worker \in [Replicas -> Worker]
  BY DEF Inv, MemoryInv
<1>2. OneClaimEach'
  BY <1>1 DEF LeaseInv, OneClaimEach
<1>3. ASSUME NEW r \in Rows PROVE LeaseSafe(r)'
  <2>1. Holders(r)' \subseteq Holders(r)
    BY <1>1 DEF Holders
  <2>2. QED
    BY <2>1, LeaseKept DEF LeaseInv, LeaseSafe
<1>4. QED
  BY <1>2, <1>3 DEF LeaseInv

\* The outcome of a claim is written: its row is free, unless it was overtaken.
LEMMA LeasesEnd ==
  ASSUME Inv, LeaseInv, overtaken' = overtaken, NEW p \in Replicas, NEW c \in worker[p].claimed,
         worker' = [worker EXCEPT ![p] = DoneWith(@, c)],
         outbox'[c.row].lease = "none",
         \A r \in Rows \ {c.row} : outbox'[r] = outbox[r]
  PROVE  LeaseInv'
<1> DEFINE W == DoneWith(worker[p], c)
<1>1. worker \in [Replicas -> Worker] /\ worker[p] \in Worker
  BY DEF Inv, MemoryInv
<1>2. /\ W.claimed = worker[p].claimed \ {c}
      /\ W.candidates \subseteq worker[p].candidates
  BY <1>1 DEF DoneWith, IdleWorker, Worker
<1>3. worker' = [worker EXCEPT ![p] = W]
  BY <1>1
<1> HIDE DEF W
<1>4. OneClaimEach'
  BY <1>1, <1>2, <1>3 DEF LeaseInv, OneClaimEach
<1>5. \A d \in W.claimed : d.row # c.row
  BY <1>2 DEF LeaseInv, OneClaimEach
<1>6. ASSUME NEW r \in Rows PROVE LeaseSafe(r)'
  <2>1. Holders(r)' = IF \E d \in W.claimed : d.row = r
                      THEN Holders(r) \union {p} ELSE Holders(r) \ {p}
    BY <1>3, HoldersAfter DEF Inv
  <2>2. CASE r = c.row
    <3>1. Holders(r)' = Holders(r) \ {p} /\ p \in Holders(r)
      BY <1>5, <2>1, <2>2 DEF Holders
    <3>2. QED
      BY <2>2, <3>1, LeaseEnds DEF LeaseInv
  <2>3. CASE r # c.row
    <3>1. Holders(r)' \subseteq Holders(r)
      BY <1>2, <2>1 DEF Holders
    <3>2. QED
      BY <2>3, <3>1, LeaseKept DEF LeaseInv, LeaseSafe
  <2>4. QED
    BY <2>2, <2>3
<1>7. QED
  BY <1>4, <1>6 DEF LeaseInv

\* Steps of time, of the domain and of the reclaimer: nobody takes or drops a row.
LEMMA RowSteps ==
  ASSUME Inv, LeaseInv,
         \/ \E r \in Rows : Enqueue(r) \/ BackoffElapses(r)
         \/ ReclaimStalled
         \/ UNCHANGED vars
  PROVE  LeaseInv'
<1>1. UNCHANGED <<worker, overtaken>> /\ outbox \in [Rows -> Row]
  BY DEF Enqueue, BackoffElapses, ReclaimStalled, vars, Inv, RowsInv
<1>2. OneClaimEach'
  BY <1>1 DEF LeaseInv, OneClaimEach
<1>3. ASSUME NEW r \in Rows PROVE LeaseSafe(r)'
  <2>1. Holders(r)' \subseteq Holders(r) /\ LeaseSafe(r)
    BY <1>1 DEF Holders, LeaseInv
  <2>2. /\ outbox'[r].lease = "fresh" <=> outbox[r].lease = "fresh"
        /\ outbox'[r].lease = "fresh" => outbox'[r].status = "IN_FLIGHT"
    <3>1. CASE ReclaimStalled
      BY <1>1, <2>1, <3>1 DEF ReclaimStalled, Stalled, LeaseSafe, Row
    <3>2. ASSUME NEW s \in Rows, Enqueue(s) PROVE <2>2
      BY <1>1, <2>1, <3>2 DEF Enqueue, LeaseSafe, Row
    <3>3. ASSUME NEW s \in Rows, BackoffElapses(s) PROVE <2>2
      BY <1>1, <2>1, <3>3 DEF BackoffElapses, LeaseSafe, Row
    <3>4. CASE UNCHANGED vars
      BY <2>1, <3>4 DEF vars, LeaseSafe
    <3>5. QED
      BY <3>1, <3>2, <3>3, <3>4
  <2>3. QED
    BY <1>1, <2>1, <2>2, LeaseKept
<1>4. QED
  BY <1>2, <1>3 DEF LeaseInv

\* A lease that goes stale under a holder is counted.
LEMMA StallSteps ==
  ASSUME Inv, LeaseInv, NEW s \in Rows, LeaseAges(s)
  PROVE  LeaseInv'
<1>1. /\ worker' = worker /\ outbox \in [Rows -> Row] /\ overtaken \in [Rows -> 0..(MaxStalls + MaxFaults)]
      /\ outbox' = [outbox EXCEPT ![s].lease = "stale"] /\ outbox[s].lease = "fresh"
  BY DEF LeaseAges, Inv, RowsInv, CountersInv
<1>2. OneClaimEach' /\ \A r : Holders(r)' = Holders(r)
  BY <1>1 DEF LeaseInv, OneClaimEach, Holders
<1>3. ASSUME NEW r \in Rows \ {s} PROVE LeaseSafe(r)'
  <2>1. outbox'[r] = outbox[r] /\ overtaken'[r] = overtaken[r]
    BY <1>1 DEF LeaseAges
  <2>2. QED
    BY <1>2, <2>1, LeaseKept DEF LeaseInv, LeaseSafe
<1>4. LeaseSafe(s)'
  <2>1. outbox'[s].lease = "stale"
    BY <1>1 DEF Row
  <2>2. /\ IsFiniteSet(Holders(s)) /\ Cardinality(Holders(s)) <= overtaken[s] + 1
        /\ overtaken[s] \in Nat /\ Cardinality(Holders(s)) \in Nat
    BY <1>1, BoundsAssumption, FS_CardinalityType DEF LeaseInv, LeaseSafe
  <2>3. Cardinality(Holders(s)) <= overtaken'[s]
    <3>1. CASE Holders(s) = {}
      BY <1>1, <2>2, <3>1, FS_EmptySet DEF LeaseAges
    <3>2. CASE Holders(s) # {}
      <4>1. overtaken'[s] = overtaken[s] + 1
        BY <1>1, <3>2 DEF LeaseAges
      <4>2. QED
        BY <2>2, <4>1
    <3>3. QED
      BY <3>1, <3>2
  <2>4. overtaken'[s] \in Nat
    <3>1. overtaken'[s] = overtaken[s] \/ overtaken'[s] = overtaken[s] + 1
      BY <1>1 DEF LeaseAges
    <3>2. QED
      BY <2>2, <3>1
  <2>5. QED
    BY <1>2, <2>1, <2>2, <2>3, <2>4 DEF LeaseSafe
<1>5. QED
  BY <1>2, <1>3, <1>4 DEF LeaseInv

\* A lease is taken on a PENDING row, whose holders have all been overtaken.
LEMMA LeaseSteps ==
  ASSUME Inv, LeaseInv, NEW p \in Replicas, NEW c \in worker[p].candidates, LeaseRow(p, c)
  PROVE  LeaseInv'
<1>1. /\ worker \in [Replicas -> Worker] /\ worker[p] \in Worker /\ overtaken' = overtaken
      /\ outbox \in [Rows -> Row] /\ c.row \in Rows
  BY DEF LeaseRow, Inv, MemoryInv, RowsInv, Worker, Claim
<1>2. CASE outbox[c.row].status # "PENDING"
  <2> DEFINE W == [worker[p] EXCEPT !.candidates = @ \ {c}]
  <2>1. worker' = [worker EXCEPT ![p] = W] /\ UNCHANGED outbox
    BY <1>1, <1>2 DEF LeaseRow
  <2>2. /\ W \in Worker /\ W.claimed = worker[p].claimed
        /\ W.candidates \subseteq worker[p].candidates
    BY <1>1 DEF Worker
  <2> HIDE DEF W
  <2>3. QED
    BY <1>1, <2>1, <2>2, LeasesKept DEF LeaseInv, OneClaimEach
<1>3. CASE outbox[c.row].status = "PENDING"
  <2> DEFINE W == [worker[p] EXCEPT !.candidates = @ \ {c}, !.claimed = @ \union {c}]
  <2>1. /\ worker' = [worker EXCEPT ![p] = W]
        /\ outbox'[c.row].status = "IN_FLIGHT" /\ outbox'[c.row].lease = "fresh"
        /\ \A r \in Rows \ {c.row} : outbox'[r] = outbox[r]
    <3> DEFINE R == [outbox[c.row] EXCEPT !.status = "IN_FLIGHT", !.lease = "fresh"]
    <3>1. worker' = [worker EXCEPT ![p] = W] /\ outbox' = [outbox EXCEPT ![c.row] = R]
      BY <1>1, <1>3 DEF LeaseRow
    <3>2. R.status = "IN_FLIGHT" /\ R.lease = "fresh"
      BY <1>1 DEF Row
    <3> HIDE DEF R, W
    <3>3. QED
      BY <1>1, <3>1, <3>2
  <2>2. /\ W.claimed = worker[p].claimed \union {c}
        /\ W.candidates \subseteq worker[p].candidates
    <3>1. PICK w \in Worker : w = worker[p]
      BY <1>1
    <3>2. /\ [w EXCEPT !.candidates = @ \ {c}, !.claimed = @ \union {c}].claimed
               = w.claimed \union {c}
          /\ [w EXCEPT !.candidates = @ \ {c}, !.claimed = @ \union {c}].candidates
               = w.candidates \ {c}
      BY DEF Worker
    <3>3. QED
      BY <3>1, <3>2
  <2> HIDE DEF W
  <2>3. OneClaimEach'
    BY <1>1, <2>1, <2>2 DEF LeaseInv, OneClaimEach
  <2>4. ASSUME NEW r \in Rows
        PROVE  Holders(r)' = IF \E d \in W.claimed : d.row = r
                             THEN Holders(r) \union {p} ELSE Holders(r) \ {p}
    <3>1. MemoryInv /\ worker' = [worker EXCEPT ![p] = W]
      BY <2>1 DEF Inv
    <3>2. QED
      BY ONLY <3>1, HoldersAfter, p \in Replicas
  <2>5. ASSUME NEW r \in Rows \ {c.row} PROVE LeaseSafe(r)'
    <3>1. Holders(r)' \subseteq Holders(r)
      BY <2>2, <2>4 DEF Holders
    <3>2. QED
      BY <1>1, <2>1, <3>1, LeaseKept DEF LeaseInv, LeaseSafe
  <2>6. LeaseSafe(c.row)'
    <3>1. Holders(c.row)' = Holders(c.row) \union {p}
      BY <1>1, <2>2, <2>4
    <3>2. /\ IsFiniteSet(Holders(c.row)) /\ Cardinality(Holders(c.row)) <= overtaken[c.row] + 0
          /\ overtaken[c.row] \in Nat
      BY <1>1, <1>3, BoundsAssumption DEF LeaseInv, LeaseSafe, Inv, CountersInv
    <3>3. /\ IsFiniteSet(Holders(c.row)')
          /\ Cardinality(Holders(c.row)') \in Nat /\ Cardinality(Holders(c.row)) \in Nat
          /\ Cardinality(Holders(c.row)') <= Cardinality(Holders(c.row)) + 1
      <4>1. PICK H : H = Holders(c.row)
        OBVIOUS
      <4>2. /\ IsFiniteSet(H \union {p}) /\ Cardinality(H) \in Nat
            /\ Cardinality(H \union {p})
                 = IF p \in H THEN Cardinality(H) ELSE Cardinality(H) + 1
        BY <3>2, <4>1, FS_AddElement, FS_CardinalityType
      <4>3. QED
        BY <3>1, <4>1, <4>2
    <3>4. Cardinality(Holders(c.row)') <= overtaken[c.row] + 1
      BY <3>2, <3>3
    <3>5. QED
      BY <1>1, <2>1, <3>3, <3>4 DEF LeaseSafe
  <2>7. QED
    BY <2>3, <2>5, <2>6 DEF LeaseInv
<1>4. QED
  BY <1>2, <1>3

\* What a replica does with its own memory: it reads, pushes, or forgets.
LEMMA MemorySteps ==
  ASSUME Inv, LeaseInv, NEW p \in Replicas,
         \/ ReadCandidates(p) \/ EndClaim(p) \/ LoseTick(p)
         \/ \E c \in worker[p].claimed : Push(p, c)
  PROVE  LeaseInv'
<1>1. /\ worker \in [Replicas -> Worker] /\ worker[p] \in Worker
      /\ UNCHANGED <<outbox, overtaken>> /\ OneClaimEach
      /\ \A r \in Rows : outbox[r].attempts \in 0..MaxAttempts
  BY DEF Inv, MemoryInv, RowsInv, Row, LeaseInv, ReadCandidates, EndClaim, LoseTick, Push
<1>2. CASE ReadCandidates(p)
  <2>1. PICK batch \in SUBSET DueRows :
          worker' = [worker EXCEPT ![p] =
            [IdleWorker EXCEPT
               !.phase = "claiming",
               !.candidates =
                 {[row |-> r, attempts |-> outbox[r].attempts] : r \in batch}]]
    BY <1>2 DEF ReadCandidates
  <2> DEFINE C == {[row |-> r, attempts |-> outbox[r].attempts] : r \in batch}
             W == [IdleWorker EXCEPT !.phase = "claiming", !.candidates = C]
  <2>2. \A r \in batch : outbox[r].attempts \in 0..(MaxAttempts - 1) /\ r \in Rows
    BY <1>1, MaxAttemptsAssumption DEF DueRows, Inv, RowsInv, LiveRowHasAttemptsLeft
  <2>3. C \in SUBSET Claim /\ \A c, d \in C : c.row = d.row => c = d
    BY <2>2 DEF Claim
  <2>4. W \in Worker /\ W.claimed = {} /\ W.candidates = C
    BY <2>3, IdleType DEF Worker, Phase, IdleWorker
  <2>5. worker' = [worker EXCEPT ![p] = W]
    BY <2>1
  <2> HIDE DEF W, C
  <2>6. QED
    BY <1>1, <2>3, <2>4, <2>5, LeasesKept
<1>3. CASE EndClaim(p) \/ LoseTick(p) \/ \E c \in worker[p].claimed : Push(p, c)
  <2>1. worker' = [worker EXCEPT ![p] = worker'[p]]
    BY <1>1, <1>3 DEF EndClaim, LoseTick, Push
  <2>2. /\ worker'[p].claimed \subseteq worker[p].claimed
        /\ worker'[p].candidates \subseteq worker[p].candidates
    <3>1. PICK w \in Worker : w = worker[p]
      BY <1>1
    <3>2. CASE EndClaim(p)
      <4>1. \/ worker'[p] = IdleWorker
            \/ worker'[p] = [w EXCEPT !.phase = "dispatching"]
        BY <1>1, <3>1, <3>2 DEF EndClaim
      <4>2. QED
        BY <3>1, <4>1 DEF IdleWorker, Worker
    <3>3. CASE LoseTick(p)
      BY <1>1, <3>3 DEF LoseTick, IdleWorker
    <3>4. ASSUME NEW c \in worker[p].claimed, Push(p, c) PROVE <2>2
      <4>1. PICK answer : worker' = [worker EXCEPT ![p].phase = "answered",
                                ![p].pushed = {c}, ![p].outcome = answer.outcome]
        BY <3>4 DEF Push
      <4>2. worker'[p] = [w EXCEPT !.phase = "answered", !.pushed = {c},
                                   !.outcome = answer.outcome]
        BY <1>1, <3>1, <4>1
      <4>3. worker'[p].claimed = w.claimed /\ worker'[p].candidates = w.candidates
        BY <4>2 DEF Worker
      <4>4. QED
        BY <3>1, <4>3
    <3>5. QED
      BY <1>3, <3>2, <3>3, <3>4
  <2>3. worker'[p] \in Worker
    <3>1. Inv'
      BY <1>3, NextInv DEF Next, WorkerStep
    <3>2. QED
      BY <3>1 DEF Inv, MemoryInv
  <2>4. \A c, d \in worker'[p].candidates \union worker'[p].claimed : c.row = d.row => c = d
    BY <1>1, <2>2 DEF OneClaimEach
  <2>5. PICK W : W = worker'[p]
    OBVIOUS
  <2>6. QED
    BY <1>1, <2>1, <2>2, <2>3, <2>4, <2>5, LeasesKept
<1>4. QED
  BY <1>2, <1>3

\* Every way a claim ends takes the lease off its row.
LEMMA OutcomeSteps ==
  ASSUME Inv, LeaseInv, NEW p \in Replicas, NEW c \in worker[p].claimed,
         \/ NoRecipient(p, c) \/ MarkDelivered(p, c) \/ MarkPermanent(p, c)
         \/ ScheduleRetry(p, c)
  PROVE  LeaseInv'
<1>1. outbox \in [Rows -> Row] /\ c.row \in Rows /\ outbox[c.row] \in Row /\ c \in Claim
  BY DEF Inv, MemoryInv, RowsInv, Worker, Claim
<1>2. worker' = [worker EXCEPT ![p] = DoneWith(@, c)] /\ overtaken' = overtaken
  BY DEF NoRecipient, MarkDelivered, MarkPermanent, ScheduleRetry
<1>3. \A r \in Rows \ {c.row} : outbox'[r] = outbox[r]
  BY <1>1 DEF NoRecipient, MarkDelivered, MarkPermanent, ScheduleRetry
<1>4. outbox'[c.row].lease = "none"
  <2>1. CASE NoRecipient(p, c)
    BY <1>1, <2>1 DEF NoRecipient, DeadRow, Row
  <2>2. CASE MarkDelivered(p, c) \/ MarkPermanent(p, c) \/ ScheduleRetry(p, c)
    <3>1. PICK o : outbox' = [outbox EXCEPT ![c.row] = OutcomeRow(o, c)]
      BY <2>2 DEF MarkDelivered, MarkPermanent, ScheduleRetry
    <3>2. OutcomeRow(o, c).lease = "none"
      BY <1>1, OutcomeRowType
    <3>3. PICK R : R = OutcomeRow(o, c)
      OBVIOUS
    <3>4. QED
      BY <1>1, <3>1, <3>2, <3>3
  <2>3. QED
    BY <2>1, <2>2
<1>5. QED
  BY <1>2, <1>3, <1>4, LeasesEnd

\* A write that throws takes the lease off its row at most, and then its tick is
\* counted as overtaken.
LEMMA ThrowSteps ==
  ASSUME Inv, LeaseInv, NEW p \in Replicas, NEW c \in worker[p].claimed, WriteThrows(p, c)
  PROVE  LeaseInv'
<1>1. /\ outbox \in [Rows -> Row] /\ c.row \in Rows /\ c \in Claim
      /\ worker \in [Replicas -> Worker] /\ worker[p] \in Worker
      /\ overtaken \in [Rows -> Nat]
  BY BoundsAssumption DEF Inv, MemoryInv, RowsInv, CountersInv, Worker, Claim
<1>2. PICK W : W = [worker[p] EXCEPT !.outcome = "thrown"]
  OBVIOUS
<1>3. /\ worker' = [worker EXCEPT ![p] = W] /\ W \in Worker
      /\ W.claimed = worker[p].claimed /\ W.candidates = worker[p].candidates
  BY <1>1, <1>2 DEF WriteThrows, Worker, Outcome
<1>4. OneClaimEach
  BY DEF LeaseInv
<1>5. CASE UNCHANGED <<outbox, overtaken>>
  BY <1>1, <1>3, <1>4, <1>5, LeasesKept DEF OneClaimEach
<1>6. CASE /\ outbox' = [outbox EXCEPT ![c.row] = OutcomeRow(worker[p].outcome, c)]
           /\ overtaken' = [overtaken EXCEPT ![c.row] = @ + 1]
  <2>1. OneClaimEach'
    BY <1>1, <1>3, <1>4 DEF OneClaimEach
  <2>2. \A r : Holders(r)' = Holders(r)
    BY <1>1, <1>3 DEF Holders
  <2>3. ASSUME NEW r \in Rows \ {c.row} PROVE LeaseSafe(r)'
    <3>1. outbox'[r] = outbox[r] /\ overtaken'[r] = overtaken[r]
      BY <1>1, <1>6
    <3>2. QED
      BY <2>2, <3>1, LeaseKept DEF LeaseInv, LeaseSafe
  <2>4. LeaseSafe(c.row)'
    <3>1. outbox'[c.row].lease = "none"
      <4>1. PICK R : R = OutcomeRow(worker[p].outcome, c)
        OBVIOUS
      <4>2. R.lease = "none"
        BY <1>1, <4>1, OutcomeRowType
      <4>3. QED
        BY <1>1, <1>6, <4>1, <4>2
    <3>2. /\ IsFiniteSet(Holders(c.row)) /\ Cardinality(Holders(c.row)) \in Nat
          /\ Cardinality(Holders(c.row)) <= overtaken[c.row] + 1
          /\ overtaken[c.row] \in Nat
      <4>1. LeaseSafe(c.row)
        BY <1>1 DEF LeaseInv
      <4>2. overtaken[c.row] \in Nat
        BY <1>1
      <4>3. QED
        BY <4>1, <4>2, FS_CardinalityType DEF LeaseSafe
    <3>3. overtaken'[c.row] = overtaken[c.row] + 1
      BY <1>1, <1>6
    <3>4. QED
      BY <2>2, <3>1, <3>2, <3>3 DEF LeaseSafe
  <2>5. QED
    BY <2>1, <2>3, <2>4 DEF LeaseInv
<1>7. QED
  BY <1>5, <1>6 DEF WriteThrows

\* At first nobody holds anything.
LEMMA LeaseInit == Init => LeaseInv
<1> SUFFICES ASSUME Init PROVE LeaseInv
  OBVIOUS
<1>1. OneClaimEach
  BY DEF Init, IdleWorker, OneClaimEach
<1>2. ASSUME NEW r \in Rows PROVE LeaseSafe(r)
  <2>1. Holders(r) = {} /\ outbox[r].lease = "none" /\ overtaken[r] = 0
    BY DEF Init, IdleWorker, Holders
  <2>2. QED
    BY <2>1, FS_EmptySet DEF LeaseSafe
<1>3. QED
  BY <1>1, <1>2 DEF LeaseInv

\* Every step preserves the invariant of leases.
LEMMA LeaseNext == Inv /\ LeaseInv /\ [Next]_vars => LeaseInv'
<1> SUFFICES ASSUME Inv, LeaseInv, [Next]_vars PROVE LeaseInv'
  OBVIOUS
<1>1. CASE \E r \in Rows : LeaseAges(r)
  BY <1>1, StallSteps
<1>2. CASE \E p \in Replicas : \E c \in worker[p].candidates : LeaseRow(p, c)
  BY <1>2, LeaseSteps
<1>3. CASE \E p \in Replicas : \/ ReadCandidates(p) \/ EndClaim(p) \/ LoseTick(p)
                               \/ \E c \in worker[p].claimed : Push(p, c)
  BY <1>3, MemorySteps
<1>4. CASE \E p \in Replicas : \E c \in worker[p].claimed :
             \/ NoRecipient(p, c) \/ MarkDelivered(p, c) \/ MarkPermanent(p, c)
             \/ ScheduleRetry(p, c)
  BY <1>4, OutcomeSteps
<1>5. CASE \E p \in Replicas : \E c \in worker[p].claimed : WriteThrows(p, c)
  BY <1>5, ThrowSteps
<1>6. QED
  BY <1>1, <1>2, <1>3, <1>4, <1>5, RowSteps DEF Next, WorkerStep

\* A row has one holder, and one more for each time a holder lost its lease (to the
\* clock, or to a write of its own whose answer was lost), for any replicas, rows and
\* crashes: the conditional update of claimPending is
\* the only mutual exclusion between them.
THEOREM LeasesSafe == Spec => []LeaseIsExclusive
<1>1. Inv /\ LeaseInv => LeaseIsExclusive
  <2> SUFFICES ASSUME Inv, LeaseInv, NEW r \in Rows
               PROVE  Cardinality(Holders(r)) <= 1 + overtaken[r]
    BY DEF LeaseIsExclusive
  <2>1. /\ Cardinality(Holders(r)) \in Nat /\ overtaken[r] \in Nat
        /\ Cardinality(Holders(r)) <= overtaken[r] + (IF outbox[r].lease = "fresh" THEN 1 ELSE 0)
    BY FS_CardinalityType, BoundsAssumption DEF LeaseInv, LeaseSafe, Inv, CountersInv
  <2>2. QED
    BY <2>1
<1>2. QED
  BY <1>1, InitInv, NextInv, LeaseInit, LeaseNext, PTL DEF Spec

\* A DELIVERED row is written over only by a tick that lost its lease while it held the
\* row: it has no fresh lease, so otherwise it has no holder (markDelivered,
\* markFailure, the catch of dispatchOne).
THEOREM DeliveredFinal == Spec => DeliveredIsFinalUnlessOvertaken
<1> DEFINE Final == \A r \in Rows : outbox[r].status = "DELIVERED" /\ overtaken[r] = 0
                                      => outbox'[r].status = "DELIVERED"
<1>1. ASSUME Inv, LeaseInv, Next PROVE Final
  <2> SUFFICES ASSUME NEW r \in Rows, outbox[r].status = "DELIVERED", overtaken[r] = 0
               PROVE  outbox'[r].status = "DELIVERED"
    OBVIOUS
  <2>1. Holders(r) = {}
    <3>1. /\ IsFiniteSet(Holders(r)) /\ Cardinality(Holders(r)) \in Nat
          /\ Cardinality(Holders(r)) <= 0
      <4>1. LeaseSafe(r)
        BY <1>1 DEF LeaseInv
      <4>2. outbox[r].lease # "fresh"
        BY <4>1 DEF LeaseSafe
      <4>3. Cardinality(Holders(r)) <= 0 + 0
        BY <4>1, <4>2 DEF LeaseSafe
      <4>4. QED
        BY <4>1, <4>3, FS_CardinalityType DEF LeaseSafe
    <3>2. QED
      BY <3>1, FS_EmptySet
  <2>2. outbox \in [Rows -> Row]
    BY <1>1 DEF Inv, RowsInv
  <2>3. CASE \E s \in Rows : Enqueue(s) \/ BackoffElapses(s) \/ LeaseAges(s)
    <3>1. PICK s \in Rows : Enqueue(s) \/ BackoffElapses(s) \/ LeaseAges(s)
      BY <2>3
    <3>2. s # r => outbox'[r] = outbox[r]
      BY <2>2, <3>1 DEF Enqueue, BackoffElapses, LeaseAges
    <3>3. s = r => outbox'[r].status = outbox[r].status
      BY <2>2, <3>1 DEF Enqueue, BackoffElapses, LeaseAges, Row
    <3>4. QED
      BY <3>2, <3>3
  <2>4. CASE ReclaimStalled
    BY <2>2, <2>4 DEF ReclaimStalled, Stalled
  <2>5. ASSUME NEW p \in Replicas, NEW c \in worker[p].candidates, LeaseRow(p, c)
        PROVE  outbox'[r].status = "DELIVERED"
    BY <2>2, <2>5 DEF LeaseRow, Row
  <2>6. ASSUME NEW p \in Replicas,
               \/ ReadCandidates(p) \/ EndClaim(p) \/ LoseTick(p)
               \/ \E c \in worker[p].claimed : Push(p, c)
        PROVE  outbox'[r].status = "DELIVERED"
    BY <2>6 DEF ReadCandidates, EndClaim, LoseTick, Push
  <2>7. ASSUME NEW p \in Replicas, NEW c \in worker[p].claimed,
               \/ NoRecipient(p, c) \/ MarkDelivered(p, c) \/ MarkPermanent(p, c)
               \/ ScheduleRetry(p, c) \/ WriteThrows(p, c)
        PROVE  outbox'[r].status = "DELIVERED"
    <3>1. c.row # r
      BY <2>1 DEF Holders
    <3>2. QED
      BY <2>2, <2>7, <3>1
      DEF NoRecipient, MarkDelivered, MarkPermanent, ScheduleRetry, WriteThrows
  <2>8. QED
    BY <1>1, <2>3, <2>4, <2>5, <2>6, <2>7 DEF Next, WorkerStep
<1>2. Inv /\ LeaseInv /\ [Next]_vars => [Final]_vars
  BY <1>1
<1>3. QED
  BY <1>2, InitInv, NextInv, LeaseInit, LeaseNext, PTL DEF Spec, DeliveredIsFinalUnlessOvertaken
=============================================================================
