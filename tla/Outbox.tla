------------------------------- MODULE Outbox -------------------------------
(***************************************************************************)
(* The notification outbox (src/src/modules/notification).                 *)
(*                                                                         *)
(* A domain transaction inserts a PENDING row.  Several replicas poll the  *)
(* table: a tick reads a batch of due rows, takes a lease on each with a   *)
(* conditional update, pushes the leased rows to LINE one after the other  *)
(* and writes each outcome back.  A reclaimer returns rows whose lease is  *)
(* older than five minutes.  Every database call and every push is a step  *)
(* of its own, so replicas, reclaimer and crashes interleave freely.       *)
(*                                                                         *)
(* Time is abstracted to the two questions the code asks of it: has        *)
(* nextAttemptAt passed (due), and is the lease older than                 *)
(* STALLED_TIMEOUT_MS (lease = "stale").  Neither a push nor a tick has a  *)
(* deadline, so a lease can go stale under a replica that is alive.        *)
(***************************************************************************)
EXTENDS Naturals, FiniteSets

CONSTANTS Rows,             \* ids of outbox_message rows
          Routable,         \* rows whose tenant is in LINE_RECIPIENT_MAP
          Replicas,         \* processes that run OutboxWorkerCron
          MaxAttempts,      \* OUTBOX_MAX_ATTEMPTS
          BatchSize,        \* OutboxDispatcher.batchSize
          DuplicateAnswers, \* what the adapter makes of LINE's answer to a
                            \* retry key it has already accepted
          MaxStalls,        \* bound: leases gone stale under a live holder, per row
          MaxFaults         \* bound: ticks lost to a crash or a database error

ASSUME RoutableAssumption == Routable \subseteq Rows
ASSUME MaxAttemptsAssumption == MaxAttempts \in Nat \ {0}
ASSUME BatchSizeAssumption == BatchSize \in Nat \ {0}
ASSUME DuplicateAnswersAssumption ==
  DuplicateAnswers \subseteq {"sent", "permanent"}
ASSUME BoundsAssumption == MaxStalls \in Nat /\ MaxFaults \in Nat

VARIABLES
  outbox,    \* outbox_message: status, attempts, nextAttemptAt, leasedAt
  worker,    \* the memory of the tick each replica is running
  accepted,  \* rows whose retry key LINE has accepted (external)
  overtaken, \* history: times a replica lost the lease of a row it held
  faults     \* history: ticks lost and writes failed so far

vars == <<outbox, worker, accepted, overtaken, faults>>

Status == {"ABSENT", "PENDING", "IN_FLIGHT", "DELIVERED", "DEAD"}
Outcome == {"sent", "permanent", "transient", "thrown"}
Phase == {"idle", "claiming", "dispatching", "answered"}

Row == [status   : Status,
        attempts : 0..MaxAttempts,
        due      : BOOLEAN,
        lease    : {"none", "fresh", "stale"}]

\* The copy of a row a tick works with; its attempts are those of the read.
Claim == [row : Rows, attempts : 0..(MaxAttempts - 1)]

Worker == [phase      : Phase,
           candidates : SUBSET Claim,
           claimed    : SUBSET Claim,   \* leased, outcome not yet written
           pushed     : SUBSET Claim,   \* the claim LINE has answered, if any
           outcome    : Outcome]

IdleWorker == [phase      |-> "idle",
               candidates |-> {},
               claimed    |-> {},
               pushed     |-> {},
               outcome    |-> "transient"]

-----------------------------------------------------------------------------

\* PENDING rows whose nextAttemptAt has passed.
DueRows == {r \in Rows : outbox[r].status = "PENDING" /\ outbox[r].due}

\* Replicas that still intend to push row r or to write its outcome.
Holders(r) == {p \in Replicas : \E c \in worker[p].claimed : c.row = r}

\* Mutant: nextDelayMs compares with > instead of >=.
ExhaustedLate(attempts) == attempts > MaxAttempts

\* nextDelayMs returned null: the attempt number reached the cap.
Exhausted(attempts) == attempts >= MaxAttempts

\* markDelivered: the row LINE has accepted.
DeliveredRow(r) ==
  [outbox[r] EXCEPT !.status = "DELIVERED", !.due = TRUE, !.lease = "none"]

\* markFailure with no nextAttemptAt: the row is DEAD.
DeadRow(r, attempts) ==
  [outbox[r] EXCEPT !.status = "DEAD", !.attempts = attempts,
                    !.due = TRUE, !.lease = "none"]

\* markFailure with a nextAttemptAt in the future.
RetryRow(r, attempts) ==
  [outbox[r] EXCEPT !.status = "PENDING", !.attempts = attempts,
                    !.due = FALSE, !.lease = "none"]

\* The row scheduleRetry leaves behind.
RowAfterRetry(r, attempts) ==
  IF Exhausted(attempts) THEN DeadRow(r, attempts) ELSE RetryRow(r, attempts)

\* The tick is done with claim c: the next claimed row, or the end of the tick.
DoneWith(w, c) ==
  IF w.claimed = {c}
  THEN IdleWorker
  ELSE [w EXCEPT !.phase = "dispatching", !.claimed = @ \ {c},
                 !.pushed = {}, !.outcome = "transient"]

-----------------------------------------------------------------------------

Init ==
  /\ outbox = [r \in Rows |-> [status |-> "ABSENT", attempts |-> 0,
                               due |-> FALSE, lease |-> "none"]]
  /\ worker = [p \in Replicas |-> IdleWorker]
  /\ accepted = {}
  /\ overtaken = [r \in Rows |-> 0]
  /\ faults = 0

\* A domain transaction commits with its outbox row, due at once.
Enqueue(r) ==
  /\ outbox[r].status = "ABSENT"
  /\ outbox' = [outbox EXCEPT ![r].status = "PENDING", ![r].due = TRUE]
  /\ UNCHANGED <<worker, accepted, overtaken, faults>>

\* nextAttemptAt passes, whatever the status of the row.
BackoffElapses(r) ==
  /\ outbox[r].status # "ABSENT"
  /\ ~outbox[r].due
  /\ outbox' = [outbox EXCEPT ![r].due = TRUE]
  /\ UNCHANGED <<worker, accepted, overtaken, faults>>

\* tick, first call: read a batch of due rows.  A running tick starts no other,
\* and a tick that finds nothing changes nothing.
ReadCandidates(p) ==
  /\ worker[p].phase = "idle"
  /\ \E batch \in (SUBSET DueRows) \ {{}} :
       /\ \/ Cardinality(batch) = BatchSize
          \/ Cardinality(batch) < BatchSize /\ batch = DueRows
       /\ worker' = [worker EXCEPT ![p] =
            [IdleWorker EXCEPT
               !.phase = "claiming",
               !.candidates =
                 {[row |-> r, attempts |-> outbox[r].attempts] : r \in batch}]]
  /\ UNCHANGED <<outbox, accepted, overtaken, faults>>

\* Mutant: the lease is taken by id alone, without status = 'PENDING'.
LeaseRowById(p, c) ==
  /\ worker[p].phase = "claiming"
  /\ c \in worker[p].candidates
  /\ outbox' = [outbox EXCEPT ![c.row].status = "IN_FLIGHT",
                              ![c.row].lease = "fresh"]
  /\ worker' = [worker EXCEPT ![p].candidates = @ \ {c},
                              ![p].claimed = @ \union {c}]
  /\ UNCHANGED <<accepted, overtaken, faults>>

\* The conditional update of claimPending: it wins only if the row is still
\* PENDING, and keeps the attempts of the earlier read.
LeaseRow(p, c) ==
  /\ worker[p].phase = "claiming"
  /\ c \in worker[p].candidates
  /\ IF outbox[c.row].status = "PENDING"
     THEN /\ outbox' = [outbox EXCEPT ![c.row].status = "IN_FLIGHT",
                                      ![c.row].lease = "fresh"]
          /\ worker' = [worker EXCEPT ![p].candidates = @ \ {c},
                                      ![p].claimed = @ \union {c}]
     ELSE /\ worker' = [worker EXCEPT ![p].candidates = @ \ {c}]
          /\ UNCHANGED outbox
  /\ UNCHANGED <<accepted, overtaken, faults>>

\* claimPending returns; a tick that leased nothing is over.
EndClaim(p) ==
  /\ worker[p].phase = "claiming"
  /\ worker[p].candidates = {}
  /\ worker' = [worker EXCEPT ![p] =
       IF @.claimed = {} THEN IdleWorker ELSE [@ EXCEPT !.phase = "dispatching"]]
  /\ UNCHANGED <<outbox, accepted, overtaken, faults>>

\* dispatchOne of a row with no recipient: DEAD, never pushed.
NoRecipient(p, c) ==
  /\ worker[p].phase = "dispatching"
  /\ c \in worker[p].claimed
  /\ c.row \notin Routable
  /\ outbox' = [outbox EXCEPT ![c.row] = DeadRow(c.row, c.attempts + 1)]
  /\ worker' = [worker EXCEPT ![p] = DoneWith(@, c)]
  /\ UNCHANGED <<accepted, overtaken, faults>>

\* What LINE may make of a push of row r and how the adapter reads the answer:
\* 2xx is sent, 429, 5xx and network errors are transient, other 4xx permanent.
\* A network error can hide an acceptance.  (external)
LineAnswers(r) ==
  IF r \in accepted
  THEN {[ok |-> TRUE, outcome |-> o] : o \in DuplicateAnswers \union {"transient"}}
  ELSE {[ok |-> TRUE, outcome |-> "sent"], [ok |-> TRUE, outcome |-> "transient"],
        [ok |-> FALSE, outcome |-> "transient"], [ok |-> FALSE, outcome |-> "permanent"]}

\* dispatchOne up to the answer of line.push.
Push(p, c) ==
  /\ worker[p].phase = "dispatching"
  /\ c \in worker[p].claimed
  /\ c.row \in Routable
  /\ \E answer \in LineAnswers(c.row) :
       /\ accepted' = IF answer.ok THEN accepted \union {c.row} ELSE accepted
       /\ worker' = [worker EXCEPT ![p].phase = "answered", ![p].pushed = {c},
                                   ![p].outcome = answer.outcome]
  /\ UNCHANGED <<outbox, overtaken, faults>>

\* What dispatchOne writes of a claim, given the answer to its push.
OutcomeRow(outcome, c) ==
  CASE outcome = "sent"      -> DeliveredRow(c.row)
    [] outcome = "permanent" -> DeadRow(c.row, c.attempts + 1)
    [] OTHER                 -> RowAfterRetry(c.row, c.attempts + 1)

\* Mutant: every answered push counts as sent.
MarkDeliveredOnAnyAnswer(p, c) ==
  /\ worker[p].phase = "answered"
  /\ c \in worker[p].pushed
  /\ outbox' = [outbox EXCEPT ![c.row] = DeliveredRow(c.row)]
  /\ worker' = [worker EXCEPT ![p] = DoneWith(@, c)]
  /\ UNCHANGED <<accepted, overtaken, faults>>

\* markDelivered: by id alone, whatever the row has become meanwhile.
MarkDelivered(p, c) ==
  /\ worker[p].phase = "answered"
  /\ c \in worker[p].pushed
  /\ worker[p].outcome = "sent"
  /\ outbox' = [outbox EXCEPT ![c.row] = OutcomeRow("sent", c)]
  /\ worker' = [worker EXCEPT ![p] = DoneWith(@, c)]
  /\ UNCHANGED <<accepted, overtaken, faults>>

\* markFailure without a retry: a permanent answer.
MarkPermanent(p, c) ==
  /\ worker[p].phase = "answered"
  /\ c \in worker[p].pushed
  /\ worker[p].outcome = "permanent"
  /\ outbox' = [outbox EXCEPT ![c.row] = OutcomeRow("permanent", c)]
  /\ worker' = [worker EXCEPT ![p] = DoneWith(@, c)]
  /\ UNCHANGED <<accepted, overtaken, faults>>

\* Any of the three writes throws inside dispatchOne's try.  The database may
\* have committed it all the same, the answer lost: the row is then free for
\* others while the tick goes on to its catch.
WriteThrows(p, c) ==
  /\ faults < MaxFaults
  /\ worker[p].phase = "answered"
  /\ c \in worker[p].pushed
  /\ worker[p].outcome # "thrown"
  /\ \/ UNCHANGED <<outbox, overtaken>>
     \/ /\ outbox' = [outbox EXCEPT ![c.row] = OutcomeRow(worker[p].outcome, c)]
        /\ overtaken' = [overtaken EXCEPT ![c.row] = @ + 1]
  /\ worker' = [worker EXCEPT ![p].outcome = "thrown"]
  /\ faults' = faults + 1
  /\ UNCHANGED accepted

\* scheduleRetry and its markFailure, of a transient answer or in the catch: by
\* id alone, counting from the attempts the tick read.
ScheduleRetry(p, c) ==
  /\ worker[p].phase = "answered"
  /\ c \in worker[p].pushed
  /\ worker[p].outcome \in {"transient", "thrown"}
  /\ outbox' = [outbox EXCEPT ![c.row] = OutcomeRow("transient", c)]
  /\ worker' = [worker EXCEPT ![p] = DoneWith(@, c)]
  /\ UNCHANGED <<accepted, overtaken, faults>>

\* The process dies, or a store call outside dispatchOne's try throws: the tick
\* ends, its claims are forgotten and their rows stay as they are.
LoseTick(p) ==
  /\ faults < MaxFaults
  /\ worker[p].phase # "idle"
  /\ worker' = [worker EXCEPT ![p] = IdleWorker]
  /\ faults' = faults + 1
  /\ UNCHANGED <<outbox, accepted, overtaken>>

\* Five minutes pass since the lease of r was taken.
LeaseAges(r) ==
  /\ outbox[r].lease = "fresh"
  /\ Holders(r) # {} => overtaken[r] < MaxStalls + faults
  /\ outbox' = [outbox EXCEPT ![r].lease = "stale"]
  /\ overtaken' = IF Holders(r) # {} THEN [overtaken EXCEPT ![r] = @ + 1] ELSE overtaken
  /\ UNCHANGED <<worker, accepted, faults>>

\* Mutant: the reclaimer looks for rows that are already PENDING.
StalledPending(r) == outbox[r].status = "PENDING" /\ outbox[r].lease = "stale"

\* A row the reclaimer's update matches.
Stalled(r) == outbox[r].status = "IN_FLIGHT" /\ outbox[r].lease = "stale"

\* OutboxReclaimerCron: every stalled row is PENDING again, attempts and
\* nextAttemptAt unchanged.
ReclaimStalled ==
  /\ \E r \in Rows : Stalled(r)
  /\ outbox' = [r \in Rows |->
       IF Stalled(r)
       THEN [outbox[r] EXCEPT !.status = "PENDING", !.lease = "none"]
       ELSE outbox[r]]
  /\ UNCHANGED <<worker, accepted, overtaken, faults>>

\* The steps a replica takes while it is up.
WorkerStep(p) ==
  \/ ReadCandidates(p)
  \/ EndClaim(p)
  \/ \E c \in worker[p].candidates : LeaseRow(p, c)
  \/ \E c \in worker[p].claimed :
       \/ NoRecipient(p, c)
       \/ Push(p, c)
       \/ MarkDelivered(p, c)
       \/ MarkPermanent(p, c)
       \/ ScheduleRetry(p, c)

Next ==
  \/ \E r \in Rows : Enqueue(r) \/ BackoffElapses(r) \/ LeaseAges(r)
  \/ \E p \in Replicas : WorkerStep(p) \/ LoseTick(p)
  \/ \E p \in Replicas : \E c \in worker[p].claimed : WriteThrows(p, c)
  \/ ReclaimStalled

Spec == Init /\ [][Next]_vars

\* The crons fire for ever and awaits resolve; time passes.  Nothing is assumed
\* of LINE: it may refuse every push.
Fairness ==
  /\ \A p \in Replicas : WF_vars(WorkerStep(p))
  /\ \A r \in Rows : WF_vars(BackoffElapses(r)) /\ WF_vars(LeaseAges(r))
  /\ WF_vars(ReclaimStalled)

FairSpec == Spec /\ Fairness

-----------------------------------------------------------------------------

TypeOK ==
  /\ outbox \in [Rows -> Row]
  /\ worker \in [Replicas -> Worker]
  /\ accepted \subseteq Routable
  /\ overtaken \in [Rows -> 0..(MaxStalls + MaxFaults)]
  /\ faults \in 0..MaxFaults

\* A DELIVERED row was accepted by LINE, whichever replica wrote the status and
\* whatever happened to the row between its push and its write
\* (dispatchOne, markDelivered).
DeliveredWasAccepted ==
  \A r \in Rows : outbox[r].status = "DELIVERED" => r \in accepted

\* A row that can still be pushed has attempts left, although stale replicas
\* overwrite attempts and status by id (scheduleRetry, nextDelayMs).
LiveRowHasAttemptsLeft ==
  \A r \in Rows :
    outbox[r].status \notin {"DELIVERED", "DEAD"} => outbox[r].attempts < MaxAttempts

\* The conditional update of claimPending is the only mutual exclusion between
\* replicas: a row has one holder, and one more for each time a holder lost its
\* lease, to the clock or to a write of its own whose answer was lost.
LeaseIsExclusive ==
  \A r \in Rows : Cardinality(Holders(r)) <= 1 + overtaken[r]

\* A DELIVERED row stays DELIVERED, unless some replica lost its lease on it while
\* it held it: its lease went stale, or a write of its own committed although it
\* threw.  Only then is there a tick left to write over it (dispatchOne, the catch
\* included).
DeliveredIsFinalUnlessOvertaken ==
  [][\A r \in Rows :
       outbox[r].status = "DELIVERED" /\ overtaken[r] = 0
         => outbox'[r].status = "DELIVERED"]_vars

\* Every enqueued row is in the end DELIVERED or DEAD and stays so, through
\* lost ticks, failed writes and leases that go stale.
EveryRowSettles ==
  \A r \in Rows :
    outbox[r].status # "ABSENT" ~> [](outbox[r].status \in {"DELIVERED", "DEAD"})

=============================================================================
