--------------------------- MODULE GeneralLedger ---------------------------
(***************************************************************************)
(* The general ledger (src/src/modules/finance/ledger) with the fiscal     *)
(* year its gate reads (src/src/modules/master-data/finance).              *)
(*                                                                         *)
(* Sub-ledgers post and reverse entries inside their own transactions, so  *)
(* Posting and Reversing are operators on the table of entries that their  *)
(* actions apply.  Manual entries, period closes and the year-end close    *)
(* are actions of this module.                                             *)
(*                                                                         *)
(* A row is saved under the version it was loaded with, so loading a       *)
(* document, checking it and saving it is one step: it happens on the row  *)
(* as it is, or not at all.  Rows a call reads and does not save - the     *)
(* fiscal year behind the gate, the count of unposted entries, the         *)
(* balances - are read in a step of their own, remembered in call[c] and   *)
(* may be stale when the call commits.  The look at the gate may even be   *)
(* older than the load of the document, which allows more than the code.   *)
(* The fiscal year has no version: its save writes what was loaded.        *)
(***************************************************************************)
EXTENDS Integers, FiniteSets, FiniteSetsExt

CONSTANTS Caller,      \* concurrent HTTP calls
          Period,      \* the periods of the one fiscal year
          Source,      \* documents of the sub-ledgers that post
          Manual,      \* lines a manual entry may have
          ByHand,      \* keys of the entries an accountant reverses by hand
          WithYear     \* whether the fiscal year is administered

Account == {"CONTROL", "RESULT", "MONEY", "RETAINED"}
Lines == [Account -> Int]
Zero == [a \in Account |-> 0]

VARIABLES
  entries,    \* fin_journal_entry with its lines, by sourceKey
  decision,   \* the approval request of the manual entry
  year,       \* mst_fiscal_year and its periods
  cleared,    \* history: the year-end close ran alone
  call        \* what a call under way has read

ledgerVars == <<entries, decision, year, cleared>>

(***************************************************************************)
(* Rows                                                                    *)
(***************************************************************************)
Posted(s) == <<s, "posted">>
Voided(s) == <<s, "voided">>
YearEnd == <<"year-end", "posted">>
\* The unique index on sourceKey admits one row without a key.
NoKey == <<"manual", "null">>
Key == {Posted(s) : s \in Source} \cup {Voided(s) : s \in Source}
         \cup {YearEnd, NoKey}

ASSUME LedgerAssumption ==
  /\ IsFiniteSet(Source) /\ "year-end" \notin Source
  /\ IsFiniteSet(Period) /\ Period # {}
  /\ Manual \subseteq Lines /\ ByHand \subseteq Key
  /\ WithYear \in BOOLEAN

NoEntry == [status |-> "NONE"]
Nothing == <<"none", "none">>
Entry == [status : {"DRAFT", "PENDING_APPROVAL", "POSTED", "REVERSED", "VOID"},
          lines : Lines, period : Period, reversalOf : Key \cup {Nothing}]
EntryTable == [Key -> Entry \cup {NoEntry}]
Unposted == {"DRAFT", "PENDING_APPROVAL"}
\* Mutant: a reversed entry no longer counts, its mirror does.
CountsPostedOnly == {"POSTED"}

Counted == {"POSTED", "REVERSED"}

NoCall == [op |-> "none"]

PeriodTable == [Period -> {"OPEN", "LOCKED", "CLOSED"}]
Year == [status : {"OPEN", "CLOSED"}, period : PeriodTable]
NewYear == [status |-> "OPEN", period |-> [p \in Period |-> "OPEN"]]

LedgerInit ==
  /\ entries = [k \in Key |-> NoEntry]
  /\ decision = "NONE"
  /\ year = NewYear
  /\ cleared = FALSE
  /\ call = [c \in Caller |-> NoCall]

(***************************************************************************)
(* Calls                                                                   *)
(***************************************************************************)
Start(c, job) == call[c] = NoCall /\ call' = [call EXCEPT ![c] = job]

Finish(c) == call' = [call EXCEPT ![c] = NoCall]

\* Any refusal, conflict or crash between the two steps rolls back.
GiveUp(c) ==
  /\ call[c] # NoCall
  /\ Finish(c)
  /\ UNCHANGED ledgerVars

(***************************************************************************)
(* Entries                                                                 *)
(***************************************************************************)
GateOpen(p) == year.status = "OPEN" /\ year.period[p] = "OPEN"

\* assertOpen: the call goes on to save a document dated in p.
PassGate(c, p) ==
  /\ GateOpen(p)
  /\ Start(c, [op |-> "gate", at |-> p])
  /\ UNCHANGED ledgerVars

ThroughGate(c, p) == call[c] = [op |-> "gate", at |-> p] /\ Finish(c)

NewEntry(status, lines, p, of) ==
  [status |-> status, lines |-> lines, period |-> p, reversalOf |-> of]
Mirror(lines) == [a \in Account |-> - lines[a]]

\* A posted entry is never voided, and nothing else is reversed.
EntryMoves ==
  {<<"DRAFT", "PENDING_APPROVAL">>, <<"PENDING_APPROVAL", "DRAFT">>,
   <<"POSTED", "REVERSED">>} \cup (Unposted \X {"POSTED", "VOID"})
CanMoveEntry(k, to) == <<entries[k].status, to>> \in EntryMoves

\* save writes the header under the version its call loaded.
SavedEntry(table, k, to) == [table EXCEPT ![k].status = to]
MoveEntry(k, to) == CanMoveEntry(k, to) /\ entries' = SavedEntry(entries, k, to)

\* create: no other entry has the key.
InsertEntry(k, entry) ==
  entries[k] = NoEntry /\ entries' = [entries EXCEPT ![k] = entry]

\* post: a source key that exists already is not posted again.
Posting(table, k, lines, p) ==
  IF table[k] # NoEntry \/ lines = Zero THEN table
  ELSE [table EXCEPT ![k] = NewEntry("POSTED", lines, p, Nothing)]

\* reverse: every POSTED entry of the source that is no reversal itself.
Reversing(table, s, p) ==
  IF table[Posted(s)].status # "POSTED" THEN table
  ELSE [SavedEntry(table, Posted(s), "REVERSED") EXCEPT
          ![Voided(s)] = NewEntry("POSTED", Mirror(table[Posted(s)].lines),
                                  p, Posted(s))]

Balance(account, keys) ==
  SumFunction([k \in {k \in keys : entries[k].status \in Counted} |->
                 entries[k].lines[account]])

(***************************************************************************)
(* Manual entries                                                          *)
(***************************************************************************)
CreateJournal(lines, p) ==
  /\ InsertEntry(NoKey, NewEntry("DRAFT", lines, p, Nothing))
  /\ UNCHANGED <<decision, year, cleared, call>>

SubmitJournal ==
  /\ decision # "PENDING"
  /\ MoveEntry(NoKey, "PENDING_APPROVAL")
  /\ decision' = "PENDING"
  /\ UNCHANGED <<year, cleared, call>>

\* The approvers and the requester, outside this module.
Decide(verdict) ==
  /\ decision = "PENDING"
  /\ decision' = verdict
  /\ UNCHANGED <<entries, year, cleared, call>>

\* DRAFT: no policy applies and the submission is approved at once.
PostJournal(c) ==
  LET e == entries[NoKey] IN
  /\ \/ e.status = "DRAFT" /\ decision # "PENDING"
     \/ e.status = "PENDING_APPROVAL" /\ decision \in {"APPROVED", "NONE"}
  /\ ThroughGate(c, e.period)
  /\ MoveEntry(NoKey, "POSTED")
  /\ UNCHANGED <<decision, year, cleared>>

ReopenJournal ==
  /\ decision \in {"REJECTED", "CANCELLED"}
  /\ MoveEntry(NoKey, "DRAFT")
  /\ UNCHANGED <<decision, year, cleared, call>>

VoidJournal ==
  /\ MoveEntry(NoKey, "VOID")
  /\ UNCHANGED <<decision, year, cleared, call>>

\* The reversal has no source key, so it needs the one row without a key.
ReverseJournal(c, k, p) ==
  /\ CanMoveEntry(k, "REVERSED")
  /\ entries[NoKey] = NoEntry
  /\ ThroughGate(c, p)
  /\ entries' = [SavedEntry(entries, k, "REVERSED") EXCEPT
       ![NoKey] = NewEntry("POSTED", Mirror(entries[k].lines), p, k)]
  /\ UNCHANGED <<decision, year, cleared>>

(***************************************************************************)
(* Periods and the year                                                    *)
(***************************************************************************)
CountUnposted(periods) ==
  Cardinality({k \in Key : /\ entries[k].status \in Unposted
                           /\ entries[k].period \in periods})

\* Mutant: any period takes any status.
AnyTransition(y, p, to) == {[y EXCEPT !.period[p] = to]}

\* transitionPeriod and close, on the copy the call loaded.
Transition(y, p, to) ==
  IF y.status = "OPEN" /\ {y.period[p], to} = {"OPEN", "LOCKED"}
  THEN {[y EXCEPT !.period[p] = to]} ELSE {}

Close(y) ==
  IF y.status = "OPEN" /\ \A p \in Period : y.period[p] # "OPEN"
  THEN {[status |-> "CLOSED", period |-> [p \in Period |-> "CLOSED"]]} ELSE {}

ChangeYear(c, next) ==
  \E y \in next :
    Start(c, [op |-> "saveYear", loaded |-> year, year |-> y])

LockPeriod(c, p) ==
  ChangeYear(c, Transition(year, p, "LOCKED")) /\ UNCHANGED ledgerVars
UnlockPeriod(c, p) ==
  ChangeYear(c, Transition(year, p, "OPEN")) /\ UNCHANGED ledgerVars
CloseYear(c) ==
  ChangeYear(c, Close(year)) /\ UNCHANGED ledgerVars

\* Month-end: counts what is left unposted, and then locks through LockPeriod,
\* which loads the year as it is by then.
ClosePeriod(c, p) ==
  /\ Start(c, [op |-> "closePeriod", at |-> p])
  /\ CountUnposted({p}) = 0
  /\ UNCHANGED ledgerVars

LockCounted(c) ==
  /\ call[c].op = "closePeriod"
  /\ \E y \in Transition(year, call[c].at, "LOCKED") :
       call' = [call EXCEPT ![c] = [op |-> "saveYear", loaded |-> year, year |-> y]]
  /\ UNCHANGED ledgerVars

\* save writes the whole year by id, without a version.
SaveYear(c) ==
  /\ call[c].op = "saveYear"
  /\ year' = call[c].year
  /\ cleared' = FALSE
  /\ Finish(c)
  /\ UNCHANGED <<entries, decision>>

\* The result every entry of the year has accumulated, moved to retained
\* earnings.  RESULT is one account: where several of them cancel out, the
\* code's last line moves nothing, posting refuses it, and the close fails as
\* in GiveUp.
ClosingLines ==
  LET net == Balance("RESULT", Key)
  IN  [Zero EXCEPT !["RESULT"] = - net, !["RETAINED"] = net]

OpenPeriods == {p \in Period : year.period[p] = "OPEN"}

\* Year-end: reads the year, the count of unposted entries, the closing
\* entry of an earlier run and the balances.
BeginYearEnd(c) ==
  /\ year.status = "OPEN"
  /\ CountUnposted(Period) = 0
  /\ Start(c, [op |-> "yearEnd", open |-> OpenPeriods,
               closing |-> IF entries[YearEnd] = NoEntry THEN ClosingLines
                           ELSE Zero])
  /\ UNCHANGED ledgerVars

Alone(c) == \A other \in Caller \ {c} : call[other] = NoCall

\* Posts past the gate, locks the periods that were open and closes the
\* year, loading it again: a period locked or opened meanwhile is refused.
SaveYearEnd(c, last) ==
  /\ call[c].op = "yearEnd"
  /\ year.status = "OPEN" /\ OpenPeriods = call[c].open
  /\ call[c].closing # Zero => entries[YearEnd] = NoEntry
  /\ entries' = Posting(entries, YearEnd, call[c].closing, last)
  /\ year' = [status |-> "CLOSED", period |-> [p \in Period |-> "CLOSED"]]
  /\ cleared' = /\ Alone(c)
                /\ entries[YearEnd] = NoEntry
                /\ call[c].closing = ClosingLines
  /\ Finish(c)
  /\ UNCHANGED decision

JournalNext ==
  \/ \E lines \in Manual, p \in Period : CreateJournal(lines, p)
  \/ SubmitJournal \/ ReopenJournal \/ VoidJournal
  \/ \E verdict \in {"APPROVED", "REJECTED", "CANCELLED"} : Decide(verdict)
  \/ \E c \in Caller : \/ PostJournal(c)
                       \/ \E k \in ByHand, p \in Period : ReverseJournal(c, k, p)

YearNext ==
  /\ WithYear
  /\ \E c \in Caller :
       \/ \E p \in Period : \/ LockPeriod(c, p) \/ UnlockPeriod(c, p)
                            \/ ClosePeriod(c, p) \/ SaveYearEnd(c, p)
       \/ LockCounted(c) \/ CloseYear(c) \/ SaveYear(c) \/ BeginYearEnd(c)

CallNext == \E c \in Caller : GiveUp(c) \/ \E p \in Period : PassGate(c, p)

LedgerNext == JournalNext \/ YearNext \/ CallNext

(***************************************************************************)
(* Properties                                                              *)
(***************************************************************************)
\* What the entries of `keys` that ever took effect add up to.
Total(account, keys) ==
  SumFunction([k \in {k \in keys : entries[k].status \in {"POSTED", "REVERSED"}} |->
                 entries[k].lines[account]])

LedgerTypeOK ==
  /\ entries \in EntryTable
  /\ decision \in {"NONE", "PENDING", "APPROVED", "REJECTED", "CANCELLED"}
  /\ year \in Year
  /\ cleared \in BOOLEAN

\* A year-end close that no other call overlapped leaves nothing on the
\* result accounts, and nothing is posted to them afterwards: the closing
\* entry takes reversed entries with their mirrors, and the gate refuses
\* every later posting (period.use-cases.ts, CloseFiscalYearUseCase).
ClosedYearIsCleared ==
  cleared => /\ year.status = "CLOSED"
             /\ Total("RESULT", Key) = 0

\* A closed year, with the status of each of its periods, changes only by
\* the save of a call that loaded it before it was closed: close is final
\* for every call that loads it later (fiscal-year.ts, close).
ClosedIsFinal ==
  [][year.status = "CLOSED" /\ year' # year =>
       \E c \in Caller : /\ call[c].op = "saveYear"
                         /\ call[c].loaded.status = "OPEN"]_<<ledgerVars, call>>
============================================================================
