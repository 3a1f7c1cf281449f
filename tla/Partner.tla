------------------------------- MODULE Partner -------------------------------
(***************************************************************************)
(* What a customer or a vendor has beside its own row (master-data/        *)
(* partner): contacts, addresses, the consent log and requests of data    *)
(* subjects.  Contacts and addresses are added and never edited, except    *)
(* that an erasure blanks the contacts.  A use case reads, decides and     *)
(* writes; nothing it read is locked or versioned, so the calls overlap.   *)
(* Filtered unique indexes keep one primary contact, one default address   *)
(* of a type and one pending request of a type.  No operation deactivates  *)
(* a partner, so requireActivePartner always finds the ones modelled.      *)
(***************************************************************************)
EXTENDS Integers, Sequences, FiniteSets

\* Identifiers of consents are positive numbers.
CONSTANTS Clerk, Owner, Contact, Address, Request, Consent, MaxTime

ASSUME OwnerAssumption == "none" \notin Owner
ASSUME ConsentAssumption == Consent \subseteq Nat \ {0} /\ IsFiniteSet(Consent)
ASSUME MaxTimeAssumption == MaxTime \in Nat

\* work: what each call has read; together: history, the requests answered
\* by two calls at once.
VARIABLES contacts, addresses, consents, pdpa, work, together

partnerVars == <<contacts, addresses, consents, pdpa, work, together>>

NoRecord == [owner |-> "none"]
Idle == [op |-> "idle"]
AddressType == {"BILLING", "SHIPPING"}
Purpose == {"MARKETING", "ANALYTICS"}
RequestType == {"EXPORT", "ERASURE"}

NewContact(w, primary) == [owner |-> w, primary |-> primary, erased |-> FALSE]
NewAddress(w, t, default) == [owner |-> w, type |-> t, default |-> default]
\* seen: the contacts the completed request had to deal with (history).
NewRequest(w, t) == [owner |-> w, type |-> t, status |-> "PENDING", seen |-> {}, answers |-> 0]

Rows(table) == {x \in DOMAIN table : table[x] # NoRecord}
ContactsOf(w) == {c \in Rows(contacts) : contacts[c].owner = w}

PrimaryOf(w) == {c \in ContactsOf(w) : contacts[c].primary}
DefaultsOf(w, t) ==
  {a \in Rows(addresses) : addresses[a].owner = w /\ addresses[a].type = t /\ addresses[a].default}
PendingOf(w, t) ==
  {r \in Rows(pdpa) : pdpa[r].owner = w /\ pdpa[r].type = t
                            /\ pdpa[r].status = "PENDING"}

PartnerInit ==
  /\ contacts = [c \in Contact |-> NoRecord]
  /\ addresses = [a \in Address |-> NoRecord]
  /\ consents = [n \in Consent |-> NoRecord]
  /\ pdpa = [r \in Request |-> NoRecord]
  /\ work = [k \in Clerk |-> Idle]
  /\ together = {}

(* Reading, then writing: the check of each create runs before its insert. *)

StartContact(k, w, primary) ==
  /\ work[k] = Idle
  /\ primary => PrimaryOf(w) = {}
  /\ work' = [work EXCEPT ![k] = [op |-> "contact", row |-> NewContact(w, primary)]]
  /\ UNCHANGED <<contacts, addresses, consents, pdpa, together>>

InsertContact(k, c) ==
  /\ work[k].op = "contact" /\ contacts[c] = NoRecord
  /\ LET row == work[k].row
         \* md_partner_contact_one_primary refuses the second insert
         refused == row.primary /\ PrimaryOf(row.owner) # {}
     IN contacts' = [contacts EXCEPT ![c] = IF refused THEN @ ELSE row]
  /\ work' = [work EXCEPT ![k] = Idle]
  /\ UNCHANGED <<addresses, consents, pdpa, together>>

StartAddress(k, w, t, default) ==
  /\ work[k] = Idle
  /\ default => DefaultsOf(w, t) = {}
  /\ work' = [work EXCEPT ![k] = [op |-> "address", row |-> NewAddress(w, t, default)]]
  /\ UNCHANGED <<contacts, addresses, consents, pdpa, together>>

InsertAddress(k, a) ==
  /\ work[k].op = "address" /\ addresses[a] = NoRecord
  /\ LET row == work[k].row
         \* md_partner_address_one_default_per_type
         refused == row.default /\ DefaultsOf(row.owner, row.type) # {}
     IN addresses' = [addresses EXCEPT ![a] = IF refused THEN @ ELSE row]
  /\ work' = [work EXCEPT ![k] = Idle]
  /\ UNCHANGED <<contacts, consents, pdpa, together>>

StartRequest(k, w, t) ==
  /\ work[k] = Idle
  /\ PendingOf(w, t) = {}
  /\ work' = [work EXCEPT ![k] = [op |-> "request", row |-> NewRequest(w, t)]]
  /\ UNCHANGED <<contacts, addresses, consents, pdpa, together>>

InsertRequest(k, r) ==
  /\ work[k].op = "request" /\ pdpa[r] = NoRecord
  /\ LET row == work[k].row
         \* pdpa_request_one_pending_per_type
         refused == PendingOf(row.owner, row.type) # {}
     IN pdpa' = [pdpa EXCEPT ![r] = IF refused THEN @ ELSE row]
  /\ work' = [work EXCEPT ![k] = Idle]
  /\ UNCHANGED <<contacts, addresses, consents, together>>

(* The consent log.  The clock is read before the row is appended, so two  *)
(* records may land out of the order of their times, or share one.  Row    *)
(* identifiers are random: any free one may be drawn.                      *)

RecordConsent(n, w, purpose, action, at) ==
  /\ consents[n] = NoRecord
  /\ consents' = [consents EXCEPT ![n] =
       [owner |-> w, purpose |-> purpose, action |-> action, at |-> at]]
  /\ UNCHANGED <<contacts, addresses, pdpa, work, together>>

\* The repository orders the log by time, then by identifier.
Earlier(m, n) ==
  consents[m].at < consents[n].at \/ (consents[m].at = consents[n].at /\ m < n)
ConsentLog(w) ==
  LET rows == {n \in Rows(consents) : consents[n].owner = w}
  IN CHOOSE log \in [1 .. Cardinality(rows) -> rows] :
       \A i, j \in 1 .. Cardinality(rows) : i < j => Earlier(log[i], log[j])

\* The record that holds for a purpose after a prefix of the log.
Supersedes(n, current) == consents[n].at >= consents[current].at
LatestRecord(w, purpose) ==
  LET log == ConsentLog(w)
      latest[i \in 0 .. Len(log)] ==
        IF i = 0 THEN 0
        ELSE IF /\ consents[log[i]].purpose = purpose
                /\ latest[i - 1] = 0 \/ Supersedes(log[i], latest[i - 1])
             THEN log[i] ELSE latest[i - 1]
  IN latest[Len(log)]

ConsentGranted(w, purpose) ==
  LET n == LatestRecord(w, purpose) IN n # 0 /\ consents[n].action = "GRANT"

(* Answering a request.  Both answers load the request and save it by id;  *)
(* a fulfilled erasure lists the contacts when it loads the request and    *)
(* writes them together with the request, in one transaction.              *)

\* Mutant: only the primary contact.
PrimaryOnly(w) == PrimaryOf(w)
ListedForErasure(w) == ContactsOf(w)

StartAnswer(k, r, op) ==
  /\ op \in {"fulfil", "reject"}
  /\ work[k] = Idle /\ r \in Rows(pdpa)
  /\ pdpa[r].status = "PENDING"
  /\ work' = [work EXCEPT ![k] =
       [op |-> op, request |-> r, contacts |-> ListedForErasure(pdpa[r].owner),
        seen |-> ContactsOf(pdpa[r].owner)]]
  /\ UNCHANGED <<contacts, addresses, consents, pdpa, together>>

Answered(row, status, seen) ==
  [row EXCEPT !.status = status, !.seen = @ \cup seen, !.answers = @ + 1]

\* Contact.erase: the personal fields go, and the primary mark with them.
Erased(row) == [row EXCEPT !.erased = TRUE, !.primary = FALSE]

Racing(k, r) ==
  \E j \in Clerk \ {k} : work[j].op \in {"fulfil", "reject"} /\ work[j].request = r

FinishAnswer(k) ==
  /\ together' = together \cup {r \in {work[k].request} : Racing(k, r)}
  /\ work' = [work EXCEPT ![k] = Idle]
  /\ UNCHANGED <<addresses, consents>>

Fulfil(k) ==
  /\ work[k].op = "fulfil"
  /\ LET r == work[k].request
         erases == pdpa[r].type = "ERASURE"
     IN /\ contacts' = [c \in Contact |-> IF erases /\ c \in work[k].contacts
                                          THEN Erased(contacts[c]) ELSE contacts[c]]
        /\ pdpa' = [pdpa EXCEPT ![r] = Answered(@, "COMPLETED", work[k].seen)]
  /\ FinishAnswer(k)

Reject(k) ==
  /\ work[k].op = "reject"
  /\ pdpa' = [pdpa EXCEPT ![work[k].request] = Answered(@, "REJECTED", {})]
  /\ UNCHANGED contacts
  /\ FinishAnswer(k)

\* The process ends, or the note is too long, and nothing is written.
Abandon(k) ==
  /\ work[k] # Idle
  /\ work' = [work EXCEPT ![k] = Idle]
  /\ UNCHANGED <<contacts, addresses, consents, pdpa, together>>

PartnerNext ==
  \/ \E k \in Clerk, w \in Owner, b \in BOOLEAN :
       \/ StartContact(k, w, b)
       \/ \E t \in AddressType : StartAddress(k, w, t, b)
  \/ \E k \in Clerk : \/ \E c \in Contact : InsertContact(k, c)
                      \/ \E a \in Address : InsertAddress(k, a)
                      \/ \E r \in Request : InsertRequest(k, r)
                      \/ Fulfil(k) \/ Reject(k) \/ Abandon(k)
  \/ \E k \in Clerk, w \in Owner, t \in RequestType : StartRequest(k, w, t)
  \/ \E k \in Clerk, r \in Request, op \in {"fulfil", "reject"} : StartAnswer(k, r, op)
  \/ \E n \in Consent, w \in Owner, p \in Purpose, a \in {"GRANT", "WITHDRAW"}, at \in 0..MaxTime :
       RecordConsent(n, w, p, a, at)

PartnerSpec == PartnerInit /\ [][PartnerNext]_partnerVars

\* An erasure that is reported as done blanked every contact there was when
\* it was decided; and nobody's data is blanked without such a request.  The
\* status alone may be overwritten: reject and fulfil race, and the last write
\* stays (fulfil-pdpa-request.use-case.ts:101, reject-pdpa-request.use-case.ts).
ErasureIsDone ==
  \A r \in Rows(pdpa) : pdpa[r].type = "ERASURE" /\ pdpa[r].status = "COMPLETED" =>
    \A c \in pdpa[r].seen : contacts[c].erased

ErasedOnRequest ==
  \A c \in Rows(contacts) : contacts[c].erased =>
    \E r \in Rows(pdpa) : /\ pdpa[r].type = "ERASURE" /\ pdpa[r].owner = contacts[c].owner
                        /\ (pdpa[r].status = "COMPLETED" \/ r \in together)

\* "Terminal states never transition again" (pdpa-request.ts:83), save where
\* two answers to the request were in flight together.
AnsweredOnce ==
  \A r \in Rows(pdpa) : pdpa[r].answers > 1 => r \in together

\* Consent is what the last record says, whatever order the rows came in, and
\* none is presumed where there is no record.
ConsentIsTheLastWord ==
  \A w \in Owner, p \in Purpose :
    LET of == {n \in Rows(consents) : consents[n].owner = w /\ consents[n].purpose = p}
        last == {n \in of : \A m \in of : consents[m].at <= consents[n].at}
    IN /\ ConsentGranted(w, p) => \E n \in last : consents[n].action = "GRANT"
       /\ (\A n \in last : consents[n].action = "GRANT") /\ last # {} => ConsentGranted(w, p)

\* An erasure reaches every contact it found and no other; a request is
\* answered once unless two answers overlap; consent is what the last record
\* says (partner/application).
PartnersHoldTogether ==
  ErasureIsDone /\ ErasedOnRequest /\ AnsweredOnce /\ ConsentIsTheLastWord
==============================================================================
