------------------------------ MODULE Issuance ------------------------------
(***************************************************************************)
(* POST /api/v1/invoices/:id/issuance: a draft invoice takes the next      *)
(* number of the series and freezes (apps/api/src/chain/issue-invoice.ts). *)
(*                                                                         *)
(* A process is a client of the connection pool that runs one issuing      *)
(* transaction at a time, at PostgreSQL's READ COMMITTED: one action is    *)
(* one statement, or the code that runs between two of them.  What a       *)
(* transaction wrote is private to it until Commit, and its locks last     *)
(* until it ends.  Any transaction may be rolled back at any point by a    *)
(* failure, and a COMMIT that took effect may still look like a failure to *)
(* the server process.                                                     *)
(***************************************************************************)
EXTENDS Naturals

CONSTANTS
    Connections,   \* clients of the pool; each runs one transaction at a time
    Invoices,      \* invoice ids a request may name
    Keys,          \* Idempotency-Key values
    Slots,         \* values of hashtext(key): the advisory lock's id
    KeySlot,       \* the hash itself, which may collide
    Actors,        \* the people behind the requests
    Readable,      \* <<actor, invoice>> pairs assertMayRead lets through
    LastDay,       \* bound on the calendar: the days are 1..LastDay
    Years,         \* fiscal years
    FiscalYear,    \* the year of each day
    MaxSequence,   \* the largest sequence a document number can write
    None           \* SQL's NULL, and the owner of a free lock

Days == 1 .. LastDay

ASSUME KeySlotAssumption     == KeySlot \in [Keys -> Slots]
ASSUME ReadableAssumption    == Readable \subseteq Actors \X Invoices
ASSUME LastDayAssumption     == LastDay \in Nat \ {0}
ASSUME FiscalYearAssumption  == FiscalYear \in [Days -> Years]
ASSUME MaxSequenceAssumption == MaxSequence \in Nat \ {0}
ASSUME NoneAssumption        == None \notin Connections \cup Invoices \cup Keys
                                              \cup Actors \cup Years

VARIABLES
    today,         \* the day clock.now() falls on, in the firm's time zone
    invoices,      \* billing.invoices, as committed
    lastSequence,  \* billing.numbering_series.last_sequence, as committed
    keyLock,       \* holder of the advisory transaction lock of a slot
    rowLock,       \* holder of the row lock of an invoice
    counterLock,   \* holder of the row lock of a year's counter
    pc,            \* the next statement of each connection's transaction
    command,       \* the request each connection is serving
    keyOwner,      \* the invoice the key was found on
    seen,          \* the invoice row as read under its lock
    issueDate,     \* the date read from the clock
    sequence,      \* the sequence the counter handed over
    answers,       \* history: the documents requests were answered with
    issuedBy       \* history: who issued each invoice

db     == << invoices, lastSequence, issuedBy >>
locks  == << keyLock, rowLock, counterLock >>
local  == << command, keyOwner, seen, issueDate, sequence >>
vars   == << today, db, locks, pc, local, answers >>

-----------------------------------------------------------------------------
Rows ==
    [ status      : {"absent", "draft", "issued"},
      validatedBy : SUBSET Actors,
      sequence    : Nat,
      year        : Years \cup {None},
      issueDate   : Nat,
      key         : Keys \cup {None} ]

\* The row before its INSERT, and the row saveDraft inserts.
Absent == [ status |-> "absent", validatedBy |-> {}, sequence |-> 0,
            year |-> None, issueDate |-> 0, key |-> None ]

DraftOf(validators) == [ Absent EXCEPT !.status = "draft",
                                       !.validatedBy = validators ]

Commands == [ invoice : Invoices, key : Keys, actor : Actors ]

Steps == { "idle", "lockKey", "readKey", "lockInvoice", "decide",
           "nextSequence", "issue", "save", "commit" }

\* What an answer says of the document: issueInvoice's outcome, and the key it
\* was asked under.
Entries == [ year : Years \cup {None}, sequence : Nat, issueDate : Nat,
             key : Keys \cup {None} ]
Answers == [ invoice : Invoices, entry : Entries ]

ASSUME NoEntryAssumption == None \notin Entries

Target(c)   == command[c].invoice
Slot(c)     == KeySlot[command[c].key]
SeriesOf(c) == FiscalYear[issueDate[c]]

Issued == { i \in Invoices : invoices[i].status = "issued" }

\* What the transaction of c writes at `save`.
Document(c) == [ seen[c] EXCEPT !.status    = "issued",
                                !.sequence  = sequence[c],
                                !.year      = SeriesOf(c),
                                !.issueDate = issueDate[c],
                                !.key       = command[c].key ]

EntryOf(row) == [ year |-> row.year, sequence |-> row.sequence,
                  issueDate |-> row.issueDate, key |-> row.key ]

Answer(i, row) == [ invoice |-> i, entry |-> EntryOf(row) ]

-----------------------------------------------------------------------------
Init ==
    /\ today = 1
    /\ invoices = [ i \in Invoices |-> Absent ]
    /\ lastSequence = [ y \in Years |-> 0 ]
    /\ issuedBy = [ i \in Invoices |-> None ]
    /\ keyLock = [ s \in Slots |-> None ]
    /\ rowLock = [ i \in Invoices |-> None ]
    /\ counterLock = [ y \in Years |-> None ]
    /\ pc = [ c \in Connections |-> "idle" ]
    /\ command = [ c \in Connections |-> None ]
    /\ keyOwner = [ c \in Connections |-> None ]
    /\ seen = [ c \in Connections |-> Absent ]
    /\ issueDate = [ c \in Connections |-> 1 ]
    /\ sequence = [ c \in Connections |-> 0 ]
    /\ answers = {}

Goto(c, step) == pc' = [ pc EXCEPT ![c] = step ]

Release_SessionLock(lock, c) == lock

\* COMMIT and ROLLBACK both release every lock of the transaction.
Release(lock, c) == [ x \in DOMAIN lock |-> IF lock[x] = c THEN None ELSE lock[x] ]

\* The client goes back to the pool; the request's own variables are gone.
End(c) ==
    /\ pc' = [ pc EXCEPT ![c] = "idle" ]
    /\ keyLock' = Release(keyLock, c)
    /\ rowLock' = Release(rowLock, c)
    /\ counterLock' = Release(counterLock, c)
    /\ command' = [ command EXCEPT ![c] = None ]
    /\ keyOwner' = [ keyOwner EXCEPT ![c] = None ]
    /\ seen' = [ seen EXCEPT ![c] = Absent ]
    /\ issueDate' = [ issueDate EXCEPT ![c] = 1 ]
    /\ sequence' = [ sequence EXCEPT ![c] = 0 ]
    /\ UNCHANGED today

\* The counter advances outside the transaction, as nextval() would.
EndUnwritten_Sequence(c) ==
    /\ End(c)
    /\ lastSequence' = IF pc[c] \in {"issue", "save", "commit"}
                       THEN [ lastSequence EXCEPT ![SeriesOf(c)] = sequence[c] ]
                       ELSE lastSequence
    /\ UNCHANGED << invoices, issuedBy, answers >>

\* The transaction ends with nothing written.
EndUnwritten(c) == End(c) /\ UNCHANGED << db, answers >>

-----------------------------------------------------------------------------
(* The environment: time passes, and validating a Cra drafts invoices.     *)

Midnight ==
    /\ today < LastDay
    /\ today' = today + 1
    /\ UNCHANGED << db, locks, pc, local, answers >>

SaveDraft(i) ==
    /\ invoices[i].status = "absent"
    /\ \E validator \in Actors :
         invoices' = [ invoices EXCEPT ![i] = DraftOf({validator}) ]
    /\ UNCHANGED << today, lastSequence, issuedBy, locks, pc, local,
                    answers >>

-----------------------------------------------------------------------------
(* The three locks of a transaction, in the order it takes them.           *)
(* A definition that ends in _ and a defect is the faulty variant that the *)
(* mutation runs put in the place of the one it is named after.            *)

KeyFree_Unlocked(c) == TRUE
KeyFree(c) == keyLock[Slot(c)] = None

InvoiceFree_Unlocked(c) == TRUE
InvoiceFree(c) == rowLock[Target(c)] = None

CounterFree(c) == counterLock[SeriesOf(c)] = None

-----------------------------------------------------------------------------
(* One issuing transaction.                                                *)

\* A request, new or retried, is given an idle client and BEGINs.
Begin(c, cmd) ==
    /\ pc[c] = "idle"
    /\ Goto(c, "lockKey")
    /\ command' = [ command EXCEPT ![c] = cmd ]
    /\ UNCHANGED << today, db, locks, keyOwner, seen, issueDate, sequence, answers >>

LockKey(c) ==
    /\ pc[c] = "lockKey"
    /\ KeyFree(c)
    /\ keyLock' = [ keyLock EXCEPT ![Slot(c)] = c ]
    /\ Goto(c, "readKey")
    /\ UNCHANGED << today, db, rowLock, counterLock, local, answers >>

OwnersOf(key) == { i \in Invoices : invoices[i].key = key }

ReadKeyOwner(c) ==
    /\ pc[c] = "readKey"
    /\ keyOwner' = [ keyOwner EXCEPT ![c] =
            IF OwnersOf(command[c].key) = {} THEN None
            ELSE CHOOSE i \in OwnersOf(command[c].key) : TRUE ]
    /\ Goto(c, "lockInvoice")
    /\ UNCHANGED << today, db, locks, command, seen, issueDate, sequence,
                    answers >>

\* SELECT ... FOR UPDATE finds no row, and so locks none.
FindNoInvoice(c) ==
    /\ pc[c] = "lockInvoice"
    /\ invoices[Target(c)].status = "absent"
    /\ Goto(c, "decide")
    /\ UNCHANGED << today, db, locks, local, answers >>

\* The row is locked, then read as last committed, then checked for scope.
LockInvoice(c) ==
    /\ pc[c] = "lockInvoice"
    /\ invoices[Target(c)].status # "absent"
    /\ InvoiceFree(c)
    /\ << command[c].actor, Target(c) >> \in Readable
    /\ rowLock' = [ rowLock EXCEPT ![Target(c)] = c ]
    /\ seen' = [ seen EXCEPT ![c] = invoices[Target(c)] ]
    /\ Goto(c, "decide")
    /\ UNCHANGED << today, db, keyLock, counterLock, command, keyOwner, issueDate,
                    sequence, answers >>

RefuseScope(c) ==
    /\ pc[c] = "lockInvoice"
    /\ invoices[Target(c)].status # "absent"
    /\ InvoiceFree(c)
    /\ << command[c].actor, Target(c) >> \notin Readable
    /\ EndUnwritten(c)

\* The three answers that allocate nothing, in the order the code tests them.
AnswerKeyReused(c) ==
    /\ pc[c] = "decide"
    /\ keyOwner[c] \notin {None, Target(c)}
    /\ EndUnwritten(c)

AnswerNotFound(c) ==
    /\ pc[c] = "decide"
    /\ keyOwner[c] \in {None, Target(c)}
    /\ seen[c].status = "absent"
    /\ EndUnwritten(c)

AnswerReplayed(c) ==
    /\ pc[c] = "decide"
    /\ keyOwner[c] = Target(c)
    /\ seen[c].status # "absent"
    /\ End(c)
    /\ answers' = answers \cup { Answer(Target(c), seen[c]) }
    /\ UNCHANGED db

IssueDateNow == today

\* The date is read before the counter is locked.
ReadClock(c) ==
    /\ pc[c] = "decide"
    /\ keyOwner[c] = None
    /\ seen[c].status # "absent"
    /\ issueDate' = [ issueDate EXCEPT ![c] = IssueDateNow ]
    /\ Goto(c, "nextSequence")
    /\ UNCHANGED << today, db, locks, command, keyOwner, seen, sequence, answers >>

\* INSERT ... ON CONFLICT DO NOTHING, SELECT ... FOR UPDATE, UPDATE ... RETURNING:
\* the first of them to conflict waits for the year's counter, and from then on
\* the transaction is alone on it.
NextSequence(c) ==
    /\ pc[c] = "nextSequence"
    /\ CounterFree(c)
    /\ counterLock' = [ counterLock EXCEPT ![SeriesOf(c)] = c ]
    /\ sequence' = [ sequence EXCEPT ![c] = lastSequence[SeriesOf(c)] + 1 ]
    /\ Goto(c, "issue")
    /\ UNCHANGED << today, db, keyLock, rowLock, command, keyOwner, seen,
                    issueDate, answers >>

Refusal_AnyStatus(c) ==
    IF command[c].actor \in seen[c].validatedBy THEN "validator"
    ELSE IF sequence[c] > MaxSequence THEN "invalidSequence" ELSE "none"

\* What Invoice.issue() and documentNumber() refuse, in their order.
Refusal(c) ==
    IF seen[c].status # "draft" THEN "transition"
    ELSE IF command[c].actor \in seen[c].validatedBy THEN "validator"
    ELSE IF sequence[c] > MaxSequence THEN "invalidSequence" ELSE "none"

IssueRefused(c) ==
    /\ pc[c] = "issue"
    /\ Refusal(c) # "none"
    /\ EndUnwritten(c)

Issue(c) ==
    /\ pc[c] = "issue"
    /\ Refusal(c) = "none"
    /\ Goto(c, "save")
    /\ UNCHANGED << today, db, locks, local, answers >>

\* The two unique indexes an issued row enters: its number and its key.
Collides(row, document) ==
    \/ row.key = document.key
    \/ row.year = document.year /\ row.sequence = document.sequence

\* An index entry another transaction has not committed yet makes the upsert wait.
AwaitsIndex(c) ==
    \E other \in Connections \ {c} :
        /\ pc[other] = "commit"
        /\ Target(other) # Target(c)
        /\ Collides(Document(other), Document(c))

ViolatesIndex(c) ==
    \E i \in Issued \ {Target(c)} : Collides(invoices[i], Document(c))

Save(c) ==
    /\ pc[c] = "save"
    /\ ~ AwaitsIndex(c)
    /\ ~ ViolatesIndex(c)
    /\ Goto(c, "commit")
    /\ UNCHANGED << today, db, locks, local, answers >>

\* Everything the transaction wrote becomes visible at once.
Written(c) ==
    /\ invoices' = [ invoices EXCEPT ![Target(c)] = Document(c) ]
    /\ lastSequence' = [ lastSequence EXCEPT ![SeriesOf(c)] = sequence[c] ]
    /\ issuedBy' = [ issuedBy EXCEPT ![Target(c)] = command[c].actor ]

Commit(c) ==
    /\ pc[c] = "commit"
    /\ Written(c)
    /\ End(c)
    /\ answers' = answers \cup { Answer(Target(c), Document(c)) }

\* The COMMIT took effect and its acknowledgement never arrived.
CommitUnacknowledged(c) ==
    /\ pc[c] = "commit"
    /\ Written(c)
    /\ End(c)
    /\ UNCHANGED answers

\* A failed statement (an index violated at `save` included), a lost connection,
\* a failed COMMIT or a process that dies.
Rollback(c) ==
    /\ pc[c] # "idle"
    /\ EndUnwritten(c)

-----------------------------------------------------------------------------
Decide(c) ==
    AnswerKeyReused(c) \/ AnswerNotFound(c) \/ AnswerReplayed(c) \/ ReadClock(c)

Next ==
    \/ Midnight
    \/ \E i \in Invoices : SaveDraft(i)
    \/ \E c \in Connections :
         \/ \E cmd \in Commands : Begin(c, cmd)
         \/ LockKey(c) \/ ReadKeyOwner(c)
         \/ FindNoInvoice(c) \/ LockInvoice(c) \/ RefuseScope(c)
         \/ Decide(c)
         \/ NextSequence(c) \/ IssueRefused(c) \/ Issue(c)
         \/ Save(c)
         \/ Commit(c) \/ CommitUnacknowledged(c) \/ Rollback(c)

Spec == Init /\ [][Next]_vars

-----------------------------------------------------------------------------
(* Properties.                                                             *)

\* The program counter as a stage: what each transaction already holds.
HoldsKey(c)     == pc[c] \in Steps \ {"idle", "lockKey"}
KnowsOwner(c)   == pc[c] \in Steps \ {"idle", "lockKey", "readKey"}
HoldsInvoice(c) == /\ pc[c] \in {"decide", "nextSequence", "issue", "save", "commit"}
                   /\ seen[c].status # "absent"
HoldsCounter(c) == pc[c] \in {"issue", "save", "commit"}

\* Every variable has its type, and a transaction that runs serves a request.
TypeOK ==
    /\ today \in Days
    /\ invoices \in [ Invoices -> Rows ]
    /\ lastSequence \in [ Years -> Nat ]
    /\ issuedBy \in [ Invoices -> Actors \cup {None} ]
    /\ keyLock \in [ Slots -> Connections \cup {None} ]
    /\ rowLock \in [ Invoices -> Connections \cup {None} ]
    /\ counterLock \in [ Years -> Connections \cup {None} ]
    /\ pc \in [ Connections -> Steps ]
    /\ command \in [ Connections -> Commands \cup {None} ]
    /\ \A c \in Connections : pc[c] # "idle" => command[c] \in Commands
    /\ keyOwner \in [ Connections -> Invoices \cup {None} ]
    /\ seen \in [ Connections -> Rows ]
    /\ issueDate \in [ Connections -> Days ]
    /\ sequence \in [ Connections -> Nat ]
    /\ answers \subseteq Answers

\* The series has no hole: whatever was rolled back, retried or lost, the
\* sequences that committed invoices carry in a year are exactly 1 .. n, n the
\* counter's committed value (ADR-0007).
Gapless ==
    \A y \in Years :
        { invoices[i].sequence : i \in { j \in Issued : invoices[j].year = y } }
            = 1 .. lastSequence[y]

\* No two invoices carry one number, and no key issued two invoices.
Distinct ==
    \A i, j \in Issued : i # j => ~ Collides(invoices[i], invoices[j])

\* Whoever was told a number was told the number the invoice carries, for good:
\* an answer, first or replayed, never disagrees with the register.
AnswersHold ==
    \A a \in answers :
        /\ invoices[a.invoice].status = "issued"
        /\ a.entry = EntryOf(invoices[a.invoice])

\* Two concurrent issuances never meet at a unique index: the key lock and the
\* row locks settle every conflict before the upsert, as a typed answer rather
\* than a raw 23505 (ADR-0102).
NoIndexConflict ==
    \A c \in Connections : pc[c] = "save" => ~ AwaitsIndex(c) /\ ~ ViolatesIndex(c)

\* The lock c waits for is held by d.  At the upsert nobody waits: that is
\* NoIndexConflict.
WaitsFor(c, d) ==
    \/ pc[c] = "lockKey" /\ keyLock[Slot(c)] = d
    \/ /\ pc[c] = "lockInvoice"
       /\ invoices[Target(c)].status # "absent"
       /\ rowLock[Target(c)] = d
    \/ pc[c] = "nextSequence" /\ counterLock[SeriesOf(c)] = d

\* Nobody waits for ever: there is no set of transactions that all wait for one
\* another, or for a lock whose holder has ended.  The order key, invoice,
\* counter leaves PostgreSQL no deadlock to break, and every end frees all
\* three (ADR-0102).
NoStandstill ==
    \A S \in (SUBSET Connections) \ {{}} :
        \E c \in S : \A d \in Connections :
            WaitsFor(c, d) => d \notin S /\ pc[d] # "idle"

\* A lock is held by a transaction that has passed the statement that takes it,
\* and on the row it names: the converse of Held.
Owned ==
    \A c \in Connections :
        /\ \A s \in Slots : keyLock[s] = c => HoldsKey(c) /\ s = Slot(c)
        /\ \A i \in Invoices : rowLock[i] = c => HoldsInvoice(c) /\ i = Target(c)
        /\ \A y \in Years : counterLock[y] = c => HoldsCounter(c) /\ y = SeriesOf(c)

\* A request that repeats the one that issued an invoice is never refused for
\* the invoice's status: it is answered with the document (ADR-0021).
RetryIsNoConflict ==
    \A c \in Connections :
        pc[c] = "issue" /\ Refusal(c) = "transition"
            => invoices[Target(c)].key # command[c].key

\* Separation of duties: whoever validated the days did not issue the invoice.
ValidatorDidNotIssue ==
    \A i \in Issued : issuedBy[i] # None /\ issuedBy[i] \notin invoices[i].validatedBy

\* The document a transaction is about to commit is still built on the row and
\* the counter as they are committed: nothing it read under a lock went stale.
NothingStale ==
    \A c \in Connections :
        /\ HoldsInvoice(c) => seen[c] = invoices[Target(c)]
        /\ HoldsCounter(c) => sequence[c] = lastSequence[SeriesOf(c)] + 1

\* The inductive invariant.  What each stage of a transaction has settled,
Staged ==
    \A c \in Connections :
        /\ pc[c] \in {"idle", "lockKey", "readKey", "lockInvoice"} => seen[c] = Absent
        /\ pc[c] \in {"nextSequence", "issue", "save", "commit"} =>
             keyOwner[c] = None /\ seen[c].status # "absent"
        /\ pc[c] \in {"save", "commit"} => Refusal(c) = "none"

\* which locks it holds,
Held ==
    \A c \in Connections :
        /\ HoldsKey(c) => keyLock[Slot(c)] = c
        /\ HoldsInvoice(c) => rowLock[Target(c)] = c
        /\ HoldsCounter(c) => counterLock[SeriesOf(c)] = c

\* that what it found of its key still holds,
OwnerKnown ==
    \A c \in Connections : KnowsOwner(c) =>
        IF keyOwner[c] = None
        THEN \A i \in Invoices : invoices[i].key # command[c].key
        ELSE invoices[keyOwner[c]].key = command[c].key

\* and that a row carries a number, a date and a key together or not at all
\* (assertInvoiceStateIsCoherent).
Coherent ==
    \A i \in Invoices :
        IF i \in Issued
        THEN /\ invoices[i].key \in Keys
             /\ invoices[i].year \in Years
             /\ invoices[i].issueDate \in Days
             /\ invoices[i].sequence \in 1 .. lastSequence[invoices[i].year]
        ELSE invoices[i] = DraftOf(invoices[i].validatedBy) \/ invoices[i] = Absent

IInv ==
    /\ TypeOK
    /\ Staged
    /\ Held
    /\ NothingStale
    /\ OwnerKnown
    /\ Coherent
    /\ Gapless
    /\ Distinct
    /\ AnswersHold
    /\ ValidatorDidNotIssue

\* An issued document never changes, and a draft only ever becomes an issued
\* document of the same validators.
Frozen ==
    [][ \A i \in Invoices :
          /\ invoices[i].status = "issued" => invoices'[i] = invoices[i]
          /\ invoices[i].status = "draft" =>
               /\ invoices'[i].status \in {"draft", "issued"}
               /\ invoices'[i].validatedBy = invoices[i].validatedBy ]_vars

\* One chronological order over everything the firm issues (ADR-0018): a larger
\* number of a year is not dated before a smaller one.
Chronological ==
    \A i, j \in Issued :
        /\ invoices[i].year = invoices[j].year
        /\ invoices[i].sequence < invoices[j].sequence
        => invoices[i].issueDate <= invoices[j].issueDate

\* Issuing implements the abstract register.
Series == INSTANCE InvoiceSeries WITH
    entries  <- [ i \in Invoices |-> IF i \in Issued THEN EntryOf(invoices[i]) ELSE None ],
    last     <- lastSequence,
    receipts <- answers

ImplementsSeries == Series!SeriesSpec

=============================================================================
