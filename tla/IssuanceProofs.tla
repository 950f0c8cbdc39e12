--------------------------- MODULE IssuanceProofs ---------------------------
(***************************************************************************)
(* Theorems about Issuance, for every pool, every set of invoices, keys    *)
(* and actors, every hash of the keys, every calendar and every limit of   *)
(* the series.                                                             *)
(***************************************************************************)
EXTENDS Issuance, TLAPS

(***************************************************************************)
(* The shape of a step.                                                    *)
(***************************************************************************)

\* Ending a transaction keeps every variable in its type.
LEMMA EndType ==
    ASSUME NEW c \in Connections, TypeOK, End(c),
           invoices' \in [ Invoices -> Rows ],
           lastSequence' \in [ Years -> Nat ],
           issuedBy' \in [ Invoices -> Actors \cup {None} ],
           answers' \subseteq Answers
    PROVE  TypeOK'
<1>1. /\ keyLock' \in [ Slots -> Connections \cup {None} ]
      /\ rowLock' \in [ Invoices -> Connections \cup {None} ]
      /\ counterLock' \in [ Years -> Connections \cup {None} ]
  BY DEF End, Release, TypeOK
<1>2. Absent \in Rows
  BY DEF Absent, Rows
<1>3. 1 \in Days
  BY LastDayAssumption DEF Days
<1>4. /\ pc' \in [ Connections -> Steps ]
      /\ command' \in [ Connections -> Commands \cup {None} ]
      /\ \A d \in Connections : pc'[d] # "idle" => command'[d] \in Commands
  BY DEF End, TypeOK, Steps
<1>5. /\ keyOwner' \in [ Connections -> Invoices \cup {None} ]
      /\ seen' \in [ Connections -> Rows ]
      /\ issueDate' \in [ Connections -> Days ]
      /\ sequence' \in [ Connections -> Nat ]
  BY <1>2, <1>3 DEF End, TypeOK
<1>6. today' = today
  BY DEF End
<1> QED
  BY <1>1, <1>4, <1>5, <1>6 DEF TypeOK

\* An empty register has the types.
LEMMA InitType == Init => TypeOK
<1> SUFFICES ASSUME Init PROVE TypeOK
  OBVIOUS
<1>1. Absent \in Rows
  BY DEF Absent, Rows
<1>2. 1 \in Days
  BY LastDayAssumption DEF Days
<1> QED
  BY <1>1, <1>2 DEF Init, TypeOK, Steps

\* Every statement of a transaction, Midnight and SaveDraft keep the types.
LEMMA NextType == TypeOK /\ [Next]_vars => TypeOK'
<1> SUFFICES ASSUME TypeOK, [Next]_vars PROVE TypeOK'
  OBVIOUS
<1>0. CASE UNCHANGED vars
  BY <1>0 DEF vars, db, locks, local, TypeOK
<1>1. CASE Midnight
  BY <1>1, LastDayAssumption DEF Midnight, db, locks, local, TypeOK, Days
<1>2. ASSUME NEW i \in Invoices, SaveDraft(i) PROVE TypeOK'
  <2>1. PICK v \in Actors : invoices' = [ invoices EXCEPT ![i] = DraftOf({v}) ]
    BY <1>2 DEF SaveDraft
  <2>2. DraftOf({v}) \in Rows
    BY DEF DraftOf, Absent, Rows
  <2>3. invoices' \in [ Invoices -> Rows ]
    BY <2>1, <2>2 DEF TypeOK
  <2> QED
    BY <1>2, <2>3 DEF SaveDraft, locks, local, TypeOK
<1>3. ASSUME NEW c \in Connections, NEW cmd \in Commands, Begin(c, cmd) PROVE TypeOK'
  BY <1>3 DEF Begin, Goto, db, locks, TypeOK, Steps
<1>4. ASSUME NEW c \in Connections, LockKey(c) PROVE TypeOK'
  <2>1. Slot(c) \in Slots
    BY <1>4, KeySlotAssumption DEF LockKey, Slot, TypeOK, Commands
  <2> QED
    BY <1>4, <2>1 DEF LockKey, Goto, db, local, TypeOK, Steps
<1>5. ASSUME NEW c \in Connections, ReadKeyOwner(c) PROVE TypeOK'
  <2>1. (IF OwnersOf(command[c].key) = {} THEN None
         ELSE CHOOSE i \in OwnersOf(command[c].key) : TRUE) \in Invoices \cup {None}
    BY DEF OwnersOf
  <2>2. keyOwner' \in [ Connections -> Invoices \cup {None} ]
    BY <1>5, <2>1, Zenon DEF ReadKeyOwner, TypeOK
  <2> QED
    BY <1>5, <2>2 DEF ReadKeyOwner, Goto, db, locks, TypeOK, Steps
<1>6. ASSUME NEW c \in Connections, FindNoInvoice(c) PROVE TypeOK'
  BY <1>6 DEF FindNoInvoice, Goto, db, locks, local, TypeOK, Steps
<1>7. ASSUME NEW c \in Connections, LockInvoice(c) PROVE TypeOK'
  <2>1. Target(c) \in Invoices
    BY <1>7 DEF LockInvoice, Target, TypeOK, Commands
  <2> QED
    BY <1>7, <2>1 DEF LockInvoice, Goto, db, TypeOK, Steps
<1>8. ASSUME NEW c \in Connections, EndUnwritten(c) PROVE TypeOK'
  BY <1>8, EndType DEF EndUnwritten, db, TypeOK
<1>9. ASSUME NEW c \in Connections, AnswerReplayed(c) PROVE TypeOK'
  <2>1. Answer(Target(c), seen[c]) \in Answers
    BY <1>9 DEF AnswerReplayed, Answer, EntryOf, Answers, Entries, Target, TypeOK,
                Commands, Rows
  <2> QED
    BY <1>9, <2>1, EndType DEF AnswerReplayed, db, TypeOK
<1>10. ASSUME NEW c \in Connections, ReadClock(c) PROVE TypeOK'
  BY <1>10 DEF ReadClock, IssueDateNow, Goto, db, locks, TypeOK, Steps
<1>11. ASSUME NEW c \in Connections, NextSequence(c) PROVE TypeOK'
  <2>1. SeriesOf(c) \in Years
    BY FiscalYearAssumption DEF SeriesOf, TypeOK
  <2> QED
    BY <1>11, <2>1 DEF NextSequence, Goto, db, TypeOK, Steps
<1>12. ASSUME NEW c \in Connections, Issue(c) \/ Save(c) PROVE TypeOK'
  BY <1>12 DEF Issue, Save, Goto, db, locks, local, TypeOK, Steps
<1>13. ASSUME NEW c \in Connections, Commit(c) \/ CommitUnacknowledged(c) PROVE TypeOK'
  <2>1. /\ Target(c) \in Invoices
        /\ SeriesOf(c) \in Years
        /\ command[c].key \in Keys
        /\ command[c].actor \in Actors
        /\ sequence[c] \in Nat
        /\ issueDate[c] \in Nat
        /\ seen[c] \in Rows
    BY <1>13, FiscalYearAssumption
       DEF Commit, CommitUnacknowledged, Target, SeriesOf, TypeOK, Commands, Days
  <2>2. Document(c) \in Rows
    BY <2>1 DEF Document, Rows
  <2>3. Answer(Target(c), Document(c)) \in Answers
    BY <2>1, <2>2 DEF Answer, EntryOf, Answers, Entries, Rows
  <2>4. answers' \subseteq Answers
    BY <1>13, <2>3 DEF Commit, CommitUnacknowledged, TypeOK
  <2>5. /\ invoices' \in [ Invoices -> Rows ]
        /\ lastSequence' \in [ Years -> Nat ]
        /\ issuedBy' \in [ Invoices -> Actors \cup {None} ]
    BY <1>13, <2>1, <2>2 DEF Commit, CommitUnacknowledged, Written, TypeOK
  <2> QED
    BY <1>13, <2>4, <2>5, EndType DEF Commit, CommitUnacknowledged
<1> QED
  BY <1>0, <1>1, <1>2, <1>3, <1>4, <1>5, <1>6, <1>7, <1>8, <1>9, <1>10, <1>11, <1>12, <1>13
     DEF Next, Decide, RefuseScope, AnswerKeyReused, AnswerNotFound, IssueRefused, Rollback

-----------------------------------------------------------------------------
(***************************************************************************)
(* The stages and the locks.                                               *)
(***************************************************************************)

\* The connections other than the one that moves keep all they know.
Aside(c) ==
    \A d \in Connections \ {c} :
        /\ pc'[d] = pc[d]
        /\ command'[d] = command[d]
        /\ keyOwner'[d] = keyOwner[d]
        /\ seen'[d] = seen[d]
        /\ issueDate'[d] = issueDate[d]
        /\ sequence'[d] = sequence[d]

\* Ending a transaction leaves it idle, and the locks of the others with them.
LEMMA EndFacts ==
    ASSUME NEW c \in Connections, TypeOK, End(c)
    PROVE  /\ Aside(c)
           /\ pc'[c] = "idle"
           /\ seen'[c] = Absent
           /\ \A d \in Connections \ {c} :
                /\ \A s \in Slots : keyLock[s] = d => keyLock'[s] = d
                /\ \A i \in Invoices : rowLock[i] = d => rowLock'[i] = d
                /\ \A y \in Years : counterLock[y] = d => counterLock'[y] = d
<1>1. Aside(c) /\ pc'[c] = "idle" /\ seen'[c] = Absent
  BY DEF End, Aside, TypeOK
<1>2. ASSUME NEW d \in Connections \ {c}
      PROVE  /\ \A s \in Slots : keyLock[s] = d => keyLock'[s] = d
             /\ \A i \in Invoices : rowLock[i] = d => rowLock'[i] = d
             /\ \A y \in Years : counterLock[y] = d => counterLock'[y] = d
  BY DEF End, Release, TypeOK
<1> QED
  BY <1>1, <1>2

\* The indices a running transaction uses are in range.
LEMMA Ranges ==
    ASSUME TypeOK, NEW c \in Connections, pc[c] # "idle"
    PROVE  /\ Target(c) \in Invoices
           /\ Slot(c) \in Slots
           /\ SeriesOf(c) \in Years
           /\ command[c] \in Commands
           /\ command[c].key \in Keys
           /\ command[c].actor \in Actors
  BY KeySlotAssumption, FiscalYearAssumption
     DEF TypeOK, Target, Slot, SeriesOf, Commands

\* What the end of the transaction of c means for Staged and Held.
LEMMA EndStagedHeld ==
    ASSUME NEW c \in Connections, TypeOK, Staged, Held, End(c)
    PROVE  Staged' /\ Held'
<1>1. /\ Aside(c)
      /\ pc'[c] = "idle"
      /\ seen'[c] = Absent
      /\ \A d \in Connections \ {c} :
           /\ \A s \in Slots : keyLock[s] = d => keyLock'[s] = d
           /\ \A i \in Invoices : rowLock[i] = d => rowLock'[i] = d
           /\ \A y \in Years : counterLock[y] = d => counterLock'[y] = d
  BY EndFacts
<1>2. Staged'
  BY <1>1 DEF Staged, Aside, Refusal
<1>3. ASSUME NEW d \in Connections \ {c}, pc[d] # "idle"
      PROVE  /\ HoldsKey(d) => (keyLock[Slot(d)] = d)'
             /\ HoldsInvoice(d) => (rowLock[Target(d)] = d)'
             /\ HoldsCounter(d) => (counterLock[SeriesOf(d)] = d)'
  BY <1>1, <1>3, Ranges DEF Held, Aside, Slot, Target, SeriesOf
<1>4. Held'
  BY <1>1, <1>3 DEF Held, Aside, HoldsKey, HoldsInvoice, HoldsCounter
<1> QED
  BY <1>2, <1>4

\* Every step keeps what a stage has settled and the locks it stands for.
LEMMA StagedHeldStep ==
    ASSUME TypeOK, Staged, Held, Coherent, OwnerKnown, [Next]_vars
    PROVE  Staged' /\ Held'
<1> USE DEF Staged, Held, HoldsKey, HoldsInvoice, HoldsCounter, Slot, Target, SeriesOf,
            Refusal, Steps
<1>0. CASE UNCHANGED << locks, pc, local >>
  BY <1>0 DEF locks, local
<1>3. ASSUME NEW c \in Connections, NEW cmd \in Commands, Begin(c, cmd)
      PROVE  Staged' /\ Held'
  BY <1>3 DEF Begin, Goto, locks, TypeOK
<1>4. ASSUME NEW c \in Connections, LockKey(c) PROVE Staged' /\ Held'
  BY <1>4, Ranges, NoneAssumption DEF LockKey, KeyFree, Goto, local, TypeOK
<1>5. ASSUME NEW c \in Connections, ReadKeyOwner(c) PROVE Staged' /\ Held'
  BY <1>5 DEF ReadKeyOwner, Goto, locks, TypeOK
<1>6. ASSUME NEW c \in Connections, FindNoInvoice(c) PROVE Staged' /\ Held'
  BY <1>6 DEF FindNoInvoice, Goto, locks, local, TypeOK, Absent
<1>7. ASSUME NEW c \in Connections, LockInvoice(c) PROVE Staged' /\ Held'
  BY <1>7, Ranges, NoneAssumption DEF LockInvoice, InvoiceFree, Goto, TypeOK
<1>10. ASSUME NEW c \in Connections, ReadClock(c) PROVE Staged' /\ Held'
  BY <1>10 DEF ReadClock, Goto, locks, TypeOK
<1>11. ASSUME NEW c \in Connections, NextSequence(c) PROVE Staged' /\ Held'
  BY <1>11, Ranges, NoneAssumption DEF NextSequence, CounterFree, Goto, TypeOK
<1>12. ASSUME NEW c \in Connections, Issue(c) \/ Save(c) PROVE Staged' /\ Held'
  BY <1>12 DEF Issue, Save, Goto, locks, local, TypeOK
<1>13. ASSUME NEW c \in Connections, End(c) PROVE Staged' /\ Held'
  BY <1>13, EndStagedHeld
<1> QED
  BY <1>0, <1>3, <1>4, <1>5, <1>6, <1>7, <1>10, <1>11, <1>12, <1>13
     DEF Next, vars, Midnight, SaveDraft, Decide, RefuseScope, AnswerKeyReused,
         AnswerNotFound, AnswerReplayed, IssueRefused, Commit, CommitUnacknowledged,
         Rollback, EndUnwritten

-----------------------------------------------------------------------------
(***************************************************************************)
(* What a commit adds to the register.                                     *)
(***************************************************************************)

\* A step either leaves the database alone, drafts an invoice or commits one.
LEMMA StepKinds ==
    ASSUME [Next]_vars
    PROVE  \/ UNCHANGED db
           \/ \E i \in Invoices : SaveDraft(i)
           \/ \E c \in Connections : pc[c] = "commit" /\ Written(c) /\ End(c)
<1>0. CASE UNCHANGED vars
  BY <1>0 DEF vars
<1>1. CASE Next
  BY <1>1 DEF Next, Midnight, Begin, LockKey, ReadKeyOwner, FindNoInvoice, LockInvoice,
              RefuseScope, Decide, AnswerKeyReused, AnswerNotFound, AnswerReplayed,
              ReadClock, NextSequence, IssueRefused, Issue, Save, Commit,
              CommitUnacknowledged, Rollback, EndUnwritten
<1> QED
  BY <1>0, <1>1

\* A transaction about to commit numbers a draft with the next sequence of its
\* year, under a key no invoice carries, for someone who did not validate it.
LEMMA CommitFacts ==
    ASSUME IInv, NEW c \in Connections, pc[c] = "commit"
    PROVE  /\ Target(c) \in Invoices
           /\ SeriesOf(c) \in Years
           /\ command[c].key \in Keys
           /\ command[c].actor \in Actors
           /\ issueDate[c] \in Days
           /\ seen[c] = invoices[Target(c)]
           /\ seen[c].status = "draft"
           /\ seen[c] = DraftOf(seen[c].validatedBy)
           /\ Target(c) \notin Issued
           /\ sequence[c] = lastSequence[SeriesOf(c)] + 1
           /\ sequence[c] <= MaxSequence
           /\ command[c].actor \notin seen[c].validatedBy
           /\ \A i \in Invoices : invoices[i].key # command[c].key
<1>1. /\ Target(c) \in Invoices
      /\ SeriesOf(c) \in Years
      /\ command[c].key \in Keys
      /\ command[c].actor \in Actors
  BY Ranges DEF IInv
<1>2. keyOwner[c] = None /\ seen[c].status # "absent" /\ Refusal(c) = "none"
  BY DEF IInv, Staged
<1>3. /\ seen[c].status = "draft"
      /\ command[c].actor \notin seen[c].validatedBy
      /\ ~ (sequence[c] > MaxSequence)
  BY <1>2 DEF Refusal
<1>4. /\ seen[c] = invoices[Target(c)]
      /\ sequence[c] = lastSequence[SeriesOf(c)] + 1
  BY <1>2 DEF IInv, NothingStale, HoldsInvoice, HoldsCounter
<1>5. /\ issueDate[c] \in Days
      /\ sequence[c] \in Nat
  BY DEF IInv, TypeOK
<1>6. Target(c) \notin Issued
  BY <1>3, <1>4 DEF Issued
<1>7. seen[c] = DraftOf(seen[c].validatedBy)
  BY <1>1, <1>3, <1>4, <1>6 DEF IInv, Coherent, Absent
<1>8. \A i \in Invoices : invoices[i].key # command[c].key
  BY <1>2 DEF IInv, OwnerKnown, KnowsOwner, Steps
<1>9. sequence[c] <= MaxSequence
  BY <1>3, <1>5, MaxSequenceAssumption
<1> QED
  BY <1>1, <1>3, <1>4, <1>5, <1>6, <1>7, <1>8, <1>9

\* What the committed row is.
LEMMA CommittedRow ==
    ASSUME IInv, NEW c \in Connections, pc[c] = "commit", Written(c)
    PROVE  /\ Issued' = Issued \cup {Target(c)}
           /\ \A i \in Invoices \ {Target(c)} : invoices'[i] = invoices[i]
           /\ invoices'[Target(c)] = Document(c)
           /\ Document(c).status = "issued"
           /\ Document(c).sequence = lastSequence[SeriesOf(c)] + 1
           /\ Document(c).year = SeriesOf(c)
           /\ Document(c).issueDate = issueDate[c]
           /\ Document(c).key = command[c].key
           /\ Document(c).validatedBy = invoices[Target(c)].validatedBy
           /\ lastSequence'[SeriesOf(c)] = lastSequence[SeriesOf(c)] + 1
           /\ \A y \in Years \ {SeriesOf(c)} : lastSequence'[y] = lastSequence[y]
           /\ issuedBy'[Target(c)] = command[c].actor
           /\ \A i \in Invoices \ {Target(c)} : issuedBy'[i] = issuedBy[i]
<1>1. /\ Target(c) \in Invoices
      /\ SeriesOf(c) \in Years
      /\ seen[c] = invoices[Target(c)]
      /\ sequence[c] = lastSequence[SeriesOf(c)] + 1
  BY CommitFacts
<1>2. /\ \A i \in Invoices \ {Target(c)} : invoices'[i] = invoices[i]
      /\ invoices'[Target(c)] = Document(c)
      /\ lastSequence'[SeriesOf(c)] = lastSequence[SeriesOf(c)] + 1
      /\ \A y \in Years \ {SeriesOf(c)} : lastSequence'[y] = lastSequence[y]
      /\ issuedBy'[Target(c)] = command[c].actor
      /\ \A i \in Invoices \ {Target(c)} : issuedBy'[i] = issuedBy[i]
  BY <1>1 DEF Written, IInv, TypeOK
<1>3. seen[c] \in Rows
  BY DEF IInv, TypeOK
<1>4. /\ Document(c).status = "issued"
      /\ Document(c).sequence = lastSequence[SeriesOf(c)] + 1
      /\ Document(c).year = SeriesOf(c)
      /\ Document(c).issueDate = issueDate[c]
      /\ Document(c).key = command[c].key
      /\ Document(c).validatedBy = invoices[Target(c)].validatedBy
  BY <1>1, <1>3 DEF Document, Rows
<1>5. Issued' = Issued \cup {Target(c)}
  BY <1>1, <1>2, <1>4 DEF Issued
<1> QED
  BY <1>1, <1>2, <1>4, <1>5

\* Drafting touches no issued invoice.
LEMMA DraftedRow ==
    ASSUME TypeOK, NEW i \in Invoices, SaveDraft(i)
    PROVE  /\ \E v \in Actors : invoices'[i] = DraftOf({v})
           /\ invoices[i].status = "absent"
           /\ \A j \in Invoices \ {i} : invoices'[j] = invoices[j]
           /\ Issued' = Issued
           /\ i \notin Issued
<1>1. PICK v \in Actors : invoices' = [ invoices EXCEPT ![i] = DraftOf({v}) ]
  BY DEF SaveDraft
<1>2. DraftOf({v}).status = "draft"
  BY DEF DraftOf, Absent
<1>3. /\ invoices'[i] = DraftOf({v})
      /\ \A j \in Invoices \ {i} : invoices'[j] = invoices[j]
      /\ invoices[i].status = "absent"
  BY <1>1 DEF TypeOK, SaveDraft
<1>4. Issued' = Issued /\ i \notin Issued
  BY <1>2, <1>3 DEF Issued
<1> QED
  BY <1>3, <1>4

-----------------------------------------------------------------------------
(***************************************************************************)
(* The parts of the invariant that only the database can disturb.          *)
(***************************************************************************)

\* Every step keeps a row numbered, dated and keyed together or not at all.
LEMMA CoherentStep == ASSUME IInv, [Next]_vars PROVE Coherent'
<1>1. CASE UNCHANGED db
  BY <1>1 DEF db, IInv, Coherent, Issued
<1>2. ASSUME NEW i \in Invoices, SaveDraft(i) PROVE Coherent'
  <2>1. /\ \E v \in Actors : invoices'[i] = DraftOf({v})
        /\ \A j \in Invoices \ {i} : invoices'[j] = invoices[j]
        /\ Issued' = Issued
        /\ i \notin Issued
        /\ lastSequence' = lastSequence
    BY <1>2, DraftedRow DEF IInv, SaveDraft
  <2>2. \A v \in Actors : DraftOf({v}).validatedBy = {v}
    BY DEF DraftOf, Absent
  <2> QED
    BY <2>1, <2>2 DEF IInv, Coherent
<1>3. ASSUME NEW c \in Connections, pc[c] = "commit", Written(c) PROVE Coherent'
  <2>1. \A y \in Years : lastSequence[y] \in Nat /\ lastSequence'[y] >= lastSequence[y]
    BY <1>3, CommittedRow DEF IInv, TypeOK
  <2>2. \A y \in Years : lastSequence'[y] \in Nat
    BY <1>3, <2>1, CommittedRow
  <2>3. /\ Document(c).key \in Keys
        /\ Document(c).year \in Years
        /\ Document(c).issueDate \in Days
        /\ Document(c).sequence \in 1 .. lastSequence'[Document(c).year]
    BY <1>3, <2>1, CommittedRow, CommitFacts
  <2>4. ASSUME NEW i \in Issued
        PROVE  /\ invoices[i].key \in Keys
               /\ invoices[i].year \in Years
               /\ invoices[i].issueDate \in Days
               /\ invoices[i].sequence \in 1 .. lastSequence'[invoices[i].year]
    BY <2>1, <2>2, <2>4 DEF IInv, Coherent, Issued
  <2> QED
    BY <1>3, <2>3, <2>4, CommittedRow, CommitFacts DEF IInv, Coherent
<1> QED
  BY <1>1, <1>2, <1>3, StepKinds

\* Every step keeps the sequences of a year without a hole.
LEMMA GaplessStep == ASSUME IInv, [Next]_vars PROVE Gapless'
<1> DEFINE Carried(y) == { invoices[i].sequence : i \in { j \in Issued : invoices[j].year = y } }
<1>1. CASE UNCHANGED db
  BY <1>1 DEF db, IInv, Gapless, Issued
<1>2. ASSUME NEW i \in Invoices, SaveDraft(i) PROVE Gapless'
  <2>1. \A j \in Issued : invoices'[j] = invoices[j]
    BY <1>2, DraftedRow DEF IInv, Issued
  <2>2. Issued' = Issued /\ lastSequence' = lastSequence
    BY <1>2, DraftedRow DEF IInv, SaveDraft
  <2> QED
    BY <2>1, <2>2 DEF IInv, Gapless
<1>3. ASSUME NEW c \in Connections, pc[c] = "commit", Written(c), NEW y \in Years
      PROVE  Carried(y)' = 1 .. lastSequence'[y]
  <2>1. Carried(y) = 1 .. lastSequence[y] /\ lastSequence[y] \in Nat
    BY DEF IInv, Gapless, TypeOK
  <2>2. \A i \in Issued : i # Target(c) /\ invoices'[i] = invoices[i]
    BY <1>3, CommittedRow, CommitFacts DEF Issued
  <2>3. CASE y = SeriesOf(c)
    <3>1. Carried(y)' = Carried(y) \cup {lastSequence[y] + 1}
      BY <1>3, <2>2, <2>3, CommittedRow
    <3> QED
      BY <1>3, <2>1, <2>3, <3>1, CommittedRow
  <2>4. CASE y # SeriesOf(c)
    <3>1. Carried(y)' = Carried(y)
      BY <1>3, <2>2, <2>4, CommittedRow
    <3> QED
      BY <1>3, <2>1, <2>4, <3>1, CommittedRow
  <2> QED
    BY <2>3, <2>4
<1>4. ASSUME NEW c \in Connections, pc[c] = "commit", Written(c) PROVE Gapless'
  BY <1>3, <1>4 DEF Gapless
<1> QED
  BY <1>1, <1>2, <1>4, StepKinds

\* Every step keeps the numbers and the keys of issued invoices apart.
LEMMA DistinctStep == ASSUME IInv, [Next]_vars PROVE Distinct'
<1>1. CASE UNCHANGED db
  BY <1>1 DEF db, IInv, Distinct, Collides, Issued
<1>2. ASSUME NEW i \in Invoices, SaveDraft(i) PROVE Distinct'
  <2>1. \A j \in Issued : invoices'[j] = invoices[j]
    BY <1>2, DraftedRow DEF IInv, Issued
  <2>2. Issued' = Issued
    BY <1>2, DraftedRow DEF IInv
  <2> QED
    BY <2>1, <2>2 DEF IInv, Distinct, Collides
<1>3. ASSUME NEW c \in Connections, pc[c] = "commit", Written(c) PROVE Distinct'
  <2>1. \A i \in Issued : i # Target(c) /\ invoices'[i] = invoices[i]
    BY <1>3, CommittedRow, CommitFacts DEF Issued
  <2>2. \A i \in Issued : invoices[i].key # Document(c).key
    BY <1>3, CommittedRow, CommitFacts DEF Issued
  <2>3. ASSUME NEW i \in Issued, invoices[i].year = Document(c).year
        PROVE  invoices[i].sequence # Document(c).sequence
    <3>1. invoices[i].sequence \in 1 .. lastSequence[SeriesOf(c)]
      BY <1>3, <2>3, CommittedRow DEF IInv, Coherent, Issued
    <3>2. lastSequence[SeriesOf(c)] \in Nat
      BY <1>3, CommitFacts DEF IInv, TypeOK
    <3> QED
      BY <1>3, <3>1, <3>2, CommittedRow
  <2>4. \A i \in Issued : /\ ~ Collides(invoices[i], Document(c))
                          /\ ~ Collides(Document(c), invoices[i])
    BY <2>2, <2>3 DEF Collides
  <2>5. \A i, j \in Issued : i # j => ~ Collides(invoices[i], invoices[j])
    BY DEF IInv, Distinct
  <2>6. Issued' = Issued \cup {Target(c)} /\ invoices'[Target(c)] = Document(c)
    BY <1>3, CommittedRow
  <2>7. ASSUME NEW i \in Issued', NEW j \in Issued', i # j
        PROVE  ~ Collides(invoices'[i], invoices'[j])
    BY <2>1, <2>4, <2>5, <2>6, <2>7
  <2> QED
    BY <2>7 DEF Distinct, Collides
<1> QED
  BY <1>1, <1>2, <1>3, StepKinds

\* Every step keeps validators and issuers apart.
LEMMA DutiesStep == ASSUME IInv, [Next]_vars PROVE ValidatorDidNotIssue'
<1>1. CASE UNCHANGED db
  BY <1>1 DEF db, IInv, ValidatorDidNotIssue, Issued
<1>2. ASSUME NEW i \in Invoices, SaveDraft(i) PROVE ValidatorDidNotIssue'
  <2>1. \A j \in Issued : invoices'[j] = invoices[j]
    BY <1>2, DraftedRow DEF IInv, Issued
  <2>2. Issued' = Issued /\ issuedBy' = issuedBy
    BY <1>2, DraftedRow DEF IInv, SaveDraft
  <2> QED
    BY <2>1, <2>2 DEF IInv, ValidatorDidNotIssue
<1>3. ASSUME NEW c \in Connections, pc[c] = "commit", Written(c)
      PROVE  ValidatorDidNotIssue'
  <2>1. \A i \in Issued : /\ i # Target(c)
                          /\ invoices'[i] = invoices[i]
                          /\ issuedBy'[i] = issuedBy[i]
    BY <1>3, CommittedRow, CommitFacts DEF Issued
  <2>2. /\ issuedBy'[Target(c)] # None
        /\ issuedBy'[Target(c)] \notin invoices'[Target(c)].validatedBy
    BY <1>3, CommittedRow, CommitFacts, NoneAssumption
  <2> QED
    BY <1>3, <2>1, <2>2, CommittedRow DEF IInv, ValidatorDidNotIssue
<1> QED
  BY <1>1, <1>2, <1>3, StepKinds

-----------------------------------------------------------------------------
(***************************************************************************)
(* What transactions know, and what requests were told.                    *)
(***************************************************************************)

\* Under the locks, a commit of one transaction leaves what another read as it
\* was.
LEMMA CommitAside ==
    ASSUME IInv, NEW c \in Connections, pc[c] = "commit", Written(c),
           NEW d \in Connections \ {c}
    PROVE  /\ HoldsInvoice(d) => invoices'[Target(d)] = invoices[Target(d)]
           /\ HoldsCounter(d) => lastSequence'[SeriesOf(d)] = lastSequence[SeriesOf(d)]
           /\ HoldsKey(d) => command[d].key # command[c].key
<1>1. /\ keyLock[Slot(c)] = c
      /\ rowLock[Target(c)] = c
      /\ counterLock[SeriesOf(c)] = c
  BY CommitFacts DEF IInv, Held, HoldsKey, HoldsInvoice, HoldsCounter, Steps
<1>2. /\ HoldsKey(d) => keyLock[Slot(d)] = d
      /\ HoldsInvoice(d) => rowLock[Target(d)] = d
      /\ HoldsCounter(d) => counterLock[SeriesOf(d)] = d
  BY DEF IInv, Held
<1>3. HoldsInvoice(d) => Target(d) \in Invoices
  BY Ranges DEF IInv, HoldsInvoice
<1>4. HoldsCounter(d) => SeriesOf(d) \in Years
  BY Ranges DEF IInv, HoldsCounter
<1>5. HoldsKey(d) => Slot(d) # Slot(c)
  BY <1>1, <1>2
<1> QED
  BY <1>1, <1>2, <1>3, <1>4, <1>5, CommittedRow DEF Slot

\* Every step keeps what transactions read under their locks as committed.
LEMMA StaleStep == ASSUME IInv, [Next]_vars PROVE NothingStale'
<1> USE DEF NothingStale, HoldsInvoice, HoldsCounter, Target, SeriesOf
<1>0. CASE UNCHANGED << db, pc, local >>
  BY <1>0 DEF db, local, IInv
<1>1. ASSUME NEW i \in Invoices, SaveDraft(i) PROVE NothingStale'
  <2>1. /\ invoices[i].status = "absent"
        /\ \A j \in Invoices \ {i} : invoices'[j] = invoices[j]
        /\ UNCHANGED << lastSequence, pc, local >>
    BY <1>1, DraftedRow DEF IInv, SaveDraft
  <2>2. ASSUME NEW c \in Connections, HoldsInvoice(c)
        PROVE  Target(c) \in Invoices \ {i}
    BY <2>1, <2>2, Ranges DEF IInv
  <2> QED
    BY <2>1, <2>2 DEF IInv, local
<1>2. ASSUME NEW c \in Connections, End(c), UNCHANGED db PROVE NothingStale'
  BY <1>2, EndFacts DEF IInv, Aside, db
<1>3. ASSUME NEW c \in Connections, pc[c] = "commit", Written(c), End(c)
      PROVE  NothingStale'
  BY <1>3, EndFacts, CommitAside DEF IInv, Aside
<1>4. ASSUME NEW c \in Connections, NEW cmd \in Commands, Begin(c, cmd)
      PROVE  NothingStale'
  BY <1>4 DEF Begin, Goto, db, IInv, TypeOK
<1>5. ASSUME NEW c \in Connections, LockKey(c) \/ ReadKeyOwner(c) PROVE NothingStale'
  BY <1>5 DEF LockKey, ReadKeyOwner, Goto, db, local, IInv, TypeOK
<1>6. ASSUME NEW c \in Connections, FindNoInvoice(c) PROVE NothingStale'
  BY <1>6 DEF FindNoInvoice, Goto, db, local, IInv, TypeOK, Staged, Absent
<1>7. ASSUME NEW c \in Connections, LockInvoice(c) PROVE NothingStale'
  BY <1>7 DEF LockInvoice, Goto, db, IInv, TypeOK
<1>8. ASSUME NEW c \in Connections, ReadClock(c) PROVE NothingStale'
  BY <1>8 DEF ReadClock, Goto, db, IInv, TypeOK
<1>9. ASSUME NEW c \in Connections, NextSequence(c) PROVE NothingStale'
  BY <1>9 DEF NextSequence, Goto, db, IInv, TypeOK
<1>10. ASSUME NEW c \in Connections, Issue(c) \/ Save(c) PROVE NothingStale'
  BY <1>10 DEF Issue, Save, Goto, db, local, IInv, TypeOK
<1> QED
  BY <1>0, <1>1, <1>2, <1>3, <1>4, <1>5, <1>6, <1>7, <1>8, <1>9, <1>10
     DEF Next, vars, Midnight, Decide, RefuseScope, AnswerKeyReused, AnswerNotFound,
         AnswerReplayed, IssueRefused, Commit, CommitUnacknowledged, Rollback, EndUnwritten

\* Every step keeps what a transaction found of its key true.
LEMMA OwnerStep == ASSUME IInv, [Next]_vars PROVE OwnerKnown'
<1> USE DEF OwnerKnown, KnowsOwner, Steps
<1>0. CASE UNCHANGED << invoices, pc, local >>
  BY <1>0 DEF local, IInv
<1>1. ASSUME NEW i \in Invoices, SaveDraft(i) PROVE OwnerKnown'
  <2>1. /\ \A j \in Invoices \ {i} : invoices'[j] = invoices[j]
        /\ invoices'[i].key = None
        /\ UNCHANGED << pc, local >>
    BY <1>1, DraftedRow DEF IInv, SaveDraft, DraftOf, Absent
  <2>2. invoices[i].key = None
    BY <1>1, DraftedRow DEF IInv, Coherent, DraftOf, Absent
  <2>3. \A c \in Connections : pc[c] # "idle" => command[c].key \in Keys
    BY Ranges DEF IInv
  <2>4. ASSUME NEW c \in Connections, KnowsOwner(c), keyOwner[c] # None
        PROVE  keyOwner[c] \in Invoices \ {i}
    BY <2>2, <2>3, <2>4, NoneAssumption DEF IInv, TypeOK
  <2> QED
    BY <2>1, <2>2, <2>3, <2>4, NoneAssumption DEF IInv, local
<1>2. ASSUME NEW c \in Connections, End(c), UNCHANGED invoices PROVE OwnerKnown'
  BY <1>2, EndFacts DEF IInv, Aside
<1>3. ASSUME NEW c \in Connections, pc[c] = "commit", Written(c), End(c)
      PROVE  OwnerKnown'
  <2>0. \A v : DraftOf(v).key = None
    BY DEF DraftOf, Absent
  <2>1. invoices[Target(c)].key = None
    BY <1>3, <2>0, CommitFacts
  <2>2. ASSUME NEW d \in Connections \ {c}, KnowsOwner(d)
        PROVE  /\ command[d].key # command[c].key
               /\ command[d].key \in Keys
               /\ keyOwner[d] # Target(c)
    <3>1. command[d].key # command[c].key
      BY <1>3, <2>2, CommitAside DEF HoldsKey
    <3>2. command[d].key \in Keys
      BY <2>2, Ranges DEF IInv
    <3>3. keyOwner[d] # Target(c)
      BY <1>3, <2>1, <2>2, <3>2, CommitFacts, NoneAssumption DEF IInv
    <3> QED
      BY <3>1, <3>2, <3>3
  <2>3. \A i \in Invoices \ {Target(c)} : invoices'[i] = invoices[i]
    BY <1>3, CommittedRow
  <2>4. invoices'[Target(c)].key = command[c].key
    BY <1>3, CommittedRow
  <2>5. keyOwner \in [ Connections -> Invoices \cup {None} ]
    BY DEF IInv, TypeOK
  <2>6. Aside(c) /\ pc'[c] = "idle"
    BY <1>3, EndFacts DEF IInv
  <2> QED
    BY <2>2, <2>3, <2>4, <2>5, <2>6 DEF IInv, Aside
<1>4. ASSUME NEW c \in Connections, NEW cmd \in Commands, Begin(c, cmd)
      PROVE  OwnerKnown'
  BY <1>4 DEF Begin, Goto, db, IInv, TypeOK
<1>5. ASSUME NEW c \in Connections, LockKey(c) PROVE OwnerKnown'
  BY <1>5 DEF LockKey, Goto, db, local, IInv, TypeOK
<1>6. ASSUME NEW c \in Connections, ReadKeyOwner(c) PROVE OwnerKnown'
  <2> DEFINE owners == OwnersOf(command[c].key)
             owner == IF owners = {} THEN None ELSE CHOOSE i \in owners : TRUE
  <2>1. owner = None => \A i \in Invoices : invoices[i].key # command[c].key
    BY NoneAssumption DEF OwnersOf
  <2>2. owner # None => owner \in Invoices /\ invoices[owner].key = command[c].key
    BY DEF OwnersOf
  <2>3. /\ keyOwner' = [ keyOwner EXCEPT ![c] = owner ]
        /\ pc' = [ pc EXCEPT ![c] = "lockInvoice" ]
        /\ UNCHANGED << invoices, command >>
    BY <1>6, Zenon DEF ReadKeyOwner, Goto, db
  <2> HIDE DEF owner
  <2> QED
    BY <2>1, <2>2, <2>3 DEF IInv, TypeOK
<1>7. ASSUME NEW c \in Connections, FindNoInvoice(c) \/ LockInvoice(c) PROVE OwnerKnown'
  BY <1>7 DEF FindNoInvoice, LockInvoice, Goto, db, local, IInv, TypeOK
<1>8. ASSUME NEW c \in Connections, ReadClock(c) PROVE OwnerKnown'
  BY <1>8 DEF ReadClock, Goto, db, IInv, TypeOK
<1>9. ASSUME NEW c \in Connections, NextSequence(c) PROVE OwnerKnown'
  BY <1>9 DEF NextSequence, Goto, db, IInv, TypeOK
<1>10. ASSUME NEW c \in Connections, Issue(c) \/ Save(c) PROVE OwnerKnown'
  BY <1>10 DEF Issue, Save, Goto, db, local, IInv, TypeOK
<1> QED
  BY <1>0, <1>1, <1>2, <1>3, <1>4, <1>5, <1>6, <1>7, <1>8, <1>9, <1>10
     DEF Next, vars, db, Midnight, Decide, RefuseScope, AnswerKeyReused, AnswerNotFound,
         AnswerReplayed, IssueRefused, Commit, CommitUnacknowledged, Rollback, EndUnwritten

\* Whatever a request was told stays what the register says.
LEMMA AnswersStep == ASSUME IInv, [Next]_vars PROVE AnswersHold'
<1> DEFINE Holds(a) == /\ invoices[a.invoice].status = "issued"
                       /\ a.entry = EntryOf(invoices[a.invoice])
<1>0. \A a \in answers : a.invoice \in Issued /\ Holds(a)
  BY DEF IInv, TypeOK, AnswersHold, Answers, Issued
<1>1. CASE UNCHANGED << db, answers >>
  BY <1>0, <1>1 DEF db, AnswersHold, EntryOf
<1>2. ASSUME NEW i \in Invoices, SaveDraft(i) PROVE AnswersHold'
  <2>1. \A j \in Issued : invoices'[j] = invoices[j]
    BY <1>2, DraftedRow DEF IInv, Issued
  <2> QED
    BY <1>0, <1>2, <2>1 DEF SaveDraft, AnswersHold, EntryOf
<1>3. ASSUME NEW c \in Connections, AnswerReplayed(c) PROVE AnswersHold'
  <2>1. /\ answers' = answers \cup { Answer(Target(c), seen[c]) }
        /\ UNCHANGED db
    BY <1>3 DEF AnswerReplayed
  <2>2. /\ pc[c] = "decide"
        /\ keyOwner[c] = Target(c)
        /\ seen[c].status # "absent"
    BY <1>3 DEF AnswerReplayed
  <2>3. Target(c) \in Invoices /\ command[c].key \in Keys
    BY <2>2, Ranges DEF IInv
  <2>4. seen[c] = invoices[Target(c)]
    BY <2>2 DEF IInv, NothingStale, HoldsInvoice
  <2>5. keyOwner[c] # None => invoices[Target(c)].key = command[c].key
    BY <2>2 DEF IInv, OwnerKnown, KnowsOwner, Steps
  <2>6. Target(c) # None
    BY <2>3, NoneAssumption
  <2>7. Target(c) \in Issued
    <3>1. invoices[Target(c)].key \in Keys
      BY <2>2, <2>3, <2>5, <2>6
    <3>2. \A v : DraftOf(v).key = None /\ Absent.key = None
      BY DEF DraftOf, Absent
    <3> QED
      BY <2>3, <3>1, <3>2, NoneAssumption DEF IInv, Coherent
  <2>8. Holds(Answer(Target(c), seen[c]))
    BY <2>4, <2>7 DEF Answer, Issued
  <2> QED
    BY <1>0, <2>1, <2>8 DEF AnswersHold, db, EntryOf
<1>4. ASSUME NEW c \in Connections, Commit(c) \/ CommitUnacknowledged(c)
      PROVE  AnswersHold'
  <2>1. pc[c] = "commit" /\ Written(c)
    BY <1>4 DEF Commit, CommitUnacknowledged
  <2>2. \A i \in Issued : i # Target(c) /\ invoices'[i] = invoices[i]
    BY <2>1, CommittedRow, CommitFacts DEF Issued
  <2>3. invoices'[Target(c)] = Document(c) /\ Document(c).status = "issued"
    BY <2>1, CommittedRow
  <2>4. ASSUME NEW a \in answers' PROVE Holds(a)'
    <3>1. CASE a \in answers
      BY <1>0, <2>2, <3>1 DEF EntryOf
    <3>2. CASE a = Answer(Target(c), Document(c))
      BY <2>3, <3>2 DEF Answer, EntryOf
    <3> QED
      BY <1>4, <3>1, <3>2 DEF Commit, CommitUnacknowledged
  <2> QED
    BY <2>4 DEF AnswersHold
<1> QED
  BY <1>1, <1>2, <1>3, <1>4
     DEF Next, vars, Midnight, Begin, LockKey, ReadKeyOwner, FindNoInvoice, LockInvoice,
         RefuseScope, Decide, AnswerKeyReused, AnswerNotFound, ReadClock, NextSequence,
         IssueRefused, Issue, Save, Rollback, EndUnwritten

-----------------------------------------------------------------------------
(***************************************************************************)
(* The inductive invariant, and what follows from it.                      *)
(***************************************************************************)

\* An empty register satisfies the inductive invariant.
LEMMA InitInvariant == Init => IInv
<1> SUFFICES ASSUME Init PROVE IInv
  OBVIOUS
<1>1. TypeOK
  BY InitType
<1>2. Issued = {}
  BY DEF Init, Issued, Absent
<1>3. Staged /\ Held /\ OwnerKnown
  BY DEF Init, Staged, Held, OwnerKnown, HoldsKey, HoldsInvoice, HoldsCounter, KnowsOwner,
         Steps
<1>4. NothingStale
  BY DEF Init, NothingStale, HoldsInvoice, HoldsCounter
<1>5. Coherent
  BY <1>2 DEF Init, Coherent
<1>6. Gapless
  BY <1>2 DEF Init, Gapless
<1>7. Distinct /\ ValidatorDidNotIssue
  BY <1>2 DEF Distinct, ValidatorDidNotIssue
<1>8. AnswersHold
  BY DEF Init, AnswersHold
<1> QED
  BY <1>1, <1>3, <1>4, <1>5, <1>6, <1>7, <1>8 DEF IInv

\* Every step keeps it.
LEMMA NextInvariant == IInv /\ [Next]_vars => IInv'
<1> SUFFICES ASSUME IInv, [Next]_vars PROVE IInv'
  OBVIOUS
<1>1. TypeOK'
  BY NextType DEF IInv
<1>2. Staged' /\ Held'
  BY StagedHeldStep DEF IInv
<1>3. NothingStale' /\ OwnerKnown' /\ AnswersHold'
  BY StaleStep, OwnerStep, AnswersStep
<1>4. Coherent' /\ Gapless' /\ Distinct' /\ ValidatorDidNotIssue'
  BY CoherentStep, GaplessStep, DistinctStep, DutiesStep
<1> QED
  BY <1>1, <1>2, <1>3, <1>4 DEF IInv

\* The locks, the stages and the register agree in every reachable state.
THEOREM Invariant == Spec => []IInv
<1>1. Init => IInv
  BY InitInvariant
<1>2. IInv /\ [Next]_vars => IInv'
  BY NextInvariant
<1> QED
  BY <1>1, <1>2, PTL DEF Spec

\* Every variable keeps its type.
THEOREM TypeCorrect == Spec => []TypeOK
<1>1. IInv => TypeOK
  BY DEF IInv
<1> QED
  BY <1>1, Invariant, PTL

\* The sequences of a year are 1 .. n with no hole, whatever was rolled back,
\* retried or lost (ADR-0007).
THEOREM GaplessAlways == Spec => []Gapless
<1>1. IInv => Gapless
  BY DEF IInv
<1> QED
  BY <1>1, Invariant, PTL

\* No number is carried twice and no key issues two invoices.
THEOREM DistinctAlways == Spec => []Distinct
<1>1. IInv => Distinct
  BY DEF IInv
<1> QED
  BY <1>1, Invariant, PTL

\* Whatever a request was told of its invoice stays true.
THEOREM AnswersHoldAlways == Spec => []AnswersHold
<1>1. IInv => AnswersHold
  BY DEF IInv
<1> QED
  BY <1>1, Invariant, PTL

\* The validator of the days never issues the invoice.
THEOREM DutiesSeparated == Spec => []ValidatorDidNotIssue
<1>1. IInv => ValidatorDidNotIssue
  BY DEF IInv
<1> QED
  BY <1>1, Invariant, PTL

\* What a transaction read under its locks is still what is committed.
THEOREM NothingGoesStale == Spec => []NothingStale
<1>1. IInv => NothingStale
  BY DEF IInv
<1> QED
  BY <1>1, Invariant, PTL

\* A retry of the request that issued an invoice is never refused for its status.
THEOREM RetryNeverConflicts == Spec => []RetryIsNoConflict
<1>1. IInv => RetryIsNoConflict
  <2> SUFFICES ASSUME IInv, NEW c \in Connections, pc[c] = "issue"
               PROVE  invoices[Target(c)].key # command[c].key
    BY DEF RetryIsNoConflict
  <2>1. keyOwner[c] = None /\ Target(c) \in Invoices
    BY Ranges DEF IInv, Staged
  <2> QED
    BY <2>1 DEF IInv, OwnerKnown, KnowsOwner, Steps
<1> QED
  BY <1>1, Invariant, PTL

\* No upsert ever waits for, or violates, a unique index: the locks settled it.
THEOREM IndexesNeverConflict == Spec => []NoIndexConflict
<1>1. ASSUME IInv, NEW c \in Connections, pc[c] = "save" PROVE ~ AwaitsIndex(c)
  <2> SUFFICES ASSUME NEW other \in Connections \ {c}, pc[other] = "commit",
                      Collides(Document(other), Document(c))
               PROVE  FALSE
    BY DEF AwaitsIndex
  <2>1. \A d \in {c, other} : /\ Document(d).key = command[d].key
                              /\ Document(d).year = SeriesOf(d)
    BY DEF IInv, TypeOK, Document, Rows
  <2>2. command[c].key # command[other].key
    BY <1>1 DEF IInv, Held, HoldsKey, Steps, Slot
  <2>3. SeriesOf(c) # SeriesOf(other)
    BY <1>1 DEF IInv, Held, HoldsCounter
  <2> QED
    BY <2>1, <2>2, <2>3 DEF Collides
<1>2. ASSUME IInv, NEW c \in Connections, pc[c] = "save" PROVE ~ ViolatesIndex(c)
  <2> SUFFICES ASSUME NEW i \in Issued, Collides(invoices[i], Document(c)) PROVE FALSE
    BY DEF ViolatesIndex
  <2>1. /\ Document(c).key = command[c].key
        /\ Document(c).year = SeriesOf(c)
        /\ Document(c).sequence = lastSequence[SeriesOf(c)] + 1
    BY <1>2 DEF IInv, TypeOK, Document, Rows, NothingStale, HoldsCounter
  <2>2. invoices[i].key # command[c].key
    BY <1>2 DEF IInv, Staged, OwnerKnown, KnowsOwner, Steps, Issued
  <2>3. invoices[i].sequence \in 1 .. lastSequence[invoices[i].year]
    BY <1>2 DEF IInv, Coherent, Issued
  <2>4. lastSequence[SeriesOf(c)] \in Nat
    BY <1>2, Ranges DEF IInv, TypeOK
  <2> QED
    BY <2>1, <2>2, <2>3, <2>4 DEF Collides
<1>3. IInv => NoIndexConflict
  BY <1>1, <1>2 DEF NoIndexConflict
<1> QED
  BY <1>3, Invariant, PTL

\* An issued document never changes again, and a draft only becomes an issued
\* document of the same validators.
THEOREM FrozenAlways == Spec => Frozen
<1> DEFINE Freezes ==
      \A i \in Invoices :
          /\ invoices[i].status = "issued" => invoices'[i] = invoices[i]
          /\ invoices[i].status = "draft" =>
               /\ invoices'[i].status \in {"draft", "issued"}
               /\ invoices'[i].validatedBy = invoices[i].validatedBy
<1>1. IInv /\ [Next]_vars => Freezes
  <2> SUFFICES ASSUME IInv, [Next]_vars PROVE Freezes
    OBVIOUS
  <2>1. CASE UNCHANGED db
    BY <2>1 DEF db
  <2>2. ASSUME NEW i \in Invoices, SaveDraft(i) PROVE Freezes
    BY <2>2, DraftedRow DEF IInv
  <2>3. ASSUME NEW c \in Connections, pc[c] = "commit", Written(c) PROVE Freezes
    BY <2>3, CommitFacts, CommittedRow DEF Issued
  <2> QED
    BY <2>1, <2>2, <2>3, StepKinds
<1>2. Freezes => [Freezes]_vars
  OBVIOUS
<1> QED
  BY <1>1, <1>2, Invariant, PTL DEF Spec, Frozen

-----------------------------------------------------------------------------
(***************************************************************************)
(* Nobody waits for ever.                                                  *)
(***************************************************************************)

\* Ending a transaction frees all it held, and gives nobody a lock.
LEMMA EndFrees ==
    ASSUME NEW c \in Connections, TypeOK, End(c), NEW d \in Connections
    PROVE  /\ \A s \in Slots : keyLock'[s] = d => keyLock[s] = d /\ d # c
           /\ \A i \in Invoices : rowLock'[i] = d => rowLock[i] = d /\ d # c
           /\ \A y \in Years : counterLock'[y] = d => counterLock[y] = d /\ d # c
  BY NoneAssumption DEF End, Release, TypeOK

\* Every step keeps each lock with a transaction that has taken it.
LEMMA OwnedStep ==
    ASSUME TypeOK, Owned, [Next]_vars
    PROVE  Owned'
<1> USE DEF Owned, HoldsKey, HoldsInvoice, HoldsCounter, Slot, Target, SeriesOf, Steps
<1>0. CASE UNCHANGED << locks, pc, local >>
  BY <1>0 DEF locks, local
<1>1. ASSUME NEW c \in Connections, NEW cmd \in Commands, Begin(c, cmd)
      PROVE  Owned'
  BY <1>1 DEF Begin, Goto, locks, TypeOK
<1>2. ASSUME NEW c \in Connections, LockKey(c) PROVE Owned'
  BY <1>2, Ranges DEF LockKey, Goto, local, TypeOK
<1>3. ASSUME NEW c \in Connections, ReadKeyOwner(c) PROVE Owned'
  BY <1>3 DEF ReadKeyOwner, Goto, locks, TypeOK
<1>4. ASSUME NEW c \in Connections, FindNoInvoice(c) PROVE Owned'
  BY <1>4 DEF FindNoInvoice, Goto, locks, local, TypeOK
<1>5. ASSUME NEW c \in Connections, LockInvoice(c) PROVE Owned'
  BY <1>5, Ranges DEF LockInvoice, Goto, TypeOK
<1>6. ASSUME NEW c \in Connections, ReadClock(c) PROVE Owned'
  BY <1>6 DEF ReadClock, Goto, locks, TypeOK
<1>7. ASSUME NEW c \in Connections, NextSequence(c) PROVE Owned'
  BY <1>7, Ranges DEF NextSequence, Goto, TypeOK
<1>8. ASSUME NEW c \in Connections, Issue(c) \/ Save(c) PROVE Owned'
  BY <1>8 DEF Issue, Save, Goto, locks, local, TypeOK
<1>9. ASSUME NEW c \in Connections, End(c) PROVE Owned'
  BY <1>9, EndFacts, EndFrees DEF Aside
<1> QED
  BY <1>0, <1>1, <1>2, <1>3, <1>4, <1>5, <1>6, <1>7, <1>8, <1>9
     DEF Next, vars, Midnight, SaveDraft, Decide, RefuseScope, AnswerKeyReused,
         AnswerNotFound, AnswerReplayed, IssueRefused, Commit, CommitUnacknowledged,
         Rollback, EndUnwritten

\* Whoever is waited for runs, and has passed the statement that waits.
LEMMA WaitsAhead ==
    ASSUME TypeOK, Owned, NEW c \in Connections, NEW d \in Connections, WaitsFor(c, d)
    PROVE  /\ pc[d] # "idle"
           /\ pc[c] = "lockKey" => pc[d] # "lockKey"
           /\ pc[c] = "lockInvoice" => pc[d] \notin {"lockKey", "lockInvoice"}
           /\ pc[c] = "nextSequence" =>
                pc[d] \notin {"lockKey", "lockInvoice", "nextSequence"}
           /\ pc[c] \in {"lockKey", "lockInvoice", "nextSequence"}
  BY Ranges DEF WaitsFor, Owned, HoldsKey, HoldsInvoice, HoldsCounter

\* No set of transactions waits only for itself or for what has ended.
THEOREM NobodyStandsStill == Spec => []NoStandstill
<1>1. Init => Owned
  <2> SUFFICES ASSUME Init PROVE Owned
    OBVIOUS
  <2>1. /\ \A s \in Slots : keyLock[s] = None
        /\ \A i \in Invoices : rowLock[i] = None
        /\ \A y \in Years : counterLock[y] = None
    BY DEF Init
  <2> QED
    BY <2>1, NoneAssumption DEF Owned
<1>2. IInv /\ Owned /\ [Next]_vars => Owned'
  BY OwnedStep DEF IInv
<1>3. IInv /\ Owned => NoStandstill
  <2> SUFFICES ASSUME IInv, Owned, NEW S \in SUBSET Connections, S # {},
                      \A c \in S : \E d \in Connections :
                          WaitsFor(c, d) /\ (d \in S \/ pc[d] = "idle")
               PROVE  FALSE
    BY DEF NoStandstill
  <2>1. ASSUME NEW c \in S
        PROVE  \E d \in S :
                 /\ pc[c] = "lockKey" => pc[d] # "lockKey"
                 /\ pc[c] = "lockInvoice" => pc[d] \notin {"lockKey", "lockInvoice"}
                 /\ pc[c] = "nextSequence" =>
                      pc[d] \notin {"lockKey", "lockInvoice", "nextSequence"}
                 /\ pc[c] \in {"lockKey", "lockInvoice", "nextSequence"}
    BY WaitsAhead DEF IInv
  <2>2. PICK c1 \in S : TRUE
    OBVIOUS
  <2>3. \E c2 \in S : pc[c2] \in {"lockInvoice", "nextSequence"}
    BY <2>1, <2>2
  <2>4. \E c3 \in S : pc[c3] = "nextSequence"
    BY <2>1, <2>3
  <2> QED
    BY <2>1, <2>4
<1> QED
  BY <1>1, <1>2, <1>3, Invariant, PTL DEF Spec

-----------------------------------------------------------------------------
(***************************************************************************)
(* Issuing implements the abstract register: a commit is a Number, told or *)
(* not, a replayed answer is a Replay, and every other step changes        *)
(* nothing the register knows of.                                          *)
(***************************************************************************)

\* The entries Issuance maps to the register.
Mapped == [ i \in Invoices |-> IF i \in Issued THEN EntryOf(invoices[i]) ELSE None ]

\* An entry is a record, and None is the year of no entry.
LEMMA MappedEntries ==
    ASSUME IInv
    PROVE  /\ \A i \in Issued : Mapped[i] = EntryOf(invoices[i])
           /\ \A i \in Invoices \ Issued : Mapped[i] = None
  BY DEF Mapped, Issued

\* A commit gives the target the next entry of its year's register.
LEMMA CommitNumbers ==
    ASSUME IInv, NEW c \in Connections, pc[c] = "commit", Written(c)
    PROVE  /\ EntryOf(Document(c)) = [ year |-> SeriesOf(c),
                                       sequence |-> lastSequence[SeriesOf(c)] + 1,
                                       issueDate |-> issueDate[c],
                                       key |-> command[c].key ]
           /\ Mapped' = [ Mapped EXCEPT ![Target(c)] = EntryOf(Document(c)) ]
           /\ lastSequence' = [ lastSequence EXCEPT ![SeriesOf(c)] = @ + 1 ]
           /\ Mapped[Target(c)] = None
           /\ lastSequence[SeriesOf(c)] < MaxSequence
<1>1. /\ Target(c) \in Invoices
      /\ SeriesOf(c) \in Years
      /\ Target(c) \notin Issued
      /\ sequence[c] = lastSequence[SeriesOf(c)] + 1
      /\ sequence[c] <= MaxSequence
      /\ lastSequence[SeriesOf(c)] \in Nat
  BY CommitFacts DEF IInv, TypeOK
<1>2. EntryOf(Document(c)) = [ year |-> SeriesOf(c),
                               sequence |-> lastSequence[SeriesOf(c)] + 1,
                               issueDate |-> issueDate[c],
                               key |-> command[c].key ]
  BY CommittedRow DEF EntryOf
<1>3. Mapped' = [ Mapped EXCEPT ![Target(c)] = EntryOf(Document(c)) ]
  <2>1. \A i \in Invoices \ {Target(c)} :
          (i \in Issued' <=> i \in Issued) /\ invoices'[i] = invoices[i]
    BY CommittedRow
  <2>2. Target(c) \in Issued' /\ invoices'[Target(c)] = Document(c)
    BY CommittedRow
  <2> QED
    BY <1>1, <2>1, <2>2 DEF Mapped, EntryOf
<1>4. lastSequence' = [ lastSequence EXCEPT ![SeriesOf(c)] = @ + 1 ]
  BY <1>1 DEF Written
<1>5. Mapped[Target(c)] = None
  BY <1>1, MappedEntries
<1>6. lastSequence[SeriesOf(c)] < MaxSequence
  BY <1>1, MaxSequenceAssumption
<1> QED
  BY <1>2, <1>3, <1>4, <1>5, <1>6

\* A commit is a Number of the register, whether or not its client is told.
LEMMA CommitImplements ==
    ASSUME IInv, NEW c \in Connections, Commit(c) \/ CommitUnacknowledged(c)
    PROVE  Series!SeriesNext
<1> DEFINE entry == [ year |-> SeriesOf(c),
                      sequence |-> lastSequence[SeriesOf(c)] + 1,
                      issueDate |-> issueDate[c],
                      key |-> command[c].key ]
<1>1. pc[c] = "commit" /\ Written(c)
  BY DEF Commit, CommitUnacknowledged
<1>2. /\ Target(c) \in Invoices
      /\ SeriesOf(c) \in Years
      /\ command[c].key \in Keys
      /\ issueDate[c] \in Days
  BY <1>1, CommitFacts
<1>3. /\ EntryOf(Document(c)) = entry
      /\ Mapped' = [ Mapped EXCEPT ![Target(c)] = entry ]
      /\ lastSequence' = [ lastSequence EXCEPT ![SeriesOf(c)] = @ + 1 ]
      /\ Mapped[Target(c)] = None
      /\ lastSequence[SeriesOf(c)] < MaxSequence
  BY <1>1, CommitNumbers
<1>4. ASSUME NEW other \in Invoices, Mapped[other] # None
      PROVE  Mapped[other].key # command[c].key
  <2>1. other \in Issued /\ Mapped[other] = EntryOf(invoices[other])
    BY <1>4, MappedEntries
  <2>2. invoices[other].key # command[c].key
    BY <1>1, CommitFacts
  <2> QED
    BY <2>1, <2>2 DEF EntryOf
<1>5. \/ answers' = answers \cup { [ invoice |-> Target(c), entry |-> entry ] }
      \/ answers' = answers
  BY <1>3 DEF Commit, CommitUnacknowledged, Answer
<1>6. \E told \in BOOLEAN :
         Series!Number(Target(c), SeriesOf(c), issueDate[c], command[c].key, told)
  <2>1. CASE answers' = answers \cup { [ invoice |-> Target(c), entry |-> entry ] }
    <3>1. Series!Number(Target(c), SeriesOf(c), issueDate[c], command[c].key, TRUE)
      BY <1>3, <1>4, <2>1 DEF Series!Number, Series!Receipt, Mapped
    <3> QED
      BY <3>1
  <2>2. CASE answers' = answers
    <3>1. Series!Number(Target(c), SeriesOf(c), issueDate[c], command[c].key, FALSE)
      BY <1>3, <1>4, <2>2 DEF Series!Number, Series!Receipt, Mapped
    <3> QED
      BY <3>1
  <2> QED
    BY <1>5, <2>1, <2>2
<1> QED
  BY <1>2, <1>6 DEF Series!SeriesNext

\* A replayed answer is a Replay of the register.
LEMMA ReplayImplements ==
    ASSUME IInv, AnswersHold', NEW c \in Connections, AnswerReplayed(c)
    PROVE  Series!SeriesNext
<1>1. /\ pc[c] = "decide"
      /\ seen[c].status # "absent"
      /\ answers' = answers \cup { Answer(Target(c), seen[c]) }
      /\ UNCHANGED db
  BY DEF AnswerReplayed
<1>2. Target(c) \in Invoices /\ seen[c] = invoices[Target(c)]
  BY <1>1, Ranges DEF IInv, NothingStale, HoldsInvoice
<1>3. invoices[Target(c)].status = "issued"
  <2>1. Answer(Target(c), seen[c]) \in answers'
    BY <1>1
  <2>2. invoices'[Answer(Target(c), seen[c]).invoice].status = "issued"
    BY <2>1 DEF AnswersHold
  <2> QED
    BY <1>1, <2>2 DEF Answer, db
<1>4. Target(c) \in Issued /\ Mapped[Target(c)] = EntryOf(invoices[Target(c)])
  BY <1>2, <1>3, MappedEntries DEF Issued
<1>5. Mapped[Target(c)] # None
  <2>1. invoices[Target(c)].year \in Years
    BY <1>2, <1>4 DEF IInv, Coherent
  <2> QED
    BY <1>2, <1>4, <2>1, NoEntryAssumption DEF IInv, Coherent, TypeOK, Rows, Entries, EntryOf
<1>6. Mapped' = Mapped /\ lastSequence' = lastSequence
  BY <1>1 DEF db, Mapped, Issued, EntryOf
<1>7. Series!Replay(Target(c))
  BY <1>1, <1>2, <1>4, <1>5, <1>6 DEF Series!Replay, Series!Receipt, Mapped, Answer
<1> QED
  BY <1>2, <1>7 DEF Series!SeriesNext

\* Every behaviour of the issuing transactions is a behaviour of the register.
THEOREM IssuanceImplementsSeries == Spec => ImplementsSeries
<1>1. Init => Series!SeriesInit
  BY DEF Init, Series!SeriesInit, Issued, Absent
<1>2. IInv /\ IInv' /\ [Next]_vars => [Series!SeriesNext]_(Series!seriesVars)
  <2> SUFFICES ASSUME IInv, IInv', [Next]_vars
               PROVE  [Series!SeriesNext]_(Series!seriesVars)
    OBVIOUS
  <2>1. CASE UNCHANGED << db, answers >>
    BY <2>1 DEF db, Series!seriesVars, Issued, EntryOf
  <2>2. ASSUME NEW i \in Invoices, SaveDraft(i) PROVE UNCHANGED Series!seriesVars
    <3>1. /\ Issued' = Issued
          /\ \A j \in Issued : invoices'[j] = invoices[j]
          /\ UNCHANGED << lastSequence, answers >>
      <4>1. TypeOK
        BY DEF IInv
      <4>2. /\ Issued' = Issued
            /\ i \notin Issued
            /\ \A j \in Invoices \ {i} : invoices'[j] = invoices[j]
        BY <2>2, <4>1, DraftedRow
      <4> QED
        BY <2>2, <4>2 DEF SaveDraft, Issued
    <3> QED
      BY <3>1 DEF Series!seriesVars, EntryOf
  <2>3. ASSUME NEW c \in Connections, AnswerReplayed(c) PROVE Series!SeriesNext
    BY <2>3, ReplayImplements DEF IInv
  <2>4. ASSUME NEW c \in Connections, Commit(c) \/ CommitUnacknowledged(c)
        PROVE  Series!SeriesNext
    BY <2>4, CommitImplements
  <2> QED
    BY <2>1, <2>2, <2>3, <2>4
       DEF Next, vars, Midnight, Begin, LockKey, ReadKeyOwner, FindNoInvoice, LockInvoice,
           RefuseScope, Decide, AnswerKeyReused, AnswerNotFound, ReadClock, NextSequence,
           IssueRefused, Issue, Save, Rollback, EndUnwritten
<1> QED
  BY <1>1, <1>2, Invariant, PTL DEF Spec, ImplementsSeries, Series!SeriesSpec

=============================================================================
