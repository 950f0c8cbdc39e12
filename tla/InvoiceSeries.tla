---------------------------- MODULE InvoiceSeries ----------------------------
(***************************************************************************)
(* What issuing an invoice promises, with no connection, lock or statement *)
(* in sight (ADR-0007, ADR-0018, ADR-0044): one register per fiscal year   *)
(* in which an invoice takes the next sequence once, under a key nobody    *)
(* used, and every answer given about an invoice is the register's entry.  *)
(***************************************************************************)
EXTENDS Naturals

CONSTANTS Invoices, Keys, Years, Days, MaxSequence, None

VARIABLES
    entries,   \* the entry of each invoice in the register, None before it issues
    last,      \* the last sequence each year handed out
    receipts   \* what requests were told: an invoice and its entry

seriesVars == << entries, last, receipts >>

Entries == [ year : Years, sequence : Nat, issueDate : Days, key : Keys ]

SeriesInit ==
    /\ entries = [ i \in Invoices |-> None ]
    /\ last = [ y \in Years |-> 0 ]
    /\ receipts = {}

Receipt(i, e) == [ invoice |-> i, entry |-> e ]

\* The invoice is numbered; the request that asked may never learn of it.
Number(i, y, day, key, told) ==
    LET entry == [ year |-> y, sequence |-> last[y] + 1, issueDate |-> day, key |-> key ]
    IN  /\ entries[i] = None
        /\ last[y] < MaxSequence
        /\ \A other \in Invoices : entries[other] # None => entries[other].key # key
        /\ entries' = [ entries EXCEPT ![i] = entry ]
        /\ last' = [ last EXCEPT ![y] = @ + 1 ]
        /\ receipts' = IF told THEN receipts \cup { Receipt(i, entry) } ELSE receipts

\* A retry is told what the first request did.
Replay(i) ==
    /\ entries[i] # None
    /\ receipts' = receipts \cup { Receipt(i, entries[i]) }
    /\ UNCHANGED << entries, last >>

SeriesNext ==
    \E i \in Invoices :
        \/ Replay(i)
        \/ \E y \in Years, day \in Days, key \in Keys, told \in BOOLEAN :
             Number(i, y, day, key, told)

SeriesSpec == SeriesInit /\ [][SeriesNext]_seriesVars

=============================================================================
