---------------------------- MODULE CraLifecycle ----------------------------
(***************************************************************************)
(* What the chains of Timesheet promise of a month, with no connection,    *)
(* lock or table in sight: a month is written as a whole, is submitted     *)
(* when it is complete, is decided once it is submitted, and its           *)
(* validation bills, in the same instant, every quarter-day of it once.    *)
(***************************************************************************)
EXTENDS Naturals, FiniteSets, FiniteSetsExt

CONSTANTS
    Months,    \* consultant and period pairs
    Days,      \* the days of all of them
    DaysOf,    \* the days of each
    Workable,  \* the days to fill
    Missions,  \* what is worked on
    Verdict    \* what becomes of a mission's quarter-days

VARIABLE month   \* status, lines and dossier of each month

Sum(lines) == MapThenSumSet(LAMBDA line : line.quarterDays, lines)

Whole(m, lines) ==
    \A day \in DaysOf[m] \cap Workable : Sum({ line \in lines : line.day = day }) = 4

\* Every mission worked on, once, with all its quarter-days and what became of them.
Bill(lines) ==
    { [ mission |-> mission, verdict |-> Verdict[mission],
        quarterDays |-> Sum({ line \in lines : line.mission = mission }) ]
      : mission \in Missions \cap { line.mission : line \in lines } }

Init == month = [ m \in Months |-> [ status |-> "absent", lines |-> {}, dossier |-> {} ] ]

\* The owner's side: what is written is the lines of another state of the month, which
\* the instances bound, so it is left open here.
Write(m) ==
    /\ month[m].status \in {"absent", "draft", "refused"}
    /\ month'[m].status \in {"submitted",
                             IF month[m].status = "absent" THEN "draft" ELSE month[m].status}
    /\ month'[m].status = "submitted" => Whole(m, month'[m].lines)
    /\ month'[m].dossier = {}

\* The manager's side.
Refuse(m) ==
    /\ month[m].status = "submitted"
    /\ month'[m] = [ month[m] EXCEPT !.status = "refused" ]

Validate(m) ==
    /\ month[m].status = "submitted"
    /\ month'[m] = [ month[m] EXCEPT !.status = "validated", !.dossier = Bill(month[m].lines) ]

Next ==
    \E m \in Months :
        /\ Write(m) \/ Refuse(m) \/ Validate(m)
        /\ \A other \in Months \ {m} : month'[other] = month[other]
        /\ DOMAIN month' = Months

Spec == Init /\ [][Next]_month

=============================================================================
