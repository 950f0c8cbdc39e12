------------------------------- MODULE Matrix -------------------------------
(***************************************************************************)
(* The month a consultant edits, cell by cell                              *)
(* (apps/web/src/features/cra/matrix.ts): a row per activity, a column per *)
(* day, quarter-days in the cells; what the tools of the grid do to it and *)
(* what its totals say of it.  The rules of the server that the totals     *)
(* announce are those of Timesheet.                                        *)
(* A definition that ends in _ and a defect is the faulty variant that the *)
(* mutation runs put in the place of the one it is named after.            *)
(***************************************************************************)
EXTENDS Naturals, SequencesExt

CONSTANTS
    Missions,     \* missions a line may name
    Offered,      \* data.missions: those the grid offers, in its order
    Absence,      \* ABSENCE_ROW_KEY
    MonthDays,    \* the days of the month
    Workable,     \* those the calendar says are workable
    Assignable,   \* assignableDays of each mission offered
    Weeks,        \* calendarWeeks: the slices of the month a screen shows
    None

ASSUME RowsAssumption ==
    /\ IsFiniteSet(Missions)
    /\ Offered \in Seq(Missions) /\ IsInjective(Offered)
    /\ Absence \notin Missions
    /\ None \notin Missions \cup {"overbooked", "incomplete"}
ASSUME MonthAssumption ==
    /\ IsFiniteSet(MonthDays)
    /\ Workable \subseteq MonthDays
    /\ Assignable \in [ ToSet(Offered) -> SUBSET MonthDays ]
    /\ Weeks \subseteq SUBSET MonthDays

FullDay == 4

Lines == [ day : MonthDays, mission : Missions \cup {None}, quarterDays : 1 .. FullDay ]

\* A map with other entries set, the new value first.
f ++ g == [ at \in DOMAIN f \cup DOMAIN g |-> IF at \in DOMAIN f THEN f[at] ELSE g[at] ]

\* filter: what of a sequence is in a set, in its order.
Kept(seq, set) ==
    LET upTo[n \in 0 .. Len(seq)] ==
            IF n = 0 THEN << >>
            ELSE IF seq[n] \in set THEN Append(upTo[n - 1], seq[n]) ELSE upTo[n - 1]
    IN upTo[Len(seq)]

RowOf(line) == IF line.mission = None THEN Absence ELSE line.mission

\* A row per mission with a recorded quarter, those no longer offered after the others,
\* and Absence always.
InitMatrix(lines) ==
    LET carried == { line.mission : line \in lines } \ {None}
        key(line) == << RowOf(line), line.day >>
    IN [ rows  |-> Kept(Offered, carried) \o SetToSeq(carried \ ToSet(Offered)) \o << Absence >>,
         cells |-> [ at \in { key(line) : line \in lines } |->
                       (CHOOSE line \in lines : key(line) = at).quarterDays ] ]

ValueAt(matrix, row, day) ==
    IF << row, day >> \in DOMAIN matrix.cells THEN matrix.cells[<< row, day >>] ELSE 0

Cleared(cells, gone) == [ at \in (DOMAIN cells) \ gone |-> cells[at] ]

WithValue(matrix, row, day, value) ==
    [ matrix EXCEPT !.cells = IF value = 0
                              THEN Cleared(@, { << row, day >> })
                              ELSE [ at \in { << row, day >> } |-> value ] ++ @ ]

\* A row comes just before Absence.
AddRow(matrix, row) ==
    IF row \in ToSet(matrix.rows) THEN matrix
    ELSE [ matrix EXCEPT !.rows = Kept(@, ToSet(@) \ {Absence}) \o << row, Absence >> ]

ClearRow(matrix, row) ==
    [ matrix EXCEPT !.cells = Cleared(@, {row} \X MonthDays) ]

RemoveRow(matrix, row) ==
    [ ClearRow(matrix, row) EXCEPT !.rows = Kept(@, ToSet(@) \ {row}) ]

DayTotal(matrix, day) ==
    MapThenSumSet(LAMBDA at : matrix.cells[at], { at \in DOMAIN matrix.cells : at[2] = day })

\* A full day on every workable day the row may be given and nothing is entered on.
FillEmptyWorkdays(matrix, row, workableDays, assignableDays) ==
    LET filled == { day \in workableDays \cap assignableDays : DayTotal(matrix, day) = 0 }
    IN [ matrix EXCEPT !.cells = [ at \in {row} \X filled |-> FullDay ] ++ @ ]

RowTotal(matrix, row, days) == MapThenSumSet(LAMBDA day : ValueAt(matrix, row, day), days)

IsDayOverbooked_OrFull(matrix, day) == DayTotal(matrix, day) >= FullDay
IsDayOverbooked(matrix, day) == DayTotal(matrix, day) > FullDay

IsDayIncomplete(matrix, day, flaggedByServer) ==
    /\ DayTotal(matrix, day) < FullDay
    /\ DayTotal(matrix, day) > 0 \/ flaggedByServer

IsDayComplete(matrix, day) == DayTotal(matrix, day) = FullDay

IsRowEmpty(matrix, row, days) == RowTotal(matrix, row, days) = 0

\* One entry per cell.
EntriesFromMatrix(matrix) ==
    { [ day |-> at[2], mission |-> IF at[1] = Absence THEN None ELSE at[1],
        quarterDays |-> matrix.cells[at] ] : at \in DOMAIN matrix.cells }

-----------------------------------------------------------------------------
(* The screen around it.                                                   *)

\* The days a row's cells can be given: any for Absence, none for a mission the grid no
\* longer offers.
AssignableOn(row) ==
    CASE row = Absence           -> MonthDays
      [] row \in ToSet(Offered)  -> Assignable[row]
      [] OTHER                   -> {}

\* The colour of a day's column and total: red a day the save will be refused for, amber a
\* workable day the submission will.
TotalTone(matrix, day, missingDays) ==
    CASE IsDayOverbooked(matrix, day) -> "overbooked"
      [] day \in Workable /\ IsDayIncomplete(matrix, day, day \in missingDays) -> "incomplete"
      [] OTHER -> None

\* The progress bar.
CompleteWorkableDays(matrix) == { day \in Workable : IsDayComplete(matrix, day) }

\* A mission of the previous month, its row added if need be; it is not listed, and changes
\* nothing, if no day is left to it.
CopiedOnto(matrix, mission) ==
    LET filled == FillEmptyWorkdays(AddRow(matrix, mission), mission, Workable,
                                    Assignable[mission])
    IN IF Cardinality(DOMAIN filled.cells) > Cardinality(DOMAIN matrix.cells)
       THEN filled ELSE matrix

\* Each mission is planned on the month as it stands, not on the plan so far.
PlanCopyPreviousMonth_Apart(matrix, worked) ==
    FoldLeft(LAMBDA plan, mission :
               [ rows  |-> AddRow(plan, mission).rows,
                 cells |-> plan.cells @@ CopiedOnto(matrix, mission).cells ],
             matrix, SelectSeq(Offered, LAMBDA mission : mission \in worked))

\* The preview's plan, which its confirmation applies: mission by mission, in order.
PlanCopyPreviousMonth(matrix, worked) ==
    LET plan[n \in 0 .. Len(Offered)] ==
            IF n = 0 THEN matrix
            ELSE IF Offered[n] \in worked THEN CopiedOnto(plan[n - 1], Offered[n])
            ELSE plan[n - 1]
    IN plan[Len(Offered)]

\* A row of the phone's week, added if need be.
WeekFilled(matrix, row, week) ==
    FillEmptyWorkdays(AddRow(matrix, row), row, week \cap Workable, AssignableOn(row))

-----------------------------------------------------------------------------
(* What the server accepts: Cra.recordDay, then runSubmissionChecks.       *)

QuarterDaysOn(lines, day) ==
    MapThenSumSet(LAMBDA line : line.quarterDays, { line \in lines : line.day = day })

Recordable(lines) == \A day \in MonthDays : QuarterDaysOn(lines, day) <= FullDay

MissingDays(lines) == { day \in Workable : QuarterDaysOn(lines, day) < FullDay }

=============================================================================
