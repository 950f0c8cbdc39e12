------------------------------ MODULE GridSync ------------------------------
(***************************************************************************)
(* A consultant edits a month in the browser (apps/web/src/features/cra):  *)
(* the grid keeps the unsaved edits, the query cache the server's last     *)
(* answer, and every render decides what a new answer does to the edits    *)
(* (grid-resync.ts).  One tab is modelled; the other tabs, the manager and *)
(* a PUT whose screen is gone are Elsewhere.  The server is the object of  *)
(* CraLifecycle as one tab sees it.                                        *)
(*                                                                         *)
(* The cells and the tools of the grid are those of Matrix.  React renders *)
(* after every update, so an action is an update and its Render.           *)
(***************************************************************************)
EXTENDS Matrix

CONSTANTS
    First,       \* the lines of the month when the screen opens
    Others,      \* the lines another writer may leave
    Entered,     \* the quarter-days the consultant enters in a cell; 0 empties it
    Previous,    \* the missions worked in the previous month
    MaxEdits,    \* bound on the edits of the grid
    MaxWrites    \* bound on the writes that reach the server

ASSUME LinesAssumption  == First \in SUBSET Lines /\ Others \subseteq SUBSET Lines
ASSUME EntryAssumption  == Entered \subseteq 0 .. FullDay /\ Previous \subseteq Missions
ASSUME BoundsAssumption == MaxEdits \in Nat /\ MaxWrites \in Nat

VARIABLES
    server,    \* the month as stored, and who wrote it last
    writes,    \* how many writes reached it
    data,      \* the query's data, stamped so that two references can be told apart
    fetch,     \* the grid query's request
    mounted,   \* CraGridBody is on the screen
    grid,      \* useCraDraft's state
    save,      \* useSaveMonth's mutation
    awaited,   \* the mutation's onSuccess awaits the query's present request
    edits,     \* how many edits were made
    wanted,    \* history: what the consultant entered and no write stored
    mishaps    \* history: the kinds of request that failed, and a copy under a save

vars == << server, writes, data, fetch, mounted, grid, save, awaited, edits, wanted, mishaps >>

Months   == [ lines : SUBSET Lines, editable : BOOLEAN ]
Versions == [ month : Months, by : {"self", "other"} ]
Answers  == [ version : Versions, stamp : 0 .. MaxWrites ]

NoFetch  == [ state |-> "none" ]
Asked    == [ state |-> "asked" ]
Paused   == [ state |-> "paused" ]
Answered(version) == [ state |-> "answered", version |-> version ]

NoSave   == [ stage |-> "idle" ]
Refused(days) == [ stage |-> "refused", missingDays |-> days ]
Pending(mutation) == mutation.stage \in {"sent", "applied", "refetching"}

\* What the alert of a refused submission names (missing-days.ts).
MissingShown == IF save.stage = "refused" THEN save.missingDays ELSE {}

\* createDraftState(initMatrix(answer)), synced with it.
Opened(answer) ==
    [ synced |-> answer, matrix |-> InitMatrix(answer.version.month.lines), dirty |-> FALSE,
      undo |-> None, conflict |-> None ]

Init ==
    /\ server = [ month |-> [ lines |-> First, editable |-> TRUE ], by |-> "other" ]
    /\ writes = 0
    /\ data = [ version |-> server, stamp |-> 0 ]
    /\ fetch = NoFetch
    /\ mounted = TRUE
    /\ grid = Opened(data)
    /\ save = NoSave
    /\ awaited = FALSE
    /\ edits = 0
    /\ wanted = None
    /\ mishaps = {}

-----------------------------------------------------------------------------
(* A definition that ends in _ and a defect is the faulty variant that the *)
(* mutation runs put in the place of the one it is named after.            *)

Decision_DirtyIgnored(g, answer, pending) ==
    IF answer = g.synced THEN "unchanged" ELSE "adopt"

Decision_FirstConflictKept(g, answer, pending) ==
    IF answer = g.synced THEN "unchanged"
    ELSE IF ~ g.dirty \/ pending THEN "adopt"
    ELSE IF g.conflict # None THEN "unchanged" ELSE "holdAsConflict"

\* decideGridResync, its cases in order.
Decision(g, answer, pending) ==
    IF answer = g.synced THEN "unchanged"
    ELSE IF ~ g.dirty \/ pending THEN "adopt"
    ELSE IF answer = g.conflict THEN "unchanged" ELSE "holdAsConflict"

Resync(g, answer, pending) ==
    LET decision == Decision(g, answer, pending) IN
    CASE decision = "adopt"          -> Opened(answer)
      [] decision = "holdAsConflict" -> [ g EXCEPT !.conflict = answer ]
      [] OTHER                       -> g

\* The state g rendered with what the query and the mutation are after the step.
Render(g) == grid' = Resync(g, data', Pending(save'))

\* Structural sharing: an answer equal to the data keeps the data's reference.
Shared(version) ==
    IF version.month = data.version.month THEN data
    ELSE [ version |-> version, stamp |-> data.stamp + 1 ]

-----------------------------------------------------------------------------
(* The month's other writers, and its query.                               *)

\* A save from another tab, a submission, or a decision of the manager.
Elsewhere(month) ==
    /\ writes < MaxWrites
    /\ month # server.month
    /\ server.month.editable \/ month.lines = server.month.lines
    /\ server' = [ month |-> month, by |-> "other" ]
    /\ writes' = writes + 1
    /\ UNCHANGED << data, fetch, mounted, grid, save, awaited, edits, wanted, mishaps >>

\* A persona picked in another tab, a network that is back, a retry: the request in
\* flight is cancelled, which resolves whatever awaited it, and a new one starts.
Refetch ==
    /\ fetch' = Asked
    /\ awaited' = FALSE
    /\ UNCHANGED << server, writes, data, mounted, grid, save, edits, wanted, mishaps >>

Read ==
    /\ fetch = Asked
    /\ fetch' = Answered(server)
    /\ UNCHANGED << server, writes, data, mounted, grid, save, awaited, edits, wanted, mishaps >>

\* Offline, a request waits, and nothing awaits it any more.
Pause ==
    /\ fetch = Asked
    /\ fetch' = Paused
    /\ awaited' = FALSE
    /\ UNCHANGED << server, writes, data, mounted, grid, save, edits, wanted, mishaps >>

Arrive ==
    /\ fetch.state = "answered"
    /\ data' = Shared(fetch.version)
    /\ fetch' = NoFetch
    /\ awaited' = FALSE
    /\ mounted' = TRUE
    /\ IF mounted THEN UNCHANGED save /\ Render(grid)
                  ELSE save' = NoSave /\ grid' = Opened(data')
    /\ UNCHANGED << server, writes, edits, wanted, mishaps >>

\* A query in error shows ErrorState or DeniedState in the place of the grid, whose
\* state is gone; its PUT, if one is in flight, is from elsewhere now.
FetchFails ==
    /\ fetch.state \in {"asked", "answered"}
    /\ fetch' = NoFetch
    /\ awaited' = FALSE
    /\ mounted' = FALSE
    /\ grid' = Opened(data)
    /\ save' = NoSave
    /\ mishaps' = mishaps \cup {"refetch"}
    /\ UNCHANGED << server, writes, data, edits, wanted >>

-----------------------------------------------------------------------------
(* The consultant.                                                         *)

CanEdit == mounted /\ data.version.month.editable /\ ~ Pending(save)

\* What the reducer leaves of the grid, rendered.
Dispatch(g) ==
    /\ wanted' = EntriesFromMatrix(g.matrix)
    /\ UNCHANGED << server, writes, data, fetch, mounted, save, awaited >>
    /\ Render(g)

Counted == edits < MaxEdits /\ edits' = edits + 1

Edit(matrix) ==
    /\ CanEdit
    /\ Counted
    /\ UNCHANGED mishaps
    /\ Dispatch([ grid EXCEPT !.matrix = matrix, !.dirty = TRUE ])

EditWithUndo(matrix) ==
    /\ CanEdit
    /\ Counted
    /\ UNCHANGED mishaps
    /\ Dispatch([ grid EXCEPT !.matrix = matrix, !.dirty = TRUE, !.undo = grid.matrix ])

Rows == ToSet(grid.matrix.rows)

\* Chosen in the cell's list or typed as a digit; a cell that is not assignable is inert.
SetCell(row, day, value) ==
    /\ day \in AssignableOn(row)
    /\ Edit(WithValue(grid.matrix, row, day, value))

AddActivity(mission) == Edit(AddRow(grid.matrix, mission))

RemoveActivity(row) ==
    /\ row # Absence
    /\ IsRowEmpty(grid.matrix, row, MonthDays)
    /\ Edit(RemoveRow(grid.matrix, row))

FillRow(row) ==
    EditWithUndo(FillEmptyWorkdays(grid.matrix, row, Workable, AssignableOn(row)))

EmptyRow(row) == EditWithUndo(ClearRow(grid.matrix, row))

\* The phone's "fill this week", disabled when there is nothing to fill.
FillWeek(row, week) ==
    LET filled == WeekFilled(grid.matrix, row, week) IN
    /\ DOMAIN filled.cells # DOMAIN grid.matrix.cells
    /\ EditWithUndo(filled)

\* The confirmation of the preview.  The phone offers it by the month's status, on an empty
\* month, whether or not a save is pending.
CopyPreviousMonth ==
    LET plan == PlanCopyPreviousMonth(grid.matrix, Previous) IN
    /\ mounted
    /\ data.version.month.editable
    /\ Pending(save) => DOMAIN grid.matrix.cells = {}
    /\ DOMAIN plan.cells # DOMAIN grid.matrix.cells
    /\ Counted
    /\ mishaps' = IF Pending(save) THEN mishaps \cup {"copy"} ELSE mishaps
    /\ Dispatch([ grid EXCEPT !.matrix = plan, !.dirty = TRUE, !.undo = grid.matrix ])

Undo ==
    /\ CanEdit
    /\ grid.undo # None
    /\ UNCHANGED << edits, mishaps >>
    /\ Dispatch([ grid EXCEPT !.matrix = grid.undo, !.dirty = TRUE, !.undo = None ])

DiscardEditsAndReload ==
    /\ mounted
    /\ grid.conflict # None
    /\ wanted' = None
    /\ UNCHANGED << server, writes, data, fetch, mounted, save, awaited, edits, mishaps >>
    /\ Render(Opened(grid.conflict))

KeepEdits ==
    /\ mounted
    /\ grid.conflict # None
    /\ UNCHANGED << server, writes, data, fetch, mounted, save, awaited, edits, wanted, mishaps >>
    /\ Render([ grid EXCEPT !.synced = grid.conflict, !.conflict = None ])

-----------------------------------------------------------------------------
(* A save: mutateAsync, the server, onSuccess, and what follows the await. *)

Save(submit) ==
    /\ CanEdit
    /\ save' = [ stage |-> "sent", body |-> EntriesFromMatrix(grid.matrix), submit |-> submit ]
    /\ UNCHANGED << server, writes, data, fetch, mounted, awaited, edits, wanted, mishaps >>
    /\ Render(grid)

Accepted(body, submit) == Recordable(body) /\ (submit => MissingDays(body) = {})

\* The PUT replaces the month (RecordMonth of Timesheet).
Apply ==
    /\ save.stage = "sent"
    /\ server.month.editable
    /\ Accepted(save.body, save.submit)
    /\ writes < MaxWrites
    /\ server' = [ month |-> [ lines |-> save.body, editable |-> ~ save.submit ],
                   by |-> "self" ]
    /\ writes' = writes + 1
    /\ save' = [ save EXCEPT !.stage = "applied" ]
    /\ wanted' = IF wanted = save.body THEN None ELSE wanted
    /\ UNCHANGED << data, fetch, mounted, grid, awaited, edits, mishaps >>

\* A day that does not add up is refused; a refused submission names the days.
RefuseSave ==
    /\ save.stage = "sent"
    /\ server.month.editable
    /\ ~ Accepted(save.body, save.submit)
    /\ save' = Refused(IF Recordable(save.body) THEN MissingDays(save.body) ELSE {})
    /\ mishaps' = mishaps \cup {"save"}
    /\ UNCHANGED << server, writes, data, fetch, mounted, awaited, edits, wanted >>
    /\ Render(grid)

\* Another refusal, a request or an answer lost: the mutation is in error.
SaveFails ==
    /\ save.stage \in {"sent", "applied"}
    /\ save' = NoSave
    /\ mishaps' = mishaps \cup {"save"}
    /\ UNCHANGED << server, writes, data, fetch, mounted, awaited, edits, wanted >>
    /\ Render(grid)

\* onSuccess invalidates the grid's query and awaits its request.
Invalidate ==
    /\ save.stage = "applied"
    /\ save' = [ save EXCEPT !.stage = "refetching" ]
    /\ fetch' = Asked
    /\ awaited' = TRUE
    /\ UNCHANGED << server, writes, data, mounted, grid, edits, wanted, mishaps >>

\* The mutation succeeds and save() goes on to markSaved.
MarkSaved ==
    /\ save.stage = "refetching"
    /\ ~ awaited
    /\ save' = NoSave
    /\ UNCHANGED << server, writes, data, fetch, mounted, awaited, edits, wanted, mishaps >>
    /\ Render([ grid EXCEPT !.dirty = FALSE ])

Next ==
    \/ \E lines \in Others \cup {server.month.lines}, editable \in BOOLEAN :
         Elsewhere([ lines |-> lines, editable |-> editable ])
    \/ Refetch \/ Read \/ Pause \/ Arrive \/ FetchFails
    \/ \E row \in Rows, day \in MonthDays, value \in Entered : SetCell(row, day, value)
    \/ \E mission \in ToSet(Offered) \ Rows : AddActivity(mission)
    \/ \E row \in Rows : RemoveActivity(row) \/ FillRow(row) \/ EmptyRow(row)
    \/ \E row \in ToSet(Offered) \cup {Absence}, week \in Weeks : FillWeek(row, week)
    \/ CopyPreviousMonth \/ Undo \/ DiscardEditsAndReload \/ KeepEdits
    \/ \E submit \in BOOLEAN : Save(submit)
    \/ Apply \/ RefuseSave \/ SaveFails \/ Invalidate \/ MarkSaved

Spec == Init /\ [][Next]_vars

-----------------------------------------------------------------------------
(* Properties.                                                             *)

\* Types of the stored month, the query, the grid's state and the mutation.
IsMatrix(matrix) ==
    /\ matrix.rows \in Seq(Missions \cup {Absence})
    /\ DOMAIN matrix.cells \subseteq (Missions \cup {Absence}) \X MonthDays
    /\ \A at \in DOMAIN matrix.cells : matrix.cells[at] \in 1 .. FullDay

TypeOK ==
    /\ server \in Versions
    /\ writes \in 0 .. MaxWrites
    /\ data \in Answers
    /\ fetch \in {NoFetch, Asked, Paused} \cup [ state : {"answered"}, version : Versions ]
    /\ mounted \in BOOLEAN
    /\ IsMatrix(grid.matrix)
    /\ grid.undo = None \/ IsMatrix(grid.undo)
    /\ grid.synced \in Answers /\ grid.dirty \in BOOLEAN
    /\ grid.conflict \in Answers \cup {None}
    /\ \/ save = NoSave
       \/ save.stage = "refused" /\ save.missingDays \subseteq Workable
       \/ save \in [ stage : {"sent", "applied", "refetching"},
                     body : SUBSET Lines, submit : BOOLEAN ]
    /\ awaited \in BOOLEAN
    /\ edits \in 0 .. MaxEdits
    /\ wanted \in (SUBSET Lines) \cup {None}
    /\ mishaps \subseteq {"save", "refetch", "copy"}

\* What the consultant entered is neither in the grid, nor on its way, nor stored.
Lost ==
    /\ wanted # None
    /\ ~ (mounted /\ EntriesFromMatrix(grid.matrix) = wanted)
    /\ ~ (save.stage = "sent" /\ save.body = wanted)

\* Whatever arrives, and whoever else writes, edits are given up by the consultant or
\* stored: they are never lost while no request fails (grid-resync.ts), unless a copy was
\* confirmed under a save.
LostOnlyByMishap == Lost => mishaps # {}

\* What the grid shows beside the newest answer agrees with it: a grid without edits was
\* built from that answer (ADR-0067), and a conflict on the screen is with that answer and
\* about edits, so that "reload" never shows what is already superseded (use-cra-draft.ts).
GridFollowsAnswers ==
    mounted =>
        /\ ~ grid.dirty => grid.synced = data
        /\ grid.conflict # None => grid.conflict = data /\ grid.dirty /\ grid.synced # data

Fills ==
    \/ \E row \in Rows : FillRow(row)
    \/ \E row \in ToSet(Offered) \cup {Absence}, week \in Weeks : FillWeek(row, week)
    \/ CopyPreviousMonth

\* What a day carried stays, and what it is given is all it carries.
SafelyFilled(old, new) ==
    \A day \in MonthDays :
      LET before == EntriesFromMatrix(old)
          after  == EntriesFromMatrix(new)
          added  == { line \in after \ before : line.day = day }
      IN /\ before \subseteq after
         /\ added # {} => /\ QuarterDaysOn(before, day) = 0
                          /\ QuarterDaysOn(after, day) = FullDay
                          /\ day \in Workable
                          /\ \A line \in added : day \in AssignableOn(RowOf(line))

\* Filling a row, a week or the month from the previous one never touches a day that already
\* carries anything, on any row, never overbooks a day, and gives a row no day it may not be
\* given, whatever was entered, removed or undone before (matrix.ts, ADR-0070).
FillsAreSafe ==
    [][ mounted' /\ grid'.dirty /\ Fills => SafelyFilled(grid.matrix, grid'.matrix) ]_vars

\* What the grid shows is what a save would send: each quarter-day is on a row that is
\* visible, each row visible once and Absence last; a column is red exactly if the server
\* would refuse the save, the progress bar is full and no column red exactly if it would
\* find the month complete (cra-matrix-table.tsx, cra.ts, submission-checks.ts), and the
\* answer reopens the same cells.
SentAsShown ==
    mounted =>
        LET matrix == grid.matrix
            lines  == EntriesFromMatrix(matrix)
            red    == { day \in MonthDays : TotalTone(matrix, day, MissingShown) = "overbooked" }
        IN /\ { RowOf(line) : line \in lines } \subseteq Rows
           /\ IsInjective(matrix.rows) /\ Last(matrix.rows) = Absence
           /\ Recordable(lines) <=> (red = {})
           /\ Recordable(lines) /\ MissingDays(lines) = {}
                <=> (red = {} /\ CompleteWorkableDays(matrix) = Workable)
           /\ InitMatrix(lines).cells = matrix.cells

\* A save that fails leaves the edits in the grid: adopting an answer meanwhile discards
\* nothing (grid-resync.ts, on savePending).
FailedSaveKeepsEdits == Lost => "refetch" \in mishaps

\* A refetch that fails leaves the edits in the grid (ADR-0112, ADR-0113).
FailedRefetchKeepsEdits == Lost => "save" \in mishaps

\* The consultant is never told that their own saved month conflicts with their edits
\* (ADR-0113).
OwnSaveIsNoConflict ==
    mishaps = {} /\ mounted /\ grid.conflict # None => grid.conflict.version.by = "other"

-----------------------------------------------------------------------------
(* The inductive invariant of LostOnlyByMishap and GridFollowsAnswers.     *)

\* What the reducers and the mutation keep, whatever the cells hold.
GridShape ==
    /\ grid = [ synced |-> grid.synced, matrix |-> grid.matrix, dirty |-> grid.dirty,
                undo |-> grid.undo, conflict |-> grid.conflict ]
    /\ grid.dirty \in BOOLEAN
    /\ Pending(save) =>
         save = [ stage |-> save.stage, body |-> save.body, submit |-> save.submit ]

\* Structural sharing stamps the answers in the order they arrive, so that the answer the
\* grid was built from never comes back as another one.
Stamped ==
    /\ data = [ version |-> data.version, stamp |-> data.stamp ]
    /\ data.stamp \in Nat
    /\ grid.synced.stamp \in Nat /\ grid.synced.stamp <= data.stamp

\* The screen is gone only after a refetch failed, and its save with it.
GoneByMishap == (mishaps = {} => mounted) /\ (Pending(save) => mounted)

\* Where the consultant's entries are while no request has failed: on their way, or in the
\* grid, which is then dirty and not disturbed by an answer.
EditsKept ==
    mishaps = {} /\ wanted # None =>
        IF Pending(save)
        THEN save.stage = "sent" /\ save.body = wanted
        ELSE grid.dirty /\ EntriesFromMatrix(grid.matrix) = wanted

GridInv == GridShape /\ Stamped /\ GridFollowsAnswers /\ GoneByMishap /\ EditsKept

-----------------------------------------------------------------------------
(* The inductive invariant of SentAsShown and FillsAreSafe.                *)

\* Every row visible once and Absence last, every cell filled on a visible row.
IsGrid(matrix) ==
    /\ matrix = [ rows |-> matrix.rows, cells |-> matrix.cells ]
    /\ matrix.rows \in Seq(Missions \cup {Absence})
    /\ IsInjective(matrix.rows)
    /\ matrix.rows # << >> /\ Last(matrix.rows) = Absence
    /\ matrix.cells \in [ DOMAIN matrix.cells -> 1 .. FullDay ]
    /\ DOMAIN matrix.cells \subseteq ToSet(matrix.rows) \X MonthDays

\* The grid, the one an undo goes back to, and the lines another may be opened from.
CellsInv ==
    /\ IsGrid(grid.matrix)
    /\ grid.undo # None => IsGrid(grid.undo)
    /\ server.month.lines \subseteq Lines /\ data.version.month.lines \subseteq Lines
    /\ fetch.state = "answered" => fetch.version.month.lines \subseteq Lines
    /\ grid.conflict # None => grid.conflict.version.month.lines \subseteq Lines
    /\ Pending(save) => save.body \subseteq Lines

=============================================================================
