--------------------------- MODULE GridSyncProofs ---------------------------
(***************************************************************************)
(* Theorems about GridSync, for every month, every offer of missions,      *)
(* whatever is entered, answered, refused, lost or written elsewhere, and  *)
(* however long it goes on: the grid follows the answers, no edit is lost  *)
(* while no request fails, what is shown is what is sent, and no fill of   *)
(* the grid overbooks a day.                                               *)
(***************************************************************************)
EXTENDS GridSync, FiniteSetTheorems, SequenceTheorems, WellFoundedInduction, TLAPS

(***************************************************************************)
(* What a render does to the state it is given.                            *)
(***************************************************************************)

\* The state of useCraDraft: what the reducers and decideGridResync rely on.
IsState(g) ==
    /\ g = [ synced |-> g.synced, matrix |-> g.matrix, dirty |-> g.dirty,
             undo |-> g.undo, conflict |-> g.conflict ]
    /\ g.dirty \in BOOLEAN

\* The cases of decideGridResync and what they make of the state.
LEMMA Resynced ==
    ASSUME NEW g, IsState(g), NEW answer, NEW pending \in BOOLEAN
    PROVE  \/ answer = g.synced /\ Resync(g, answer, pending) = g
           \/ /\ answer # g.synced /\ (~ g.dirty \/ pending)
              /\ Resync(g, answer, pending) = Opened(answer)
           \/ /\ answer # g.synced /\ g.dirty /\ ~ pending
              /\ Resync(g, answer, pending)
                   = [ synced |-> g.synced, matrix |-> g.matrix, dirty |-> g.dirty,
                       undo |-> g.undo, conflict |-> answer ]
<1>1. CASE answer = g.synced
  BY <1>1 DEF Resync, Decision
<1>2. CASE answer # g.synced /\ (~ g.dirty \/ pending)
  BY <1>2 DEF Resync, Decision
<1>3. CASE answer # g.synced /\ g.dirty /\ ~ pending /\ answer = g.conflict
  BY <1>3 DEF Resync, Decision, IsState
<1>4. CASE answer # g.synced /\ g.dirty /\ ~ pending /\ answer # g.conflict
  <2>1. Resync(g, answer, pending) = [ g EXCEPT !.conflict = answer ]
    BY <1>4 DEF Resync, Decision
  <2> QED
    BY <1>4, <2>1 DEF IsState
<1> QED
  BY <1>1, <1>2, <1>3, <1>4

\* Opened(answer) is a state without edits, built from that answer.
LEMMA OpenedFacts ==
    ASSUME NEW answer
    PROVE  /\ IsState(Opened(answer))
           /\ Opened(answer).synced = answer /\ ~ Opened(answer).dirty
           /\ Opened(answer).conflict = None
  BY DEF Opened, IsState

\* What the reducers' updates are, field by field.
LEMMA Reduced ==
    ASSUME NEW g, IsState(g), NEW matrix, NEW answer, NEW conflict
    PROVE  /\ [ g EXCEPT !.matrix = matrix, !.dirty = TRUE ]
                = [ synced |-> g.synced, matrix |-> matrix, dirty |-> TRUE,
                    undo |-> g.undo, conflict |-> g.conflict ]
           /\ [ g EXCEPT !.synced = answer, !.conflict = conflict ]
                = [ synced |-> answer, matrix |-> g.matrix, dirty |-> g.dirty,
                    undo |-> g.undo, conflict |-> conflict ]
           /\ [ g EXCEPT !.dirty = FALSE ]
                = [ synced |-> g.synced, matrix |-> g.matrix, dirty |-> FALSE,
                    undo |-> g.undo, conflict |-> g.conflict ]
<1>1. g \in [ synced : {g.synced}, matrix : {g.matrix}, dirty : {g.dirty},
               undo : {g.undo}, conflict : {g.conflict} ]
  BY DEF IsState
<1>2. [ g EXCEPT !.matrix = matrix, !.dirty = TRUE ]
        = [ synced |-> g.synced, matrix |-> matrix, dirty |-> TRUE,
            undo |-> g.undo, conflict |-> g.conflict ]
  <2>1. PICK new : new = [ g EXCEPT !.matrix = matrix, !.dirty = TRUE ]
    OBVIOUS
  <2>2. new = [ synced |-> g.synced, matrix |-> matrix, dirty |-> TRUE,
                undo |-> g.undo, conflict |-> g.conflict ]
    BY <1>1, <2>1
  <2> QED
    BY <2>1, <2>2
<1>3. [ g EXCEPT !.synced = answer, !.conflict = conflict ]
        = [ synced |-> answer, matrix |-> g.matrix, dirty |-> g.dirty,
            undo |-> g.undo, conflict |-> conflict ]
  <2>1. PICK new : new = [ g EXCEPT !.synced = answer, !.conflict = conflict ]
    OBVIOUS
  <2>2. new = [ synced |-> answer, matrix |-> g.matrix, dirty |-> g.dirty,
                undo |-> g.undo, conflict |-> conflict ]
    BY <1>1, <2>1
  <2> QED
    BY <2>1, <2>2
<1>4. [ g EXCEPT !.dirty = FALSE ]
        = [ synced |-> g.synced, matrix |-> g.matrix, dirty |-> FALSE,
            undo |-> g.undo, conflict |-> g.conflict ]
  <2>1. PICK new : new = [ g EXCEPT !.dirty = FALSE ]
    OBVIOUS
  <2>2. new = [ synced |-> g.synced, matrix |-> g.matrix, dirty |-> FALSE,
                undo |-> g.undo, conflict |-> g.conflict ]
    BY <1>1, <2>1
  <2> QED
    BY <2>1, <2>2
<1> QED
  BY <1>2, <1>3, <1>4

LEMMA ReducedWithUndo ==
    ASSUME NEW g, IsState(g), NEW matrix, NEW undo
    PROVE  [ g EXCEPT !.matrix = matrix, !.dirty = TRUE, !.undo = undo ]
             = [ synced |-> g.synced, matrix |-> matrix, dirty |-> TRUE,
                 undo |-> undo, conflict |-> g.conflict ]
<1>1. g \in [ synced : {g.synced}, matrix : {g.matrix}, dirty : {g.dirty},
               undo : {g.undo}, conflict : {g.conflict} ]
  BY DEF IsState
<1>2. PICK new : new = [ g EXCEPT !.matrix = matrix, !.dirty = TRUE, !.undo = undo ]
  OBVIOUS
<1>3. new = [ synced |-> g.synced, matrix |-> matrix, dirty |-> TRUE,
              undo |-> undo, conflict |-> g.conflict ]
  BY <1>1, <1>2
<1> QED
  BY <1>2, <1>3

\* A render keeps the shape and the stamps, makes the grid follow the answer, and leaves the
\* edits alone unless a save is pending.
LEMMA Rendered ==
    ASSUME NEW g, IsState(g), Render(g),
           data' = [ version |-> data'.version, stamp |-> data'.stamp ],
           data'.stamp \in Nat,
           g.synced.stamp \in Nat, g.synced.stamp <= data'.stamp,
           data' = g.synced => g.conflict = None,
           Pending(save') =>
             save' = [ stage |-> save'.stage, body |-> save'.body, submit |-> save'.submit ]
    PROVE  /\ GridShape' /\ Stamped' /\ GridFollowsAnswers'
           /\ g.dirty /\ ~ Pending(save') => grid'.dirty /\ grid'.matrix = g.matrix
<1>0. Pending(save') \in BOOLEAN /\ grid' = Resync(g, data', Pending(save'))
  BY DEF Render, Pending
<1>1. CASE data' = g.synced /\ grid' = g
  <2>1. GridShape'
    BY <1>1 DEF GridShape, IsState
  <2>2. Stamped' /\ GridFollowsAnswers'
    BY <1>1 DEF Stamped, GridFollowsAnswers
  <2> QED
    BY <1>1, <2>1, <2>2
<1>2. CASE data' # g.synced /\ (~ g.dirty \/ Pending(save')) /\ grid' = Opened(data')
  <2>1. /\ IsState(grid') /\ grid'.synced = data' /\ ~ grid'.dirty /\ grid'.conflict = None
    BY <1>2, OpenedFacts
  <2>2. GridShape'
    BY <2>1 DEF GridShape, IsState
  <2>3. Stamped' /\ GridFollowsAnswers'
    BY <2>1 DEF Stamped, GridFollowsAnswers
  <2> QED
    BY <1>2, <2>2, <2>3
<1>3. CASE /\ data' # g.synced /\ g.dirty /\ ~ Pending(save')
           /\ grid' = [ synced |-> g.synced, matrix |-> g.matrix, dirty |-> g.dirty,
                        undo |-> g.undo, conflict |-> data' ]
  <2>1. /\ grid'.synced = g.synced /\ grid'.dirty = g.dirty /\ grid'.conflict = data'
        /\ grid'.matrix = g.matrix
    BY <1>3
  <2>2. GridShape'
    BY <1>3, <2>1 DEF GridShape, IsState
  <2>3. Stamped' /\ GridFollowsAnswers'
    BY <1>3, <2>1 DEF Stamped, GridFollowsAnswers
  <2> QED
    BY <1>3, <2>1, <2>2, <2>3
<1> QED
  BY <1>0, <1>1, <1>2, <1>3, Resynced

(***************************************************************************)
(* The invariant, action by action.                                        *)
(***************************************************************************)

LEMMA GridInit == Init => GridInv
<1> SUFFICES ASSUME Init PROVE GridInv
  OBVIOUS
<1>1. /\ IsState(grid) /\ grid.synced = data /\ ~ grid.dirty /\ grid.conflict = None
  BY OpenedFacts DEF Init
<1>2. ~ Pending(save)
  BY DEF Init, Pending, NoSave
<1>3. GridShape /\ Stamped
  BY <1>1, <1>2 DEF GridShape, IsState, Stamped, Init
<1> QED
  BY <1>1, <1>2, <1>3 DEF GridInv, GridFollowsAnswers, GoneByMishap, EditsKept, Init

\* An edit: the state the reducer leaves is dirty and as far behind the answers as it was.
LEMMA DispatchKeeps ==
    ASSUME GridInv, mounted, NEW g, IsState(g), g.dirty, g.synced = grid.synced,
           g.conflict = grid.conflict, Dispatch(g),
           mishaps' = {} => ~ Pending(save) /\ mishaps = {}
    PROVE  GridInv'
<1>1. /\ UNCHANGED << data, mounted, save >> /\ Render(g)
      /\ wanted' = EntriesFromMatrix(g.matrix)
  BY DEF Dispatch
<1>2. Pending(save') <=> Pending(save)
  BY <1>1
<1>3. /\ GridShape' /\ Stamped' /\ GridFollowsAnswers'
      /\ ~ Pending(save') => grid'.dirty /\ grid'.matrix = g.matrix
  BY <1>1, <1>2, Rendered DEF GridInv, GridShape, Stamped, GridFollowsAnswers
<1>4. GoneByMishap'
  BY <1>1, <1>2 DEF GoneByMishap
<1>5. EditsKept'
  BY <1>1, <1>2, <1>3 DEF EditsKept
<1> QED
  BY <1>3, <1>4, <1>5 DEF GridInv

LEMMA EditKeeps ==
    ASSUME GridInv, NEW matrix, Edit(matrix) \/ EditWithUndo(matrix)
    PROVE  GridInv'
<1>0. IsState(grid)
  BY DEF GridInv, GridShape, IsState
<1>1. mounted /\ ~ Pending(save) /\ mishaps' = mishaps
  BY DEF Edit, EditWithUndo, CanEdit
<1>2. PICK undo : Dispatch([ synced |-> grid.synced, matrix |-> matrix, dirty |-> TRUE,
                             undo |-> undo, conflict |-> grid.conflict ])
  <2>1. CASE Edit(matrix)
    <3>1. [ grid EXCEPT !.matrix = matrix, !.dirty = TRUE ]
            = [ synced |-> grid.synced, matrix |-> matrix, dirty |-> TRUE,
                undo |-> grid.undo, conflict |-> grid.conflict ]
      BY <1>0, Reduced, Zenon
    <3> QED
      BY <2>1, <3>1 DEF Edit
  <2>2. CASE EditWithUndo(matrix)
    <3>1. [ grid EXCEPT !.matrix = matrix, !.dirty = TRUE, !.undo = grid.matrix ]
            = [ synced |-> grid.synced, matrix |-> matrix, dirty |-> TRUE,
                undo |-> grid.matrix, conflict |-> grid.conflict ]
      BY <1>0, ReducedWithUndo
    <3> QED
      BY <2>2, <3>1 DEF EditWithUndo
  <2> QED
    BY <2>1, <2>2
<1> DEFINE g == [ synced |-> grid.synced, matrix |-> matrix, dirty |-> TRUE,
                  undo |-> undo, conflict |-> grid.conflict ]
<1>3. /\ IsState(g) /\ g.dirty /\ g.synced = grid.synced /\ g.conflict = grid.conflict
      /\ Dispatch(g)
  BY <1>2 DEF IsState
<1> HIDE DEF g
<1> QED
  BY <1>1, <1>3, DispatchKeeps

LEMMA CopyKeeps == ASSUME GridInv, CopyPreviousMonth PROVE GridInv'
<1>0. IsState(grid)
  BY DEF GridInv, GridShape, IsState
<1> DEFINE plan == PlanCopyPreviousMonth(grid.matrix, Previous)
           g == [ synced |-> grid.synced, matrix |-> plan, dirty |-> TRUE,
                  undo |-> grid.matrix, conflict |-> grid.conflict ]
<1>1. /\ mounted
      /\ mishaps' = IF Pending(save) THEN mishaps \cup {"copy"} ELSE mishaps
      /\ Dispatch([ grid EXCEPT !.matrix = plan, !.dirty = TRUE, !.undo = grid.matrix ])
  BY DEF CopyPreviousMonth
<1> HIDE DEF plan
<1>2. [ grid EXCEPT !.matrix = plan, !.dirty = TRUE, !.undo = grid.matrix ] = g
  BY <1>0, ReducedWithUndo
<1>3. /\ IsState(g) /\ g.dirty /\ g.synced = grid.synced /\ g.conflict = grid.conflict
      /\ Dispatch(g)
  BY <1>1, <1>2 DEF IsState
<1>4. mishaps' = {} => ~ Pending(save) /\ mishaps = {}
  BY <1>1
<1> HIDE DEF g
<1> QED
  BY <1>1, <1>3, <1>4, DispatchKeeps

LEMMA UndoKeeps == ASSUME GridInv, Undo PROVE GridInv'
<1>0. IsState(grid)
  BY DEF GridInv, GridShape, IsState
<1> DEFINE g == [ synced |-> grid.synced, matrix |-> grid.undo, dirty |-> TRUE,
                  undo |-> None, conflict |-> grid.conflict ]
<1>1. /\ mounted /\ ~ Pending(save) /\ mishaps' = mishaps
      /\ Dispatch([ grid EXCEPT !.matrix = grid.undo, !.dirty = TRUE, !.undo = None ])
  BY DEF Undo, CanEdit
<1>2. [ grid EXCEPT !.matrix = grid.undo, !.dirty = TRUE, !.undo = None ] = g
  BY <1>0, ReducedWithUndo
<1>3. /\ IsState(g) /\ g.dirty /\ g.synced = grid.synced /\ g.conflict = grid.conflict
      /\ Dispatch(g)
  BY <1>1, <1>2 DEF IsState
<1> HIDE DEF g
<1> QED
  BY <1>1, <1>3, DispatchKeeps

\* The consultant's answer to a conflict.
LEMMA ConflictAnswerKeeps ==
    ASSUME GridInv, DiscardEditsAndReload \/ KeepEdits
    PROVE  GridInv'
<1>1. /\ mounted /\ grid.conflict # None /\ grid.conflict = data
      /\ UNCHANGED << data, mounted, save, mishaps >>
  BY DEF DiscardEditsAndReload, KeepEdits, GridInv, GridFollowsAnswers
<1>2. Pending(save') <=> Pending(save)
  BY <1>1
<1>3. CASE DiscardEditsAndReload
  <2>1. Render(Opened(data)) /\ wanted' = None
    BY <1>1, <1>3 DEF DiscardEditsAndReload
  <2>2. GridShape' /\ Stamped' /\ GridFollowsAnswers'
    BY <1>1, <2>1, OpenedFacts, Rendered DEF GridInv, GridShape, Stamped
  <2> QED
    BY <1>1, <1>2, <2>1, <2>2 DEF GridInv, GoneByMishap, EditsKept
<1>4. CASE KeepEdits
  <2> DEFINE g == [ synced |-> data, matrix |-> grid.matrix, dirty |-> grid.dirty,
                    undo |-> grid.undo, conflict |-> None ]
  <2>1. [ grid EXCEPT !.synced = grid.conflict, !.conflict = None ] = g
    BY <1>1, Reduced DEF GridInv, GridShape, IsState
  <2>2. Render(g) /\ wanted' = wanted
    BY <1>4, <2>1 DEF KeepEdits
  <2>3. /\ IsState(g) /\ g.synced = data /\ g.conflict = None
        /\ g.dirty = grid.dirty /\ g.matrix = grid.matrix
    BY DEF GridInv, GridShape, IsState
  <2> HIDE DEF g
  <2>4. /\ GridShape' /\ Stamped' /\ GridFollowsAnswers'
        /\ g.dirty /\ ~ Pending(save') => grid'.dirty /\ grid'.matrix = g.matrix
    BY <1>1, <2>2, <2>3, Rendered DEF GridInv, GridShape, Stamped
  <2> QED
    BY <1>1, <1>2, <2>2, <2>3, <2>4 DEF GridInv, GoneByMishap, EditsKept
<1> QED
  BY <1>3, <1>4

\* What leaves the answers, the screen and the grid alone: the other writers, the steps of a
\* request before its answer arrives, and those of the mutation that no render sees.
LEMMA UnseenKeeps ==
    ASSUME GridInv, UNCHANGED << data, mounted, grid, mishaps >>,
           \/ UNCHANGED << save, wanted >>
           \/ Apply
           \/ Invalidate
    PROVE  GridInv'
<1>1. CASE UNCHANGED << save, wanted >>
  BY <1>1 DEF GridInv, GridShape, Stamped, GridFollowsAnswers, GoneByMishap, EditsKept
<1>2. ASSUME NEW stage \in {"applied", "refetching"}, Pending(save),
             save' = [ save EXCEPT !.stage = stage ]
      PROVE  /\ Pending(save') /\ save'.stage = stage
             /\ save' = [ stage |-> save'.stage, body |-> save'.body, submit |-> save'.submit ]
  <2>1. PICK s, b, t : save = [ stage |-> s, body |-> b, submit |-> t ]
    BY <1>2 DEF GridInv, GridShape
  <2>2. save' = [ stage |-> stage, body |-> b, submit |-> t ]
    BY <1>2, <2>1
  <2> QED
    BY <1>2, <2>2 DEF Pending
<1>3. CASE Apply
  <2>1. /\ Pending(save) /\ save.stage = "sent"
        /\ save' = [ save EXCEPT !.stage = "applied" ]
        /\ wanted' = IF wanted = save.body THEN None ELSE wanted
    BY <1>3 DEF Apply, Pending
  <2>2. /\ Pending(save')
        /\ save' = [ stage |-> save'.stage, body |-> save'.body, submit |-> save'.submit ]
    BY <1>2, <2>1
  <2>3. GridShape' /\ Stamped' /\ GridFollowsAnswers' /\ GoneByMishap'
    BY <2>1, <2>2 DEF GridInv, GridShape, Stamped, GridFollowsAnswers, GoneByMishap
  <2>4. mishaps = {} => wanted' = None
    BY <2>1 DEF GridInv, EditsKept
  <2> QED
    BY <2>3, <2>4 DEF GridInv, EditsKept
<1>4. CASE Invalidate
  <2>1. /\ Pending(save) /\ save.stage = "applied"
        /\ save' = [ save EXCEPT !.stage = "refetching" ]
        /\ wanted' = wanted
    BY <1>4 DEF Invalidate, Pending
  <2>2. /\ Pending(save')
        /\ save' = [ stage |-> save'.stage, body |-> save'.body, submit |-> save'.submit ]
    BY <1>2, <2>1
  <2>3. GridShape' /\ Stamped' /\ GridFollowsAnswers' /\ GoneByMishap'
    BY <2>1, <2>2 DEF GridInv, GridShape, Stamped, GridFollowsAnswers, GoneByMishap
  <2>4. mishaps = {} => wanted' = None
    BY <2>1 DEF GridInv, EditsKept
  <2> QED
    BY <2>3, <2>4 DEF GridInv, EditsKept
<1> QED
  BY <1>1, <1>3, <1>4

\* An answer, and the failure of the request.
LEMMA ArriveKeeps == ASSUME GridInv, Arrive PROVE GridInv'
<1>1. /\ data' = [ version |-> data'.version, stamp |-> data'.stamp ]
      /\ data'.stamp \in Nat /\ data.stamp <= data'.stamp
      /\ data' = data \/ data'.stamp = data.stamp + 1
  BY DEF Arrive, Shared, GridInv, Stamped
<1>2. mounted' /\ UNCHANGED << wanted, mishaps >>
  BY DEF Arrive
<1>3. CASE mounted
  <2>1. save' = save /\ Render(grid)
    BY <1>3 DEF Arrive
  <2>2. Pending(save') <=> Pending(save)
    BY <2>1
  <2>3. data' = grid.synced => grid.conflict = None
    BY <1>1, <1>3 DEF GridInv, Stamped, GridFollowsAnswers
  <2>4. /\ IsState(grid) /\ grid.synced.stamp \in Nat /\ grid.synced.stamp <= data'.stamp
    BY <1>1 DEF GridInv, Stamped, GridShape, IsState
  <2>5. /\ GridShape' /\ Stamped' /\ GridFollowsAnswers'
        /\ grid.dirty /\ ~ Pending(save') => grid'.dirty /\ grid'.matrix = grid.matrix
    BY <1>1, <2>1, <2>2, <2>3, <2>4, Rendered DEF GridInv, GridShape
  <2> QED
    BY <1>2, <2>1, <2>2, <2>5 DEF GridInv, GoneByMishap, EditsKept
<1>4. CASE ~ mounted
  <2>1. save' = NoSave /\ grid' = Opened(data') /\ ~ Pending(save')
    BY <1>4 DEF Arrive, Pending, NoSave
  <2>2. /\ IsState(grid') /\ grid'.synced = data' /\ ~ grid'.dirty /\ grid'.conflict = None
    BY <2>1, OpenedFacts
  <2>3. GridShape' /\ Stamped' /\ GridFollowsAnswers'
    BY <1>1, <2>1, <2>2 DEF GridShape, IsState, Stamped, GridFollowsAnswers
  <2>4. mishaps # {}
    BY <1>4 DEF GridInv, GoneByMishap
  <2> QED
    BY <1>2, <2>1, <2>3, <2>4 DEF GridInv, GoneByMishap, EditsKept
<1> QED
  BY <1>3, <1>4

LEMMA FetchFailsKeeps == ASSUME GridInv, FetchFails PROVE GridInv'
<1>1. /\ ~ mounted' /\ save' = NoSave /\ grid' = Opened(data) /\ data' = data
      /\ mishaps' # {}
  BY DEF FetchFails
<1>2. ~ Pending(save')
  BY <1>1 DEF Pending, NoSave
<1>3. /\ IsState(grid') /\ grid'.synced = data
  BY <1>1, OpenedFacts
<1> QED
  BY <1>1, <1>2, <1>3
  DEF GridInv, GridShape, IsState, Stamped, GridFollowsAnswers, GoneByMishap, EditsKept

\* The mutation's steps that a render follows: the save leaves, and its outcome.
LEMMA SaveKeeps ==
    ASSUME GridInv, (\E submit \in BOOLEAN : Save(submit)) \/ RefuseSave \/ SaveFails
    PROVE  GridInv'
<1>1. /\ mounted /\ Render(grid) /\ UNCHANGED << data, mounted, wanted >>
  BY DEF Save, CanEdit, RefuseSave, SaveFails, GridInv, GoneByMishap, Pending
<1>2. data' = grid.synced => grid.conflict = None
  BY <1>1 DEF GridInv, GridFollowsAnswers
<1>3. ASSUME Pending(save') =>
               save' = [ stage |-> save'.stage, body |-> save'.body, submit |-> save'.submit ]
      PROVE  GridShape' /\ Stamped' /\ GridFollowsAnswers'
  BY <1>1, <1>2, <1>3, Rendered DEF GridInv, GridShape, IsState, Stamped
<1>4. ASSUME NEW submit \in BOOLEAN, Save(submit) PROVE GridInv'
  <2>1. /\ save' = [ stage |-> "sent", body |-> EntriesFromMatrix(grid.matrix),
                     submit |-> submit ]
        /\ ~ Pending(save) /\ mishaps' = mishaps
    BY <1>4 DEF Save, CanEdit
  <2>2. /\ Pending(save') /\ save'.stage = "sent"
        /\ save'.body = EntriesFromMatrix(grid.matrix)
        /\ save' = [ stage |-> save'.stage, body |-> save'.body, submit |-> save'.submit ]
    BY <2>1 DEF Pending
  <2> QED
    BY <1>1, <1>3, <2>1, <2>2 DEF GridInv, GoneByMishap, EditsKept
<1>5. CASE RefuseSave \/ SaveFails
  <2>1. ~ Pending(save') /\ mishaps' # {}
    BY <1>5 DEF RefuseSave, SaveFails, Pending, Refused, NoSave
  <2> QED
    BY <1>1, <1>3, <2>1 DEF GridInv, GoneByMishap, EditsKept
<1> QED
  BY <1>4, <1>5

LEMMA MarkSavedKeeps == ASSUME GridInv, MarkSaved PROVE GridInv'
<1> DEFINE g == [ synced |-> grid.synced, matrix |-> grid.matrix, dirty |-> FALSE,
                  undo |-> grid.undo, conflict |-> grid.conflict ]
<1>0. IsState(grid)
  BY DEF GridInv, GridShape, IsState
<1>1. /\ save' = NoSave /\ UNCHANGED << data, mounted, wanted, mishaps >>
      /\ Render([ grid EXCEPT !.dirty = FALSE ])
      /\ Pending(save) /\ save.stage = "refetching"
  BY DEF MarkSaved, Pending
<1>2. mounted /\ ~ Pending(save')
  BY <1>1 DEF GridInv, GoneByMishap, Pending, NoSave
<1>3. [ grid EXCEPT !.dirty = FALSE ] = g
  BY <1>0, Reduced, Zenon
<1>4. IsState(g) /\ g.synced = grid.synced /\ g.conflict = grid.conflict /\ Render(g)
  BY <1>1, <1>3 DEF IsState
<1> HIDE DEF g
<1>5. data' = g.synced => g.conflict = None
  BY <1>1, <1>2, <1>4 DEF GridInv, GridFollowsAnswers
<1>6. GridShape' /\ Stamped' /\ GridFollowsAnswers'
  BY <1>1, <1>2, <1>4, <1>5, Rendered DEF GridInv, Stamped
<1>7. mishaps = {} => wanted = None
  BY <1>1 DEF GridInv, EditsKept
<1> QED
  BY <1>1, <1>2, <1>6, <1>7 DEF GridInv, GoneByMishap, EditsKept

LEMMA GridStep == GridInv /\ [Next]_vars => GridInv'
<1> SUFFICES ASSUME GridInv, [Next]_vars PROVE GridInv'
  OBVIOUS
<1>1. CASE \E lines \in Others \cup {server.month.lines}, editable \in BOOLEAN :
             Elsewhere([ lines |-> lines, editable |-> editable ])
  BY <1>1, UnseenKeeps DEF Elsewhere
<1>2. CASE Refetch \/ Read \/ Pause
  BY <1>2, UnseenKeeps DEF Refetch, Read, Pause
<1>3. CASE Arrive
  BY <1>3, ArriveKeeps
<1>4. CASE FetchFails
  BY <1>4, FetchFailsKeeps
<1>5. CASE \E row \in Rows, day \in MonthDays, value \in Entered : SetCell(row, day, value)
  BY <1>5, EditKeeps DEF SetCell
<1>6. CASE \E mission \in ToSet(Offered) \ Rows : AddActivity(mission)
  BY <1>6, EditKeeps DEF AddActivity
<1>7. CASE \E row \in Rows : RemoveActivity(row) \/ FillRow(row) \/ EmptyRow(row)
  BY <1>7, EditKeeps DEF RemoveActivity, FillRow, EmptyRow
<1>8. CASE \E row \in ToSet(Offered) \cup {Absence}, week \in Weeks : FillWeek(row, week)
  BY <1>8, EditKeeps DEF FillWeek
<1>9. CASE CopyPreviousMonth
  BY <1>9, CopyKeeps
<1>10. CASE Undo
  BY <1>10, UndoKeeps
<1>11. CASE DiscardEditsAndReload \/ KeepEdits
  BY <1>11, ConflictAnswerKeeps
<1>12. CASE (\E submit \in BOOLEAN : Save(submit)) \/ RefuseSave \/ SaveFails
  BY <1>12, SaveKeeps
<1>13. CASE Apply \/ Invalidate
  BY <1>13, UnseenKeeps DEF Apply, Invalidate
<1>14. CASE MarkSaved
  BY <1>14, MarkSavedKeeps
<1>15. CASE UNCHANGED vars
  BY <1>15, UnseenKeeps DEF vars
<1> QED
  BY <1>1, <1>2, <1>3, <1>4, <1>5, <1>6, <1>7, <1>8, <1>9, <1>10, <1>11, <1>12, <1>13,
     <1>14, <1>15 DEF Next

\* The answers, the edits and the save stay in step, whatever arrives and in whatever order.
THEOREM Invariant == Spec => []GridInv
<1> QED
  BY GridInit, GridStep, PTL DEF Spec

\* A grid without edits shows the newest answer, and a conflict on the screen is with that
\* answer and about edits (use-cra-draft.ts), for every month and however long it goes on.
THEOREM FollowsAnswers == Spec => []GridFollowsAnswers
<1>1. GridInv => GridFollowsAnswers
  BY DEF GridInv
<1> QED
  BY <1>1, Invariant, PTL

\* Whatever arrives, and whoever else writes, an edit is given up by the consultant or stored:
\* none is lost while no request fails and no copy is confirmed under a save (grid-resync.ts).
THEOREM NothingLost == Spec => []LostOnlyByMishap
<1>1. GridInv => LostOnlyByMishap
  <2> SUFFICES ASSUME GridInv, Lost, mishaps = {} PROVE FALSE
    BY DEF LostOnlyByMishap
  <2>1. wanted # None /\ mounted
    BY DEF GridInv, GoneByMishap, Lost
  <2> QED
    BY <2>1 DEF GridInv, EditsKept, Lost
<1> QED
  BY <1>1, Invariant, PTL

-----------------------------------------------------------------------------
(***************************************************************************)
(* Sums over finite sets and loops over sequences are recursive functions: *)
(* that they exist, and what they are worth, goes by the least number at   *)
(* which it would not.                                                     *)
(***************************************************************************)

\* A set of numbers that is not empty has a least one.
LEMMA LeastNat ==
    ASSUME NEW T \in SUBSET Nat, T # {}
    PROVE  \E n \in T : \A m \in T : n <= m
<1>1. PICK x \in T : \A y \in T : ~ (<< y, x >> \in OpToRel(<, Nat))
  BY NatLessThanWellFounded, WFMin
<1>2. \A y \in T : ~ (y < x)
  BY <1>1 DEF OpToRel
<1> QED
  BY <1>2

\* The element a fold takes out of a set first.
Chosen(s) == CHOOSE x \in s : TRUE

\* g gives the sum of the weights w of every subset of S.
IsSum(g, S, w) ==
    g = [ s \in SUBSET S |-> IF s = {} THEN 0 ELSE w[Chosen(s)] + g[s \ {Chosen(s)}] ]

\* There is an element to take out of a set that is not empty.
LEMMA ChosenIn == ASSUME NEW s, s # {} PROVE Chosen(s) \in s
  BY DEF Chosen

\* One element taken out.
LEMMA IsSumEq ==
    ASSUME NEW S, NEW w, NEW g, IsSum(g, S, w), NEW s \in SUBSET S
    PROVE  g[s] = IF s = {} THEN 0 ELSE w[Chosen(s)] + g[s \ {Chosen(s)}]
<1> DEFINE f == [ t \in SUBSET S |->
                  IF t = {} THEN 0 ELSE w[Chosen(t)] + g[t \ {Chosen(t)}] ]
<1>1. g = f
  BY DEF IsSum
<1>2. f[s] = IF s = {} THEN 0 ELSE w[Chosen(s)] + g[s \ {Chosen(s)}]
  OBVIOUS
<1> HIDE DEF f
<1> QED
  BY <1>1, <1>2

\* The function of the sums exists.
LEMMA SumExists ==
    ASSUME NEW S, IsFiniteSet(S), NEW w \in [ S -> Nat ]
    PROVE  \E g : IsSum(g, S, w)
<1> DEFINE Part(n) == { s \in SUBSET S : Cardinality(s) <= n }
           Sums(g, n) == \A s \in Part(n) :
                 g[s] = IF s = {} THEN 0 ELSE w[Chosen(s)] + g[s \ {Chosen(s)}]
           Good(n) == \E g \in [ Part(n) -> Nat ] : Sums(g, n)
           wrong == { n \in Nat : ~ Good(n) }
<1>0. \A s \in SUBSET S : Cardinality(s) \in Nat /\ IsFiniteSet(s)
  BY FS_Subset, FS_CardinalityType
<1>1. ASSUME NEW s \in SUBSET S, s # {}
      PROVE  /\ Chosen(s) \in s
             /\ s \ {Chosen(s)} \in SUBSET S
             /\ Cardinality(s \ {Chosen(s)}) = Cardinality(s) - 1
  BY <1>0, <1>1, ChosenIn, FS_RemoveElement
<1>2. Good(0)
  <2>1. \A s \in Part(0) : s = {}
    BY <1>0, FS_EmptySet
  <2>2. Sums([ s \in Part(0) |-> 0 ], 0)
    BY <2>1
  <2>3. [ s \in Part(0) |-> 0 ] \in [ Part(0) -> Nat ]
    OBVIOUS
  <2> HIDE DEF Part, Sums
  <2> QED
    BY <2>2, <2>3
<1>3. ASSUME NEW n \in Nat, Good(n) PROVE Good(n + 1)
  <2>1. PICK g \in [ Part(n) -> Nat ] : Sums(g, n)
    BY <1>3
  <2> DEFINE h == [ s \in Part(n + 1) |->
                    IF s = {} THEN 0 ELSE w[Chosen(s)] + g[s \ {Chosen(s)}] ]
  <2>2. ASSUME NEW s \in Part(n + 1), s # {} PROVE s \ {Chosen(s)} \in Part(n)
    BY <1>0, <1>1, <2>2
  <2>3. h \in [ Part(n + 1) -> Nat ]
    <3> SUFFICES ASSUME NEW s \in Part(n + 1), s # {}
                 PROVE  w[Chosen(s)] + g[s \ {Chosen(s)}] \in Nat
      OBVIOUS
    <3>1. w[Chosen(s)] \in Nat
      BY <1>1
    <3>2. g[s \ {Chosen(s)}] \in Nat 
      <4> HIDE DEF Part
      <4> QED
        BY <2>2
    <3> QED
      BY <3>1, <3>2
  <2>4. ASSUME NEW s \in Part(n) PROVE h[s] = g[s]
    <3>1. s \in Part(n + 1)
      BY <1>0
    <3>2. h[s] = IF s = {} THEN 0 ELSE w[Chosen(s)] + g[s \ {Chosen(s)}]
      BY <3>1
    <3>3. g[s] = IF s = {} THEN 0 ELSE w[Chosen(s)] + g[s \ {Chosen(s)}]
      BY <2>1
    <3> QED
      BY <3>2, <3>3
  <2>5. Sums(h, n + 1)
    <3> SUFFICES ASSUME NEW s \in Part(n + 1)
                 PROVE  h[s] = IF s = {} THEN 0 ELSE w[Chosen(s)] + h[s \ {Chosen(s)}]
      OBVIOUS
    <3>1. h[s] = IF s = {} THEN 0 ELSE w[Chosen(s)] + g[s \ {Chosen(s)}]
      OBVIOUS
    <3>2. s # {} => h[s \ {Chosen(s)}] = g[s \ {Chosen(s)}]
      <4> HIDE DEF Part, h
      <4> QED
        BY <2>2, <2>4
    <3> HIDE DEF Part, h
    <3> QED
      BY <3>1, <3>2
  <2> HIDE DEF Part, h, Sums
  <2> QED
    BY <2>3, <2>5
<1>4. \A n \in Nat : Good(n)
  <2> HIDE DEF Good
  <2>1. SUFFICES ASSUME wrong # {} PROVE FALSE
    OBVIOUS
  <2>2. PICK n \in wrong : \A m \in wrong : n <= m
    BY <2>1, LeastNat
  <2>3. n # 0
    BY <1>2
  <2>4. n - 1 \in Nat /\ Good(n - 1)
    BY <2>2, <2>3
  <2>5. Good((n - 1) + 1)
    BY <1>3, <2>4
  <2> QED
    BY <2>5
<1>5. Part(Cardinality(S)) = SUBSET S
  BY <1>0, FS_Subset
<1>6. PICK g \in [ SUBSET S -> Nat ] : Sums(g, Cardinality(S))
  <2>1. Good(Cardinality(S))
    BY <1>0, <1>4
  <2> HIDE DEF Part, Sums
  <2> QED
    BY <2>1, <1>5
<1> QED
  <2>1. \A s \in SUBSET S : g[s] = IF s = {} THEN 0 ELSE w[Chosen(s)] + g[s \ {Chosen(s)}]
    BY <1>5, <1>6
  <2> QED
    BY <2>1 DEF IsSum

\* A sum of naturals is a natural.
LEMMA SumNat ==
    ASSUME NEW S, IsFiniteSet(S), NEW w \in [ S -> Nat ], NEW g, IsSum(g, S, w)
    PROVE  \A s \in SUBSET S : g[s] \in Nat
<1> DEFINE Fits(s) == g[s] \in Nat
           wrong == { n \in Nat : \E s \in SUBSET S : Cardinality(s) = n /\ ~ Fits(s) }
<1>1. SUFFICES ASSUME wrong # {} PROVE FALSE
  BY FS_Subset, FS_CardinalityType
<1>2. PICK n \in wrong : \A m \in wrong : n <= m
  BY <1>1, LeastNat
<1>3. PICK s \in SUBSET S : Cardinality(s) = n /\ ~ Fits(s)
  OBVIOUS
<1>4. g[s] = IF s = {} THEN 0 ELSE w[Chosen(s)] + g[s \ {Chosen(s)}]
  BY IsSumEq
<1>5. CASE s # {}
  <2>1. Chosen(s) \in s /\ IsFiniteSet(s)
    BY <1>5, ChosenIn, FS_Subset
  <2>2. Cardinality(s \ {Chosen(s)}) = n - 1 /\ n - 1 \in Nat
    <3>1. /\ IsFiniteSet(s \ {Chosen(s)})
          /\ Cardinality(s \ {Chosen(s)}) = Cardinality(s) - 1
      BY <2>1, FS_RemoveElement
    <3> QED
      BY <1>3, <3>1, FS_CardinalityType
  <2>3. Fits(s \ {Chosen(s)})
    BY <1>2, <2>2
  <2>4. w[Chosen(s)] \in Nat
    BY <2>1
  <2> QED
    BY <1>3, <1>4, <1>5, <2>3, <2>4
<1> QED
  BY <1>3, <1>4, <1>5
\* Any element may be the one taken out.
LEMMA SumRemove ==
    ASSUME NEW S, IsFiniteSet(S), NEW w \in [ S -> Nat ], NEW g, IsSum(g, S, w)
    PROVE  \A s \in SUBSET S : \A x \in s : g[s] = w[x] + g[s \ {x}]
<1> DEFINE Fits(s) == \A x \in s : g[s] = w[x] + g[s \ {x}]
           wrong == { n \in Nat : \E s \in SUBSET S : Cardinality(s) = n /\ ~ Fits(s) }
<1>1. SUFFICES ASSUME wrong # {} PROVE FALSE
  BY FS_Subset, FS_CardinalityType
<1>2. PICK n \in wrong : \A m \in wrong : n <= m
  BY <1>1, LeastNat
<1>3. PICK s \in SUBSET S : Cardinality(s) = n /\ ~ Fits(s)
  OBVIOUS
<1>4. PICK x \in s : g[s] # w[x] + g[s \ {x}]
  BY <1>3
<1> DEFINE c == Chosen(s)
<1>5. c \in s /\ IsFiniteSet(s) /\ g[s] = w[c] + g[s \ {c}]
  BY <1>4, ChosenIn, IsSumEq, FS_Subset
<1>6. ASSUME NEW y \in s PROVE Fits(s \ {y})
  <2>1. /\ IsFiniteSet(s \ {y}) /\ Cardinality(s \ {y}) = n - 1
    BY <1>3, <1>5, FS_RemoveElement
  <2> QED
    BY <1>2, <2>1, FS_CardinalityType
<1>7. x # c
  BY <1>4, <1>5
<1>8. PICK rest \in Nat : rest = g[(s \ {x}) \ {c}]
  BY SumNat
<1>9. g[s \ {c}] = w[x] + rest
  <2>1. (s \ {c}) \ {x} = (s \ {x}) \ {c}
    OBVIOUS
  <2> QED
    BY <1>5, <1>6, <1>7, <1>8, <2>1
<1>10. g[s \ {x}] = w[c] + rest
  BY <1>5, <1>6, <1>7, <1>8
<1>11. w[x] \in Nat /\ w[c] \in Nat
  BY <1>5
<1> HIDE DEF c, Fits
<1> QED
  BY <1>4, <1>5, <1>9, <1>10, <1>11

\* What has a positive weight counts.
LEMMA SumPositive ==
    ASSUME NEW S, IsFiniteSet(S), NEW w \in [ S -> Nat \ {0} ], NEW g, IsSum(g, S, w)
    PROVE  g[S] = 0 <=> S = {}
<1>1. CASE S = {}
  <2>1. S \in SUBSET S
    OBVIOUS
  <2> QED
    BY <1>1, <2>1, IsSumEq
<1>2. CASE S # {}
  <2>1. PICK x \in S : TRUE
    BY <1>2
  <2>2. w \in [ S -> Nat ]
    OBVIOUS
  <2>3. g[S] = w[x] + g[S \ {x}] /\ g[S \ {x}] \in Nat
    BY <2>2, SumRemove, SumNat
  <2> QED
    BY <1>2, <2>3
<1> QED
  BY <1>1, <1>2

\* A sum does not depend on what its weights are the weights of.
LEMMA SumRenamed ==
    ASSUME NEW S, IsFiniteSet(S), NEW w \in [ S -> Nat ], NEW g, IsSum(g, S, w),
           NEW T, IsFiniteSet(T), NEW v \in [ T -> Nat ], NEW f, IsSum(f, T, v)
    PROVE  \A h \in [ S -> T ] :
             /\ \A x \in S : v[h[x]] = w[x]
             /\ \A x \in S : \A y \in S : h[x] = h[y] => x = y
             => \A s \in SUBSET S : g[s] = f[{ h[x] : x \in s }]
<1>a. \A s \in SUBSET S : g[s] = IF s = {} THEN 0 ELSE w[Chosen(s)] + g[s \ {Chosen(s)}]
  BY IsSumEq
<1>b. f[{}] = 0
  <2>1. {} \in SUBSET T
    OBVIOUS
  <2> QED
    BY <2>1, IsSumEq
<1>c. ASSUME NEW s \in SUBSET T, NEW x \in s PROVE f[s] = v[x] + f[s \ {x}]
  BY SumRemove
<1> SUFFICES ASSUME NEW h \in [ S -> T ], \A x \in S : v[h[x]] = w[x],
                    \A x \in S : \A y \in S : h[x] = h[y] => x = y
             PROVE  \A s \in SUBSET S : g[s] = f[{ h[x] : x \in s }]
  OBVIOUS
<1> DEFINE Image(s) == { h[x] : x \in s }
           Fits(s) == g[s] = f[Image(s)]
           wrong == { n \in Nat : \E s \in SUBSET S : Cardinality(s) = n /\ ~ Fits(s) }
<1>0. /\ Image({}) = {}
      /\ \A s \in SUBSET S : /\ Image(s) \in SUBSET T
                              /\ \A x \in s : /\ h[x] \in Image(s)
                                               /\ Image(s \ {x}) = Image(s) \ {h[x]}
  OBVIOUS
<1>1. SUFFICES ASSUME wrong # {} PROVE FALSE
  BY FS_Subset, FS_CardinalityType
<1> HIDE DEF Image
<1>2. PICK n \in wrong : \A m \in wrong : n <= m
  BY <1>1, LeastNat
<1>3. PICK s \in SUBSET S : Cardinality(s) = n /\ ~ Fits(s)
  OBVIOUS
<1>4. CASE s = {}
  BY <1>a, <1>b, <1>0, <1>3, <1>4
<1>5. CASE s # {}
  <2>1. PICK c \in s : g[s] = w[c] + g[s \ {c}]
    <3>1. Chosen(s) \in s
      BY <1>5, ChosenIn
    <3>2. g[s] = IF s = {} THEN 0 ELSE w[Chosen(s)] + g[s \ {Chosen(s)}]
      BY <1>a
    <3> QED
      BY <1>5, <3>1, <3>2
  <2>2. IsFiniteSet(s) /\ IsFiniteSet(s \ {c}) /\ Cardinality(s \ {c}) = n - 1
    BY <1>3, FS_RemoveElement, FS_Subset
  <2>3. Fits(s \ {c})
    BY <1>2, <2>2, FS_CardinalityType
  <2>4. f[Image(s)] = v[h[c]] + f[Image(s) \ {h[c]}]
    BY <1>0, <1>c
  <2>5. v[h[c]] = w[c] /\ Image(s \ {c}) = Image(s) \ {h[c]}
    BY <1>0
  <2> QED
    BY <1>3, <2>1, <2>3, <2>4, <2>5
<1> QED
  BY <1>4, <1>5

\* g gives what a loop of N rounds holds after each.
Runs(g, N, start, step) ==
    /\ g[0] = start
    /\ \A n \in 1 .. N : g[n] = step[<< n, g[n - 1] >>]

\* Over values of a set, it runs to its end.
LEMMA LoopExists ==
    ASSUME NEW N \in Nat, NEW V, NEW start \in V, NEW step \in [ (1 .. N) \X V -> V ]
    PROVE  \E g \in [ 0 .. N -> V ] : Runs(g, N, start, step)
<1> DEFINE Upto(g, k) == /\ g[0] = start
                         /\ \A n \in 1 .. k : g[n] = step[<< n, g[n - 1] >>]
           Good(k) == \E g \in [ 0 .. k -> V ] : Upto(g, k)
           wrong == { k \in 0 .. N : ~ Good(k) }
<1>1. Good(0)
  <2>1. [ n \in 0 .. 0 |-> start ] \in [ 0 .. 0 -> V ] /\ Upto([ n \in 0 .. 0 |-> start ], 0)
    OBVIOUS
  <2> HIDE DEF Upto
  <2> QED
    BY <2>1
<1>2. ASSUME NEW k \in 1 .. N, Good(k - 1) PROVE Good(k)
  <2>1. PICK g \in [ 0 .. k - 1 -> V ] : Upto(g, k - 1)
    BY <1>2
  <2> DEFINE last == step[<< k, g[k - 1] >>]
             h == [ n \in 0 .. k |-> IF n = k THEN last ELSE g[n] ]
  <2>2. last \in V
    OBVIOUS
  <2> HIDE DEF last
  <2>3. h \in [ 0 .. k -> V ]
    BY <2>2
  <2>4. h[0] = start
    BY <2>1
  <2>5. ASSUME NEW n \in 1 .. k PROVE h[n] = step[<< n, h[n - 1] >>]
    <3>1. CASE n = k
      <4>1. h[n] = last /\ h[n - 1] = g[n - 1]
        BY <3>1
      <4> HIDE DEF h
      <4> QED
        BY <3>1, <4>1 DEF last
    <3>2. CASE n # k
      <4>1. n \in 1 .. k - 1 /\ h[n] = g[n] /\ h[n - 1] = g[n - 1]
        BY <3>2
      <4> HIDE DEF h
      <4> QED
        BY <2>1, <4>1
    <3> QED
      BY <3>1, <3>2
  <2> HIDE DEF h
  <2> QED
    BY <2>3, <2>4, <2>5
<1>3. Good(N)
  <2> HIDE DEF Good
  <2>1. SUFFICES ASSUME wrong # {} PROVE FALSE
    OBVIOUS
  <2>2. wrong \in SUBSET Nat
    OBVIOUS
  <2>3. \A k : k \in wrong <=> k \in 0 .. N /\ ~ Good(k)
    OBVIOUS
  <2> HIDE DEF wrong
  <2>4. PICK k \in wrong : \A m \in wrong : k <= m
    BY <2>1, <2>2, LeastNat
  <2>5. k \in 0 .. N /\ ~ Good(k)
    BY <2>3
  <2>6. k \in 1 .. N
    BY <1>1, <2>5
  <2>7. Good(k - 1)
    BY <2>3, <2>4, <2>6
  <2> QED
    BY <1>2, <2>5, <2>6, <2>7
<1> QED
  BY <1>3 DEF Runs

-----------------------------------------------------------------------------
(***************************************************************************)
(* The rows.                                                               *)
(***************************************************************************)

\* filter, round by round.
Filters(upTo, seq, set) ==
    /\ upTo[0] = << >>
    /\ \A n \in 1 .. Len(seq) :
         upTo[n] = IF seq[n] \in set THEN Append(upTo[n - 1], seq[n]) ELSE upTo[n - 1]

LEMMA KeptLoop ==
    ASSUME NEW V, NEW seq \in Seq(V), NEW set
    PROVE  \E upTo \in [ 0 .. Len(seq) -> Seq(V) ] :
             Filters(upTo, seq, set) /\ Kept(seq, set) = upTo[Len(seq)]
<1> DEFINE N == Len(seq)
           Round(n, before) == IF seq[n] \in set THEN Append(before, seq[n]) ELSE before
           IsLoop(u) == u = [ n \in 0 .. N |-> IF n = 0 THEN << >> ELSE Round(n, u[n - 1]) ]
           upTo == CHOOSE u : IsLoop(u)
           step == [ p \in (1 .. N) \X Seq(V) |-> Round(p[1], p[2]) ]
<1>1. Kept(seq, set) = upTo[N]
  BY DEF Kept
<1>2. N \in Nat /\ << >> \in Seq(V)
  OBVIOUS
<1>3. step \in [ (1 .. N) \X Seq(V) -> Seq(V) ]
  OBVIOUS
<1>4. \A n \in 1 .. N, before \in Seq(V) : step[<< n, before >>] = Round(n, before)
  OBVIOUS
<1> HIDE DEF N, step, Round
<1>5. PICK g \in [ 0 .. N -> Seq(V) ] :
             /\ g[0] = << >>
             /\ \A n \in 1 .. N : g[n] = step[<< n, g[n - 1] >>]
  <2> HIDE DEF upTo
  <2>1. \E g \in [ 0 .. N -> Seq(V) ] : Runs(g, N, << >>, step)
    BY <1>2, <1>3, LoopExists
  <2> QED
    BY <2>1 DEF Runs
<1>6. \A n \in 1 .. N : g[n] = Round(n, g[n - 1])
  <2>1. ASSUME NEW n \in 1 .. N PROVE g[n] = Round(n, g[n - 1])
    <3>1. n - 1 \in 0 .. N
      BY <1>2
    <3> QED
      BY <1>4, <1>5, <3>1
  <2> QED
    BY <2>1
<1>7. IsLoop(g)
  <2> DEFINE f == [ n \in 0 .. N |-> IF n = 0 THEN << >> ELSE Round(n, g[n - 1]) ]
  <2>1. \A n \in 0 .. N : g[n] = f[n]
    BY <1>2, <1>5, <1>6
  <2>2. g = [ n \in 0 .. N |-> g[n] ] /\ f = [ n \in 0 .. N |-> f[n] ]
    OBVIOUS
  <2> HIDE DEF f
  <2>3. g = f
    BY <2>1, <2>2
  <2> QED
    BY <2>3 DEF f
<1>8. IsLoop(upTo)
  <2> HIDE DEF IsLoop
  <2>1. \E u : IsLoop(u)
    BY <1>7
  <2> QED
    BY <2>1
<1> HIDE DEF upTo
<1>9. upTo[0] = << >> /\ \A n \in 1 .. N : upTo[n] = Round(n, upTo[n - 1])
  BY <1>2, <1>8
<1>10. upTo = [ n \in 0 .. N |-> upTo[n] ]
  BY <1>8
<1> HIDE DEF IsLoop
<1>11. \A n \in 0 .. N : upTo[n] = g[n]
  <2> DEFINE wrong == { n \in 0 .. N : upTo[n] # g[n] }
  <2>1. wrong \in SUBSET Nat /\ \A n : n \in wrong <=> n \in 0 .. N /\ upTo[n] # g[n]
    BY <1>2
  <2> HIDE DEF wrong
  <2>2. SUFFICES ASSUME wrong # {} PROVE FALSE
    BY <2>1
  <2>3. PICK n \in wrong : \A m \in wrong : n <= m
    BY <2>1, <2>2, LeastNat
  <2>4. n \in 1 .. N
    BY <1>2, <1>5, <1>9, <2>1
  <2>5. upTo[n - 1] = g[n - 1]
    <3>1. n - 1 \in 0 .. N /\ ~ (n <= n - 1)
      BY <1>2, <2>4
    <3>2. n - 1 \notin wrong
      BY <2>3, <3>1
    <3> QED
      BY <2>1, <3>1, <3>2
  <2> QED
    BY <1>6, <1>9, <2>1, <2>4, <2>5
<1>12. upTo = g
  <2>1. g = [ n \in 0 .. N |-> g[n] ]
    OBVIOUS
  <2> QED
    BY <1>10, <1>11, <2>1
<1>13. \A n \in 1 .. Len(seq) :
         g[n] = IF seq[n] \in set THEN Append(g[n - 1], seq[n]) ELSE g[n - 1]
  BY <1>6 DEF N, Round
<1>14. g \in [ 0 .. Len(seq) -> Seq(V) ] /\ Kept(seq, set) = g[Len(seq)] /\ g[0] = << >>
  BY <1>1, <1>5, <1>12 DEF N
<1>15. Filters(g, seq, set)
  BY <1>13, <1>14 DEF Filters
<1> QED
  BY <1>14, <1>15

\* What holds at the start of a loop, and after a round if it held before it, holds to its end.
LEMMA RoundsHold ==
    ASSUME NEW N \in Nat, NEW good, 0 \in good,
           \A n \in 1 .. N : n - 1 \in good => n \in good
    PROVE  \A n \in 0 .. N : n \in good
<1> DEFINE wrong == { n \in 0 .. N : n \notin good }
<1>1. wrong \in SUBSET Nat /\ \A n : n \in wrong <=> n \in 0 .. N /\ n \notin good
  OBVIOUS
<1> HIDE DEF wrong
<1>2. SUFFICES ASSUME wrong # {} PROVE FALSE
  BY <1>1
<1>3. PICK n \in wrong : \A m \in wrong : n <= m
  BY <1>1, <1>2, LeastNat
<1>4. n \in 1 .. N
  BY <1>1
<1> QED
  BY <1>1, <1>3, <1>4

\* One more row, and rows after others.
LEMMA Appended ==
    ASSUME NEW V, NEW s \in Seq(V), NEW x \in V
    PROVE  /\ Append(s, x) \in Seq(V)
           /\ ToSet(Append(s, x)) = ToSet(s) \cup {x}
           /\ IsInjective(s) /\ x \notin ToSet(s) => IsInjective(Append(s, x))
<1>1. /\ Append(s, x) \in Seq(V) /\ Len(s) \in Nat
      /\ DOMAIN s = 1 .. Len(s) /\ DOMAIN Append(s, x) = 1 .. Len(s) + 1
      /\ \A i \in 1 .. Len(s) : Append(s, x)[i] = s[i]
      /\ Append(s, x)[Len(s) + 1] = x
  OBVIOUS
<1> DEFINE t == Append(s, x)
<1> HIDE DEF t
<1>2. ToSet(t) = ToSet(s) \cup {x}
  <2>1. ASSUME NEW y PROVE y \in ToSet(t) <=> y \in ToSet(s) \/ y = x
    BY <1>1 DEF ToSet, t
  <2> QED
    BY <2>1
<1>3. IsInjective(s) /\ x \notin ToSet(s) => IsInjective(t)
  BY <1>1 DEF ToSet, IsInjective, t
<1> QED
  BY <1>1, <1>2, <1>3 DEF t

LEMMA Concatenated ==
    ASSUME NEW V, NEW s \in Seq(V), NEW t \in Seq(V)
    PROVE  /\ s \o t \in Seq(V)
           /\ ToSet(s \o t) = ToSet(s) \cup ToSet(t)
           /\ IsInjective(s) /\ IsInjective(t) /\ ToSet(s) \cap ToSet(t) = {}
                => IsInjective(s \o t)
           /\ t # << >> => s \o t # << >> /\ Last(s \o t) = Last(t)
<1> DEFINE u == s \o t
<1>1. /\ u \in Seq(V) /\ Len(s) \in Nat /\ Len(t) \in Nat /\ Len(u) = Len(s) + Len(t)
      /\ DOMAIN s = 1 .. Len(s) /\ DOMAIN t = 1 .. Len(t)
      /\ DOMAIN u = 1 .. Len(s) + Len(t)
      /\ t # << >> => Len(t) > 0
  OBVIOUS
<1>2. /\ \A i \in 1 .. Len(s) : u[i] = s[i]
      /\ \A i \in 1 .. Len(t) : u[Len(s) + i] = t[i]
      /\ \A i \in 1 .. Len(s) + Len(t) : i \notin 1 .. Len(s) => u[i] = t[i - Len(s)]
  BY <1>1
<1> HIDE DEF u
<1>3. \A i \in 1 .. Len(s) + Len(t) : i \notin 1 .. Len(s) => i - Len(s) \in 1 .. Len(t)
  BY <1>1
<1>4. ToSet(u) = ToSet(s) \cup ToSet(t)
  <2>1. ASSUME NEW y \in ToSet(u) PROVE y \in ToSet(s) \cup ToSet(t)
    BY <1>1, <1>2, <1>3 DEF ToSet
  <2>2. ASSUME NEW y \in ToSet(s) PROVE y \in ToSet(u)
    BY <1>1, <1>2 DEF ToSet
  <2>3. ASSUME NEW y \in ToSet(t) PROVE y \in ToSet(u)
    <3>1. PICK i \in 1 .. Len(t) : y = t[i]
      BY <1>1 DEF ToSet
    <3>2. Len(s) + i \in 1 .. Len(s) + Len(t)
      BY <1>1
    <3> QED
      BY <1>1, <1>2, <3>1, <3>2 DEF ToSet
  <2> QED
    BY <2>1, <2>2, <2>3
<1>5. IsInjective(s) /\ IsInjective(t) /\ ToSet(s) \cap ToSet(t) = {} => IsInjective(u)
  <2>1. SUFFICES ASSUME IsInjective(s), IsInjective(t), ToSet(s) \cap ToSet(t) = {},
                        NEW i \in 1 .. Len(s) + Len(t), NEW j \in 1 .. Len(s) + Len(t),
                        u[i] = u[j]
                 PROVE  i = j
    BY <1>1 DEF IsInjective
  <2>2. CASE i \in 1 .. Len(s) /\ j \in 1 .. Len(s)
    BY <1>1, <1>2, <2>1, <2>2 DEF IsInjective
  <2>3. CASE i \notin 1 .. Len(s) /\ j \notin 1 .. Len(s)
    <3>1. t[i - Len(s)] = t[j - Len(s)] /\ i - Len(s) \in DOMAIN t /\ j - Len(s) \in DOMAIN t
      BY <1>1, <1>2, <1>3, <2>1, <2>3
    <3>2. i - Len(s) = j - Len(s)
      BY <2>1, <3>1 DEF IsInjective
    <3> QED
      BY <1>1, <3>2
  <2>4. ASSUME NEW a \in 1 .. Len(s), NEW b \in 1 .. Len(s) + Len(t), b \notin 1 .. Len(s)
        PROVE  u[a] # u[b]
    <3>1. u[a] \in ToSet(s)
      BY <1>1, <1>2 DEF ToSet
    <3>2. u[b] = t[b - Len(s)] /\ b - Len(s) \in DOMAIN t
      BY <1>1, <1>2, <1>3, <2>4
    <3>3. u[b] \in ToSet(t)
      BY <3>2 DEF ToSet
    <3> QED
      BY <2>1, <3>1, <3>3
  <2> QED
    BY <2>1, <2>2, <2>3, <2>4
<1>6. t # << >> => u # << >> /\ Last(u) = Last(t)
  BY <1>1, <1>2 DEF Last, u
<1> QED
  BY <1>1, <1>4, <1>5, <1>6 DEF u

\* filter keeps what is in the set, once if it was there once.
LEMMA KeptFacts ==
    ASSUME NEW V, NEW seq \in Seq(V), NEW set
    PROVE  /\ Kept(seq, set) \in Seq(V)
           /\ ToSet(Kept(seq, set)) = ToSet(seq) \cap set
           /\ IsInjective(seq) => IsInjective(Kept(seq, set))
           /\ seq # << >> /\ Last(seq) \in set
                => Kept(seq, set) # << >> /\ Last(Kept(seq, set)) = Last(seq)
<1>1. PICK upTo \in [ 0 .. Len(seq) -> Seq(V) ] :
             /\ upTo[0] = << >>
             /\ \A n \in 1 .. Len(seq) :
                  upTo[n] = IF seq[n] \in set THEN Append(upTo[n - 1], seq[n]) ELSE upTo[n - 1]
             /\ Kept(seq, set) = upTo[Len(seq)]
  <2>1. \E upTo \in [ 0 .. Len(seq) -> Seq(V) ] :
          Filters(upTo, seq, set) /\ Kept(seq, set) = upTo[Len(seq)]
    BY KeptLoop
  <2> QED
    BY <2>1 DEF Filters
<1> DEFINE Seen(n) == { seq[i] : i \in 1 .. n }
           good == { n \in 0 .. Len(seq) :
                       /\ ToSet(upTo[n]) = Seen(n) \cap set
                       /\ IsInjective(seq) => IsInjective(upTo[n]) }
<1>2. Len(seq) \in Nat /\ DOMAIN seq = 1 .. Len(seq)
  OBVIOUS
<1>3. 0 \in good
  <2>1. ToSet(<< >>) = {} /\ IsInjective(<< >>) /\ Seen(0) = {}
    BY DEF ToSet, IsInjective
  <2> QED
    BY <1>1, <1>2, <2>1
<1>4. \A n \in 1 .. Len(seq) : n - 1 \in good => n \in good
  <2>1. SUFFICES ASSUME NEW n \in 1 .. Len(seq), n - 1 \in good PROVE n \in good
    OBVIOUS
  <2> DEFINE before == upTo[n - 1]
  <2>2. /\ before \in Seq(V) /\ seq[n] \in V
        /\ upTo[n] = IF seq[n] \in set THEN Append(before, seq[n]) ELSE before
    BY <1>1, <1>2
  <2>3. /\ ToSet(before) = Seen(n - 1) \cap set
        /\ IsInjective(seq) => IsInjective(before)
    BY <2>1
  <2>4. Seen(n) = Seen(n - 1) \cup {seq[n]}
    BY <1>2
  <2>5. IsInjective(seq) => seq[n] \notin Seen(n - 1)
    BY <1>2 DEF IsInjective
  <2> HIDE DEF before, Seen
  <2>6. CASE seq[n] \in set
    <3>1. /\ ToSet(upTo[n]) = ToSet(before) \cup {seq[n]}
          /\ IsInjective(before) /\ seq[n] \notin ToSet(before) => IsInjective(upTo[n])
      BY <2>2, <2>6, Appended
    <3> QED
      BY <2>3, <2>4, <2>5, <2>6, <3>1
  <2>7. CASE seq[n] \notin set
    BY <2>2, <2>3, <2>4, <2>7
  <2> QED
    BY <2>6, <2>7
<1>5. Len(seq) \in good
  <2> HIDE DEF good
  <2>1. \A n \in 0 .. Len(seq) : n \in good
    BY <1>2, <1>3, <1>4, RoundsHold
  <2> QED
    BY <1>2, <2>1
<1>6. Seen(Len(seq)) = ToSet(seq)
  BY <1>2 DEF ToSet
<1>7. ASSUME seq # << >>, Last(seq) \in set
      PROVE  Kept(seq, set) # << >> /\ Last(Kept(seq, set)) = Last(seq)
  <2>1. /\ Len(seq) \in 1 .. Len(seq) /\ Len(seq) - 1 \in 0 .. Len(seq)
        /\ Last(seq) = seq[Len(seq)]
    BY <1>2, <1>7 DEF Last
  <2> DEFINE before == upTo[Len(seq) - 1]
  <2>2. Kept(seq, set) = Append(before, Last(seq)) /\ before \in Seq(V)
    BY <1>1, <1>7, <2>1
  <2> HIDE DEF before
  <2> QED
    BY <2>2 DEF Last
<1> QED
  BY <1>1, <1>2, <1>5, <1>6, <1>7

\* A finite set in some order.
LEMMA Ordered ==
    ASSUME NEW S, IsFiniteSet(S)
    PROVE  /\ SetToSeq(S) \in Seq(S)
           /\ ToSet(SetToSeq(S)) = S
           /\ IsInjective(SetToSeq(S))
<1> DEFINE n == Cardinality(S)
<1>1. n \in Nat /\ ExistsBijection(1 .. n, S)
  BY FS_CardinalityType
<1>2. PICK b \in [ 1 .. n -> S ] : IsInjective(b)
  BY <1>1 DEF ExistsBijection, Bijection, Injection
<1> DEFINE seq == SetToSeq(S)
<1>3. seq \in [ 1 .. n -> S ] /\ IsInjective(seq)
  BY <1>2 DEF SetToSeq
<1>4. \A x \in S : \E i \in 1 .. n : seq[i] = x
  <2>1. seq \in Injection(1 .. n, S)
    BY <1>3 DEF Injection
  <2>2. IsFiniteSet(1 .. n) /\ Cardinality(1 .. n) = n
    BY <1>1, FS_Interval
  <2> HIDE DEF seq
  <2>3. seq \in Surjection(1 .. n, S)
    BY <1>1, <2>1, <2>2, FS_Injection DEF Surjection
  <2> QED
    BY <2>3 DEF Surjection
<1> HIDE DEF seq, n
<1>5. seq \in Seq(S) /\ DOMAIN seq = 1 .. n
  BY <1>1, <1>3, SeqDef
<1>6. ToSet(seq) = S
  BY <1>3, <1>4, <1>5 DEF ToSet
<1> QED
  BY <1>3, <1>5, <1>6 DEF seq

-----------------------------------------------------------------------------
(***************************************************************************)
(* Grids.  The tools take a grid to a grid.                                *)
(***************************************************************************)

Activities == Missions \cup {Absence}

\* Absence is a row of every grid, and the activities of its rows are known.
LEMMA GridRows ==
    ASSUME NEW matrix, IsGrid(matrix)
    PROVE  Absence \in ToSet(matrix.rows) /\ ToSet(matrix.rows) \subseteq Activities
<1>1. /\ Len(matrix.rows) \in Nat /\ DOMAIN matrix.rows = 1 .. Len(matrix.rows)
      /\ Len(matrix.rows) \in 1 .. Len(matrix.rows)
      /\ \A i \in 1 .. Len(matrix.rows) : matrix.rows[i] \in Activities
  BY DEF IsGrid, Activities
<1> QED
  BY <1>1 DEF IsGrid, ToSet, Last

\* A grid has finitely many cells.
LEMMA GridFinite ==
    ASSUME NEW matrix, IsGrid(matrix)
    PROVE  IsFiniteSet(DOMAIN matrix.cells)
<1>1. IsFiniteSet(Activities)
  BY RowsAssumption, FS_AddElement DEF Activities
<1>2. IsFiniteSet(Activities \X MonthDays)
  BY <1>1, MonthAssumption, FS_Product
<1>3. DOMAIN matrix.cells \subseteq Activities \X MonthDays
  BY GridRows DEF IsGrid
<1> QED
  BY <1>2, <1>3, FS_Subset

\* Other cells in the same rows.
LEMMA GridWithCells ==
    ASSUME NEW matrix, IsGrid(matrix), NEW cells, cells \in [ DOMAIN cells -> 1 .. FullDay ],
           DOMAIN cells \subseteq ToSet(matrix.rows) \X MonthDays
    PROVE  /\ IsGrid([ matrix EXCEPT !.cells = cells ])
           /\ [ matrix EXCEPT !.cells = cells ].cells = cells
           /\ [ matrix EXCEPT !.cells = cells ].rows = matrix.rows
<1>1. [ matrix EXCEPT !.cells = cells ] = [ rows |-> matrix.rows, cells |-> cells ]
  BY DEF IsGrid
<1> QED
  BY <1>1 DEF IsGrid

\* A grid opened on the lines of a month.
LEMMA GridOpened ==
    ASSUME NEW lines, lines \subseteq Lines
    PROVE  IsGrid(InitMatrix(lines))
<1> DEFINE carried == { line.mission : line \in lines } \ {None}
           key(line) == << RowOf(line), line.day >>
           first == Kept(Offered, carried)
           then == SetToSeq(carried \ ToSet(Offered))
           rows == first \o then \o << Absence >>
           cells == [ at \in { key(line) : line \in lines } |->
                        (CHOOSE line \in lines : key(line) = at).quarterDays ]
<1>1. InitMatrix(lines) = [ rows |-> rows, cells |-> cells ]
  BY DEF InitMatrix
<1>2. carried \subseteq Missions
  BY DEF Lines
<1>3. /\ first \in Seq(Missions) /\ IsInjective(first)
      /\ ToSet(first) = ToSet(Offered) \cap carried
  BY RowsAssumption, KeptFacts
<1>4. /\ then \in Seq(Missions) /\ IsInjective(then)
      /\ ToSet(then) = carried \ ToSet(Offered)
  <2>1. IsFiniteSet(carried \ ToSet(Offered))
    BY <1>2, RowsAssumption, FS_Subset
  <2>2. /\ then \in Seq(carried \ ToSet(Offered)) /\ IsInjective(then)
        /\ ToSet(then) = carried \ ToSet(Offered)
    BY <2>1, Ordered
  <2> HIDE DEF then, carried
  <2> QED
    BY <1>2, <2>2
<1>5. \A line \in lines : /\ line.day \in MonthDays /\ line.quarterDays \in 1 .. FullDay
                          /\ RowOf(line) \in carried \cup {Absence}
  <2>1. ASSUME NEW line \in lines
        PROVE  /\ line.day \in MonthDays /\ line.quarterDays \in 1 .. FullDay
               /\ RowOf(line) \in carried \cup {Absence}
    BY DEF Lines, RowOf
  <2> QED
    BY <2>1
<1>6. \A at \in DOMAIN cells : /\ at \in (carried \cup {Absence}) \X MonthDays
                               /\ cells[at] \in 1 .. FullDay
  <2>1. SUFFICES ASSUME NEW line \in lines, NEW at, at = key(line)
                 PROVE  /\ at \in (carried \cup {Absence}) \X MonthDays
                        /\ cells[at] \in 1 .. FullDay
    OBVIOUS
  <2>2. at \in (carried \cup {Absence}) \X MonthDays
    BY <1>5, <2>1
  <2> DEFINE found == CHOOSE other \in lines : key(other) = at
  <2>3. found \in lines
    BY <2>1
  <2>4. cells[at] = found.quarterDays
    BY <2>1
  <2> QED
    BY <1>5, <2>2, <2>3, <2>4
<1> HIDE DEF cells, first, then, carried
<1>7. /\ first \o then \in Seq(Missions) /\ IsInjective(first \o then)
      /\ ToSet(first \o then) = carried
  <2>1. ToSet(first) \cap ToSet(then) = {}
    BY <1>3, <1>4
  <2>2. ToSet(first) \cup ToSet(then) = carried
    BY <1>3, <1>4
  <2> QED
    BY <1>3, <1>4, <2>1, <2>2, Concatenated
<1> DEFINE named == first \o then
<1> HIDE DEF named
<1>8. /\ << Absence >> \in Seq(Activities) /\ << Absence >> # << >>
      /\ IsInjective(<< Absence >>) /\ ToSet(<< Absence >>) = {Absence}
      /\ Last(<< Absence >>) = Absence
  BY DEF Activities, IsInjective, ToSet, Last
<1>9. /\ named \in Seq(Activities) /\ IsInjective(named) /\ ToSet(named) = carried
      /\ Absence \notin carried
  BY <1>2, <1>7, RowsAssumption DEF named, Activities
<1>10. /\ rows \in Seq(Activities) /\ IsInjective(rows) /\ rows # << >>
       /\ ToSet(rows) = carried \cup {Absence} /\ Last(rows) = Absence
  <2>1. ToSet(named) \cap ToSet(<< Absence >>) = {}
    BY <1>8, <1>9
  <2>2. rows = named \o << Absence >>
    BY DEF named
  <2> DEFINE last == << Absence >>
  <2>3. /\ last \in Seq(Activities) /\ last # << >> /\ IsInjective(last)
        /\ ToSet(last) = {Absence} /\ Last(last) = Absence
    BY <1>8
  <2>4. rows = named \o last /\ ToSet(named) \cap ToSet(last) = {}
    BY <2>1, <2>2
  <2> HIDE DEF rows, last
  <2> QED
    BY <1>9, <2>3, <2>4, Concatenated
<1>11. cells = [ at \in DOMAIN cells |-> cells[at] ]
  BY DEF cells
<1> HIDE DEF rows
<1> QED
  BY <1>1, <1>6, <1>10, <1>11 DEF IsGrid, Activities

\* A cell set or emptied.
LEMMA GridWithValue ==
    ASSUME NEW matrix, IsGrid(matrix), NEW row \in ToSet(matrix.rows), NEW day \in MonthDays,
           NEW value \in 0 .. FullDay
    PROVE  IsGrid(WithValue(matrix, row, day, value))
<1> DEFINE old == matrix.cells
           new == IF value = 0 THEN Cleared(old, { << row, day >> })
                  ELSE [ at \in { << row, day >> } |-> value ] ++ old
<1>1. WithValue(matrix, row, day, value) = [ matrix EXCEPT !.cells = new ]
  BY DEF WithValue
<1>2. old \in [ DOMAIN old -> 1 .. FullDay ] /\ DOMAIN old \subseteq ToSet(matrix.rows) \X MonthDays
  BY DEF IsGrid
<1>3. /\ new \in [ DOMAIN new -> 1 .. FullDay ]
      /\ DOMAIN new \subseteq ToSet(matrix.rows) \X MonthDays
  <2>1. CASE value = 0
    BY <1>2, <2>1 DEF Cleared
  <2>2. CASE value # 0
    BY <1>2, <2>2 DEF ++
  <2> QED
    BY <2>1, <2>2
<1> HIDE DEF new
<1> QED
  BY <1>1, <1>3, GridWithCells

\* A row added before Absence.
LEMMA GridWithRow ==
    ASSUME NEW matrix, IsGrid(matrix), NEW row \in Activities
    PROVE  /\ IsGrid(AddRow(matrix, row))
           /\ AddRow(matrix, row).cells = matrix.cells
           /\ ToSet(AddRow(matrix, row).rows) = ToSet(matrix.rows) \cup {row}
<1>1. CASE row \in ToSet(matrix.rows)
  BY <1>1 DEF AddRow
<1>2. CASE row \notin ToSet(matrix.rows)
  <2> DEFINE before == Kept(matrix.rows, ToSet(matrix.rows) \ {Absence})
             after == << row, Absence >>
             rows == before \o after
  <2>1. AddRow(matrix, row) = [ rows |-> rows, cells |-> matrix.cells ]
    BY <1>2 DEF AddRow, IsGrid
  <2>2. row # Absence
    BY <1>2, GridRows
  <2>3. /\ before \in Seq(Activities) /\ IsInjective(before)
        /\ ToSet(before) = ToSet(matrix.rows) \ {Absence}
    BY KeptFacts DEF IsGrid, Activities
  <2>4. /\ after \in Seq(Activities) /\ after # << >>
        /\ IsInjective(after) /\ ToSet(after) = {row, Absence} /\ Last(after) = Absence
    <3>1. after \in Seq(Activities) /\ Len(after) = 2 /\ DOMAIN after = {1, 2}
          /\ after[1] = row /\ after[2] = Absence
      BY DEF Activities
    <3> HIDE DEF after
    <3>2. IsInjective(after) /\ ToSet(after) = {row, Absence}
      BY <2>2, <3>1 DEF IsInjective, ToSet
    <3>3. after # << >> /\ Last(after) = Absence
      BY <3>1 DEF Last
    <3> QED
      BY <3>1, <3>2, <3>3
  <2>5. ToSet(before) \cap ToSet(after) = {}
    BY <1>2, <2>3, <2>4
  <2> HIDE DEF before, after
  <2>6. /\ rows \in Seq(Activities) /\ IsInjective(rows) /\ rows # << >>
        /\ ToSet(rows) = ToSet(before) \cup ToSet(after) /\ Last(rows) = Absence
    BY <2>3, <2>4, <2>5, Concatenated
  <2>7. ToSet(rows) = ToSet(matrix.rows) \cup {row}
    BY <2>3, <2>4, <2>6, GridRows
  <2> HIDE DEF rows
  <2> QED
    BY <2>1, <2>6, <2>7 DEF IsGrid, Activities
<1> QED
  BY <1>1, <1>2

\* A row emptied, and a row removed.
LEMMA GridCleared ==
    ASSUME NEW matrix, IsGrid(matrix), NEW row
    PROVE  /\ IsGrid(ClearRow(matrix, row))
           /\ ClearRow(matrix, row).rows = matrix.rows
           /\ \A at \in DOMAIN ClearRow(matrix, row).cells : at[1] # row
<1> DEFINE new == Cleared(matrix.cells, {row} \X MonthDays)
<1>1. ClearRow(matrix, row) = [ matrix EXCEPT !.cells = new ]
  BY DEF ClearRow
<1>2. /\ new \in [ DOMAIN new -> 1 .. FullDay ]
      /\ DOMAIN new \subseteq ToSet(matrix.rows) \X MonthDays
      /\ \A at \in DOMAIN new : at[1] # row
  BY DEF Cleared, IsGrid
<1> HIDE DEF new
<1> QED
  BY <1>1, <1>2, GridWithCells

LEMMA GridWithoutRow ==
    ASSUME NEW matrix, IsGrid(matrix), NEW row, row # Absence
    PROVE  IsGrid(RemoveRow(matrix, row))
<1> DEFINE cleared == ClearRow(matrix, row)
           rows == Kept(cleared.rows, ToSet(cleared.rows) \ {row})
<1>1. /\ IsGrid(cleared) /\ cleared.rows = matrix.rows
      /\ \A at \in DOMAIN cleared.cells : at[1] # row
  BY GridCleared
<1>2. RemoveRow(matrix, row) = [ cleared EXCEPT !.rows = rows ]
  BY DEF RemoveRow
<1> HIDE DEF cleared
<1>3. RemoveRow(matrix, row) = [ rows |-> rows, cells |-> cleared.cells ]
  BY <1>1, <1>2 DEF IsGrid
<1>4. Last(cleared.rows) \in ToSet(cleared.rows) \ {row}
  BY <1>1, GridRows DEF IsGrid
<1>5. /\ rows \in Seq(Activities) /\ IsInjective(rows) /\ rows # << >> /\ Last(rows) = Absence
      /\ ToSet(rows) = ToSet(cleared.rows) \ {row}
  <2> DEFINE seq == cleared.rows
             set == ToSet(seq) \ {row}
  <2>1. /\ seq \in Seq(Activities) /\ IsInjective(seq) /\ seq # << >> /\ Last(seq) = Absence
        /\ Last(seq) \in set
    BY <1>1, <1>4 DEF IsGrid, Activities
  <2>2. set = ToSet(seq) \ {row} /\ rows = Kept(seq, set)
    OBVIOUS
  <2> HIDE DEF rows, seq, set
  <2>3. /\ Kept(seq, set) \in Seq(Activities) /\ IsInjective(Kept(seq, set))
        /\ Kept(seq, set) # << >> /\ Last(Kept(seq, set)) = Last(seq)
        /\ ToSet(Kept(seq, set)) = ToSet(seq) \cap set
    BY <2>1, KeptFacts
  <2> QED
    BY <2>1, <2>2, <2>3 DEF seq
<1>6. DOMAIN cleared.cells \subseteq ToSet(rows) \X MonthDays
  BY <1>1, <1>5 DEF IsGrid
<1> HIDE DEF rows
<1> QED
  BY <1>1, <1>3, <1>5, <1>6 DEF IsGrid, Activities

-----------------------------------------------------------------------------
(***************************************************************************)
(* The totals.  A column of the grid adds up to what the server will count *)
(* on that day in the lines a save sends.                                  *)
(***************************************************************************)

CellsOf(matrix, day) == { at \in DOMAIN matrix.cells : at[2] = day }
LinesOn(lines, day)  == { line \in lines : line.day = day }

\* The totals are sums.
LEMMA DayTotalSum ==
    ASSUME NEW matrix, IsGrid(matrix), NEW day
    PROVE  /\ IsFiniteSet(CellsOf(matrix, day))
           /\ [ at \in CellsOf(matrix, day) |-> matrix.cells[at] ]
                 \in [ CellsOf(matrix, day) -> 1 .. FullDay ]
           /\ \E g : /\ IsSum(g, CellsOf(matrix, day),
                              [ at \in CellsOf(matrix, day) |-> matrix.cells[at] ])
                    /\ DayTotal(matrix, day) = g[CellsOf(matrix, day)]
<1> DEFINE S == CellsOf(matrix, day)
           w == [ at \in S |-> matrix.cells[at] ]
           P(g) == g = [ s \in SUBSET S |->
                         IF s = {} THEN 0 ELSE matrix.cells[CHOOSE x \in s : TRUE]
                                               + g[s \ {CHOOSE x \in s : TRUE}] ]
           iter == CHOOSE g : P(g)
<1>1. DayTotal(matrix, day) = iter[S]
  BY DEF DayTotal, MapThenSumSet, MapThenFoldSet, CellsOf
<1>2. IsFiniteSet(S)
  BY GridFinite, FS_Subset DEF CellsOf
<1>3. w \in [ S -> 1 .. FullDay ]
  BY DEF IsGrid, CellsOf
<1>4. \A g : P(g) <=> IsSum(g, S, w)
  <2> HIDE DEF S
  <2> QED
    BY ChosenIn DEF Chosen, IsSum
<1>5. \E g : IsSum(g, S, w)
  <2>1. w \in [ S -> Nat ]
    BY <1>3 DEF FullDay
  <2> HIDE DEF S, w
  <2> QED
    BY <1>2, <2>1, SumExists
<1>6. P(iter)
  <2> HIDE DEF P
  <2> QED
    BY <1>4, <1>5
<1> HIDE DEF P, iter
<1> QED
  BY <1>1, <1>2, <1>3, <1>4, <1>6

LEMMA QuarterDaysOnSum ==
    ASSUME NEW lines, IsFiniteSet(lines), lines \subseteq Lines, NEW day
    PROVE  /\ IsFiniteSet(LinesOn(lines, day))
           /\ [ line \in LinesOn(lines, day) |-> line.quarterDays ]
                 \in [ LinesOn(lines, day) -> 1 .. FullDay ]
           /\ \E g : /\ IsSum(g, LinesOn(lines, day),
                              [ line \in LinesOn(lines, day) |-> line.quarterDays ])
                    /\ QuarterDaysOn(lines, day) = g[LinesOn(lines, day)]
<1> DEFINE S == LinesOn(lines, day)
           w == [ line \in S |-> line.quarterDays ]
           P(g) == g = [ s \in SUBSET S |->
                         IF s = {} THEN 0 ELSE (CHOOSE x \in s : TRUE).quarterDays
                                               + g[s \ {CHOOSE x \in s : TRUE}] ]
           iter == CHOOSE g : P(g)
<1>1. QuarterDaysOn(lines, day) = iter[S]
  BY DEF QuarterDaysOn, MapThenSumSet, MapThenFoldSet, LinesOn
<1>2. IsFiniteSet(S)
  BY FS_Subset DEF LinesOn
<1>3. w \in [ S -> 1 .. FullDay ]
  BY DEF Lines, LinesOn
<1>4. \A g : P(g) <=> IsSum(g, S, w)
  <2> HIDE DEF S
  <2> QED
    BY ChosenIn DEF Chosen, IsSum
<1>5. \E g : IsSum(g, S, w)
  <2>1. w \in [ S -> Nat ]
    BY <1>3 DEF FullDay
  <2> HIDE DEF S, w
  <2> QED
    BY <1>2, <2>1, SumExists
<1>6. P(iter)
  <2> HIDE DEF P
  <2> QED
    BY <1>4, <1>5
<1> HIDE DEF P, iter
<1> QED
  BY <1>1, <1>2, <1>3, <1>4, <1>6

\* A total is a number, and 0 when nothing is entered.
LEMMA DayTotalNat ==
    ASSUME NEW matrix, IsGrid(matrix), NEW day
    PROVE  /\ DayTotal(matrix, day) \in Nat
           /\ DayTotal(matrix, day) = 0 <=> CellsOf(matrix, day) = {}
<1> DEFINE S == CellsOf(matrix, day)
           w == [ at \in S |-> matrix.cells[at] ]
<1>1. IsFiniteSet(S) /\ w \in [ S -> 1 .. FullDay ]
  BY DayTotalSum
<1>2. PICK g : IsSum(g, S, w) /\ DayTotal(matrix, day) = g[S]
  BY DayTotalSum
<1>3. w \in [ S -> Nat ] /\ w \in [ S -> Nat \ {0} ]
  BY <1>1 DEF FullDay
<1> HIDE DEF S, w
<1>4. S \in SUBSET S
  OBVIOUS
<1>5. g[S] \in Nat
  BY <1>1, <1>2, <1>3, <1>4, SumNat
<1>6. g[S] = 0 <=> S = {}
  BY <1>1, <1>2, <1>3, SumPositive
<1> QED
  BY <1>2, <1>5, <1>6 DEF S

\* The line a cell is sent as.
Entry(matrix, at) ==
    [ day |-> at[2], mission |-> IF at[1] = Absence THEN None ELSE at[1],
      quarterDays |-> matrix.cells[at] ]

\* Each cell is sent as a line of its own, on its day, and on its row.
LEMMA EntryFacts ==
    ASSUME NEW matrix, IsGrid(matrix)
    PROVE  /\ EntriesFromMatrix(matrix) = { Entry(matrix, at) : at \in DOMAIN matrix.cells }
           /\ EntriesFromMatrix(matrix) \subseteq Lines
           /\ IsFiniteSet(EntriesFromMatrix(matrix))
           /\ \A at \in DOMAIN matrix.cells :
                /\ at = << at[1], at[2] >> /\ at[1] \in ToSet(matrix.rows) /\ at[2] \in MonthDays
                /\ Entry(matrix, at) \in EntriesFromMatrix(matrix)
                /\ Entry(matrix, at).day = at[2]
                /\ RowOf(Entry(matrix, at)) = at[1]
                /\ Entry(matrix, at).quarterDays = matrix.cells[at]
                /\ matrix.cells[at] \in 1 .. FullDay
<1>1. EntriesFromMatrix(matrix) = { Entry(matrix, at) : at \in DOMAIN matrix.cells }
  BY DEF EntriesFromMatrix, Entry
<1>2. ASSUME NEW at \in DOMAIN matrix.cells
      PROVE  /\ at = << at[1], at[2] >> /\ at[1] \in ToSet(matrix.rows) /\ at[2] \in MonthDays
             /\ at[1] \in Activities /\ matrix.cells[at] \in 1 .. FullDay
  BY GridRows DEF IsGrid
<1>3. ASSUME NEW at \in DOMAIN matrix.cells
      PROVE  /\ Entry(matrix, at).day = at[2]
             /\ RowOf(Entry(matrix, at)) = at[1]
             /\ Entry(matrix, at).quarterDays = matrix.cells[at]
             /\ Entry(matrix, at) \in Lines
  BY <1>2, RowsAssumption DEF Entry, RowOf, Lines, Activities
<1>4. IsFiniteSet(EntriesFromMatrix(matrix))
  <2> DEFINE h == [ at \in DOMAIN matrix.cells |-> Entry(matrix, at) ]
  <2>1. h \in Surjection(DOMAIN matrix.cells, EntriesFromMatrix(matrix))
    BY <1>1 DEF Surjection
  <2> HIDE DEF h
  <2> QED
    BY <2>1, GridFinite, FS_Surjection
<1>5. EntriesFromMatrix(matrix) \subseteq Lines
  BY <1>1, <1>3
<1>6. ASSUME NEW at \in DOMAIN matrix.cells PROVE Entry(matrix, at) \in EntriesFromMatrix(matrix)
  BY <1>1
<1> QED
  BY <1>1, <1>2, <1>3, <1>4, <1>5, <1>6

\* The total shown is the total counted.
LEMMA SameTotals ==
    ASSUME NEW matrix, IsGrid(matrix), NEW day
    PROVE  QuarterDaysOn(EntriesFromMatrix(matrix), day) = DayTotal(matrix, day)
<1> DEFINE lines == EntriesFromMatrix(matrix)
           S == CellsOf(matrix, day)
           w == [ at \in S |-> matrix.cells[at] ]
           T == LinesOn(lines, day)
           v == [ line \in T |-> line.quarterDays ]
           h == [ at \in S |-> Entry(matrix, at) ]
<1>1. IsFiniteSet(S) /\ w \in [ S -> 1 .. FullDay ]
  BY DayTotalSum
<1>2. PICK g : IsSum(g, S, w) /\ DayTotal(matrix, day) = g[S]
  BY DayTotalSum
<1>3. IsFiniteSet(lines) /\ lines \subseteq Lines
  BY EntryFacts
<1>4. IsFiniteSet(T) /\ v \in [ T -> 1 .. FullDay ]
  BY <1>3, QuarterDaysOnSum
<1>5. PICK f : IsSum(f, T, v) /\ QuarterDaysOn(lines, day) = f[T]
  BY <1>3, QuarterDaysOnSum
<1>6. w \in [ S -> Nat ] /\ v \in [ T -> Nat ]
  BY <1>1, <1>4 DEF FullDay
<1>7. \A at \in S : /\ at \in DOMAIN matrix.cells /\ at = << at[1], at[2] >>
                    /\ Entry(matrix, at) \in T
                    /\ v[Entry(matrix, at)] = w[at]
                    /\ RowOf(Entry(matrix, at)) = at[1] /\ at[2] = day
  BY EntryFacts DEF CellsOf, LinesOn
<1>8. { h[at] : at \in S } = T
  <2>1. ASSUME NEW line \in T PROVE \E at \in S : line = h[at]
    <3>1. PICK at \in DOMAIN matrix.cells : line = Entry(matrix, at)
      BY EntryFacts DEF LinesOn
    <3>2. at \in S
      BY <3>1, EntryFacts DEF LinesOn, CellsOf
    <3> QED
      BY <3>1, <3>2
  <2>2. ASSUME NEW at \in S PROVE h[at] \in T
    BY <1>7
  <2> QED
    BY <2>1, <2>2
<1>9. h \in [ S -> T ] /\ \A at \in S : v[h[at]] = w[at]
  BY <1>7
<1>10. \A a \in S : \A b \in S : h[a] = h[b] => a = b
  <2>1. ASSUME NEW a \in S, NEW b \in S, h[a] = h[b] PROVE a = b
    <3>1. Entry(matrix, a) = Entry(matrix, b)
      BY <2>1
    <3>2. /\ a = << a[1], a[2] >> /\ RowOf(Entry(matrix, a)) = a[1] /\ a[2] = day
          /\ b = << b[1], b[2] >> /\ RowOf(Entry(matrix, b)) = b[1] /\ b[2] = day
      BY <1>7
    <3> QED
      BY <3>1, <3>2
  <2> QED
    BY <2>1
<1> HIDE DEF S, w, T, v, h
<1>11. S \in SUBSET S
  OBVIOUS
<1>12. g[S] = f[{ h[at] : at \in S }]
  BY <1>1, <1>2, <1>4, <1>5, <1>6, <1>9, <1>10, <1>11, SumRenamed
<1> QED
  BY <1>2, <1>5, <1>8, <1>12

\* One full day on a day makes a total of a full day.
LEMMA OneFullDay ==
    ASSUME NEW matrix, IsGrid(matrix), NEW day, NEW at, CellsOf(matrix, day) = {at},
           matrix.cells[at] = FullDay
    PROVE  DayTotal(matrix, day) = FullDay
<1> DEFINE S == CellsOf(matrix, day)
           w == [ x \in S |-> matrix.cells[x] ]
<1>1. IsFiniteSet(S) /\ w \in [ S -> 1 .. FullDay ]
  BY DayTotalSum
<1>2. PICK g : IsSum(g, S, w) /\ DayTotal(matrix, day) = g[S]
  BY DayTotalSum
<1>3. w \in [ S -> Nat ] /\ S = {at} /\ w[at] = FullDay
  BY <1>1 DEF FullDay
<1> HIDE DEF S, w
<1>4. S \in SUBSET S /\ {} \in SUBSET S /\ at \in S /\ S \ {at} = {}
  BY <1>3
<1>5. g[S] = w[at] + g[S \ {at}]
  BY <1>1, <1>2, <1>3, <1>4, SumRemove
<1>6. g[{}] = 0
  BY <1>2, <1>4, IsSumEq
<1> QED
  BY <1>2, <1>3, <1>4, <1>5, <1>6 DEF FullDay

-----------------------------------------------------------------------------
(***************************************************************************)
(* The fills.  Each gives days nothing is entered on to the row that asks  *)
(* for them, and a fill after another gives them once.                     *)
(***************************************************************************)

\* What a fill may make of a day: nothing, or a full day of one row it may be given to.
Untouched(old, new, day) ==
    /\ CellsOf(new, day) = CellsOf(old, day)
    /\ \A at \in CellsOf(old, day) : new.cells[at] = old.cells[at]

Given(old, new, day, row) ==
    /\ CellsOf(old, day) = {}
    /\ CellsOf(new, day) = {<< row, day >>}
    /\ new.cells[<< row, day >>] = FullDay
    /\ day \in Workable /\ day \in AssignableOn(row)

FilledFrom(old, new) ==
    \A day \in MonthDays :
      Untouched(old, new, day) \/ \E row \in Activities : Given(old, new, day, row)

LEMMA FilledTwice ==
    ASSUME NEW old, NEW mid, NEW new, FilledFrom(old, mid), FilledFrom(mid, new)
    PROVE  FilledFrom(old, new)
<1>1. SUFFICES ASSUME NEW day \in MonthDays
               PROVE  Untouched(old, new, day) \/ \E row \in Activities : Given(old, new, day, row)
  BY DEF FilledFrom
<1>2. CASE Untouched(old, mid, day) /\ Untouched(mid, new, day)
  BY <1>2 DEF Untouched
<1>3. CASE Untouched(old, mid, day) /\ \E row \in Activities : Given(mid, new, day, row)
  BY <1>3 DEF Untouched, Given
<1>4. CASE (\E row \in Activities : Given(old, mid, day, row)) /\ Untouched(mid, new, day)
  BY <1>4 DEF Untouched, Given
<1>5. CASE /\ \E row \in Activities : Given(old, mid, day, row)
           /\ \E row \in Activities : Given(mid, new, day, row)
  BY <1>5 DEF Given
<1> QED
  BY <1>2, <1>3, <1>4, <1>5 DEF FilledFrom

\* The same cells, or a row more: no day is touched.
LEMMA FilledAlike ==
    ASSUME NEW old, NEW new, new.cells = old.cells
    PROVE  FilledFrom(old, new)
  BY DEF FilledFrom, Untouched, CellsOf

\* fillEmptyWorkdays.
LEMMA RowFilled ==
    ASSUME NEW matrix, IsGrid(matrix), NEW row \in ToSet(matrix.rows),
           NEW days, days \subseteq Workable, NEW allowed, allowed \subseteq AssignableOn(row)
    PROVE  /\ IsGrid(FillEmptyWorkdays(matrix, row, days, allowed))
           /\ FilledFrom(matrix, FillEmptyWorkdays(matrix, row, days, allowed))
<1> DEFINE filled == { day \in days \cap allowed : DayTotal(matrix, day) = 0 }
           given == [ at \in {row} \X filled |-> FullDay ]
           cells == given ++ matrix.cells
           new == FillEmptyWorkdays(matrix, row, days, allowed)
<1>1. new = [ matrix EXCEPT !.cells = cells ]
  BY DEF FillEmptyWorkdays
<1>2. /\ filled \subseteq Workable /\ filled \subseteq AssignableOn(row)
      /\ filled \subseteq MonthDays
      /\ \A day \in filled : CellsOf(matrix, day) = {}
  BY MonthAssumption, DayTotalNat
<1> HIDE DEF filled
<1>3. matrix.cells \in [ DOMAIN matrix.cells -> 1 .. FullDay ]
      /\ DOMAIN matrix.cells \subseteq ToSet(matrix.rows) \X MonthDays
  BY DEF IsGrid
<1>4. /\ DOMAIN cells = ({row} \X filled) \cup DOMAIN matrix.cells
      /\ \A at \in {row} \X filled : cells[at] = FullDay
      /\ \A at \in DOMAIN matrix.cells : at \notin {row} \X filled => cells[at] = matrix.cells[at]
      /\ cells = [ at \in DOMAIN cells |-> cells[at] ]
  BY DEF ++
<1> HIDE DEF cells, new
<1>5. cells \in [ DOMAIN cells -> 1 .. FullDay ]
  BY <1>3, <1>4 DEF FullDay
<1>6. DOMAIN cells \subseteq ToSet(matrix.rows) \X MonthDays
  BY <1>2, <1>3, <1>4
<1>7. IsGrid(new) /\ new.cells = cells
  BY <1>1, <1>5, <1>6, GridWithCells
<1>8. ASSUME NEW day \in MonthDays, day \in filled PROVE Given(matrix, new, day, row)
  <2>1. CellsOf(matrix, day) = {}
    BY <1>2, <1>8
  <2>2. << row, day >> \in {row} \X filled
    BY <1>8
  <2>3. CellsOf(new, day) = {<< row, day >>}
    <3>1. ASSUME NEW at \in DOMAIN cells, at[2] = day PROVE at = << row, day >>
      BY <1>4, <2>1, <3>1 DEF CellsOf
    <3>2. << row, day >> \in DOMAIN cells /\ << row, day >>[2] = day
      BY <1>4, <2>2
    <3> QED
      BY <1>7, <3>1, <3>2 DEF CellsOf
  <2> QED
    BY <1>2, <1>4, <1>7, <1>8, <2>1, <2>2, <2>3 DEF Given
<1>9. ASSUME NEW day \in MonthDays, day \notin filled PROVE Untouched(matrix, new, day)
  <2>1. \A at \in {row} \X filled : at[2] # day
    BY <1>9
  <2> QED
    BY <1>4, <1>7, <2>1 DEF Untouched, CellsOf
<1>10. row \in Activities
  BY GridRows
<1> QED
  BY <1>7, <1>8, <1>9, <1>10 DEF FilledFrom, new

\* A row of the week, added if need be.
LEMMA RowOfWeekFilled ==
    ASSUME NEW matrix, IsGrid(matrix), NEW row \in ToSet(Offered) \cup {Absence}, NEW week
    PROVE  /\ IsGrid(WeekFilled(matrix, row, week))
           /\ FilledFrom(matrix, WeekFilled(matrix, row, week))
<1> DEFINE added == AddRow(matrix, row)
<1>1. row \in Activities
  BY RowsAssumption DEF Activities, ToSet
<1>2. /\ IsGrid(added) /\ added.cells = matrix.cells /\ row \in ToSet(added.rows)
  BY <1>1, GridWithRow
<1>3. WeekFilled(matrix, row, week)
        = FillEmptyWorkdays(added, row, week \cap Workable, AssignableOn(row))
  BY DEF WeekFilled
<1> HIDE DEF added
<1>4. week \cap Workable \subseteq Workable /\ AssignableOn(row) \subseteq AssignableOn(row)
  OBVIOUS
<1>5. /\ IsGrid(WeekFilled(matrix, row, week))
      /\ FilledFrom(added, WeekFilled(matrix, row, week))
  BY <1>2, <1>3, <1>4, RowFilled
<1> QED
  BY <1>2, <1>5, FilledAlike, FilledTwice

\* A mission of the previous month.
LEMMA MissionCopied ==
    ASSUME NEW matrix, IsGrid(matrix), NEW mission \in ToSet(Offered)
    PROVE  /\ IsGrid(CopiedOnto(matrix, mission))
           /\ FilledFrom(matrix, CopiedOnto(matrix, mission))
<1> DEFINE added == AddRow(matrix, mission)
           filled == FillEmptyWorkdays(added, mission, Workable, Assignable[mission])
<1>1. mission \in Missions /\ mission \in Activities /\ mission # Absence
  BY RowsAssumption DEF Activities, ToSet
<1>2. /\ IsGrid(added) /\ added.cells = matrix.cells /\ mission \in ToSet(added.rows)
  BY <1>1, GridWithRow
<1>3. Workable \subseteq Workable /\ Assignable[mission] \subseteq AssignableOn(mission)
  BY <1>1 DEF AssignableOn
<1>4. CopiedOnto(matrix, mission) = filled \/ CopiedOnto(matrix, mission) = matrix
  BY DEF CopiedOnto
<1> HIDE DEF added
<1>5. IsGrid(filled) /\ FilledFrom(added, filled)
  BY <1>2, <1>3, RowFilled
<1> HIDE DEF filled
<1> QED
  BY <1>2, <1>4, <1>5, FilledAlike, FilledTwice

\* The month filled from the previous one, mission after mission.
LEMMA MonthCopied ==
    ASSUME NEW matrix, IsGrid(matrix), NEW worked
    PROVE  /\ IsGrid(PlanCopyPreviousMonth(matrix, worked))
           /\ FilledFrom(matrix, PlanCopyPreviousMonth(matrix, worked))
<1> DEFINE N == Len(Offered)
           Round(n, before) == IF Offered[n] \in worked THEN CopiedOnto(before, Offered[n])
                               ELSE before
           IsPlan(p) == p = [ n \in 0 .. N |-> IF n = 0 THEN matrix ELSE Round(n, p[n - 1]) ]
           plan == CHOOSE p : IsPlan(p)
           Matrices == [ rows : Seq(Activities),
                         cells : UNION { [ some -> 1 .. FullDay ]
                                         : some \in SUBSET (Activities \X MonthDays) } ]
           Grids == { m \in Matrices : IsGrid(m) }
           step == [ p \in (1 .. N) \X Grids |-> Round(p[1], p[2]) ]
           good == { n \in 0 .. N : IsGrid(plan[n]) /\ FilledFrom(matrix, plan[n]) }
<1>1. PlanCopyPreviousMonth(matrix, worked) = plan[N]
  BY DEF PlanCopyPreviousMonth
<1>2. \A m : m \in Grids <=> IsGrid(m)
  <2>1. ASSUME NEW m, IsGrid(m) PROVE m \in Matrices
    <3>1. DOMAIN m.cells \in SUBSET (Activities \X MonthDays)
      BY <2>1, GridRows DEF IsGrid
    <3>2. m.rows \in Seq(Activities) /\ m.cells \in [ DOMAIN m.cells -> 1 .. FullDay ]
          /\ m = [ rows |-> m.rows, cells |-> m.cells ]
      BY <2>1 DEF IsGrid, Activities
    <3> QED
      BY <3>1, <3>2
  <2> QED
    BY <2>1
<1>3. N \in Nat /\ \A n \in 1 .. N : Offered[n] \in ToSet(Offered)
  BY RowsAssumption DEF ToSet
<1> HIDE DEF Matrices, Grids, N
<1>4. \A n \in 1 .. N, m \in Grids : Round(n, m) \in Grids /\ FilledFrom(m, Round(n, m))
  <2>1. ASSUME NEW n \in 1 .. N, NEW m \in Grids
        PROVE  Round(n, m) \in Grids /\ FilledFrom(m, Round(n, m))
    <3>1. IsGrid(m) /\ Offered[n] \in ToSet(Offered)
      BY <1>2, <1>3
    <3>2. IsGrid(CopiedOnto(m, Offered[n])) /\ FilledFrom(m, CopiedOnto(m, Offered[n]))
      BY <3>1, MissionCopied
    <3> QED
      BY <1>2, <3>1, <3>2, FilledAlike
  <2> QED
    BY <2>1
<1> HIDE DEF Round
<1>5. /\ step \in [ (1 .. N) \X Grids -> Grids ]
      /\ \A n \in 1 .. N, m \in Grids : step[<< n, m >>] = Round(n, m)
  BY <1>4
<1> HIDE DEF step
<1>6. PICK g \in [ 0 .. N -> Grids ] :
             g[0] = matrix /\ \A n \in 1 .. N : g[n] = step[<< n, g[n - 1] >>]
  <2> HIDE DEF plan
  <2>1. matrix \in Grids
    BY <1>2
  <2>2. \E g \in [ 0 .. N -> Grids ] : Runs(g, N, matrix, step)
    BY <1>3, <1>5, <2>1, LoopExists
  <2> QED
    BY <2>2 DEF Runs
<1>7. IsPlan(g)
  <2> DEFINE f == [ n \in 0 .. N |-> IF n = 0 THEN matrix ELSE Round(n, g[n - 1]) ]
  <2>1. ASSUME NEW n \in 0 .. N PROVE g[n] = f[n]
    <3>1. CASE n = 0
      BY <1>6, <3>1
    <3>2. CASE n # 0
      <4>1. n \in 1 .. N /\ n - 1 \in 0 .. N
        BY <1>3, <3>2
      <4> QED
        BY <1>5, <1>6, <3>2, <4>1
    <3> QED
      BY <3>1, <3>2
  <2>2. g = [ n \in 0 .. N |-> g[n] ] /\ f = [ n \in 0 .. N |-> f[n] ]
    OBVIOUS
  <2> HIDE DEF f
  <2>3. g = f
    BY <2>1, <2>2
  <2> QED
    BY <2>3 DEF f
<1>8. IsPlan(plan)
  <2> HIDE DEF IsPlan
  <2>1. \E p : IsPlan(p)
    BY <1>7
  <2> QED
    BY <2>1
<1> HIDE DEF plan
<1>9. plan[0] = matrix /\ \A n \in 1 .. N : plan[n] = Round(n, plan[n - 1])
  BY <1>3, <1>8
<1> HIDE DEF IsPlan
<1>10. 0 \in good
  BY <1>3, <1>9, FilledAlike
<1>11. \A n \in 1 .. N : n - 1 \in good => n \in good
  <2>1. SUFFICES ASSUME NEW n \in 1 .. N, n - 1 \in good PROVE n \in good
    OBVIOUS
  <2>2. IsGrid(plan[n - 1]) /\ FilledFrom(matrix, plan[n - 1]) /\ n \in 0 .. N
    BY <2>1, <1>3
  <2>3. plan[n - 1] \in Grids /\ plan[n] = Round(n, plan[n - 1])
    BY <1>2, <1>9, <2>2
  <2>4. IsGrid(plan[n]) /\ FilledFrom(plan[n - 1], plan[n])
    BY <1>2, <1>4, <2>3
  <2>5. FilledFrom(matrix, plan[n])
    BY <2>2, <2>4, FilledTwice
  <2> QED
    BY <2>2, <2>4, <2>5
<1>12. N \in good
  <2> HIDE DEF good
  <2>1. \A n \in 0 .. N : n \in good
    BY <1>3, <1>10, <1>11, RoundsHold
  <2> QED
    BY <1>3, <2>1
<1> QED
  BY <1>1, <1>12

-----------------------------------------------------------------------------
(***************************************************************************)
(* The cells, action by action.                                            *)
(***************************************************************************)

\* What the grid's state holds of cells, and could be opened on.
GridCells(g) ==
    /\ IsGrid(g.matrix)
    /\ g.undo # None => IsGrid(g.undo)
    /\ g.conflict # None => g.conflict.version.month.lines \subseteq Lines

LEMMA OpenedCells ==
    ASSUME NEW answer, answer.version.month.lines \subseteq Lines
    PROVE  GridCells(Opened(answer))
<1>1. IsGrid(InitMatrix(answer.version.month.lines))
  BY GridOpened
<1> QED
  BY <1>1 DEF GridCells, Opened

LEMMA RenderedCells ==
    ASSUME NEW g, IsState(g), GridCells(g), Render(g),
           data'.version.month.lines \subseteq Lines
    PROVE  GridCells(grid')
<1>0. Pending(save') \in BOOLEAN /\ grid' = Resync(g, data', Pending(save'))
  BY DEF Render, Pending
<1>1. CASE grid' = g
  BY <1>1
<1>2. CASE grid' = Opened(data')
  BY <1>2, OpenedCells
<1>3. CASE grid' = [ synced |-> g.synced, matrix |-> g.matrix, dirty |-> g.dirty,
                     undo |-> g.undo, conflict |-> data' ]
  <2>1. grid'.matrix = g.matrix /\ grid'.undo = g.undo /\ grid'.conflict = data'
    BY <1>3
  <2> QED
    BY <2>1 DEF GridCells
<1> QED
  BY <1>0, <1>1, <1>2, <1>3, Resynced

\* A grid still dirty after a render shows what it was given.
LEMMA DirtyShown ==
    ASSUME NEW g, IsState(g), Render(g), grid'.dirty
    PROVE  grid'.matrix = g.matrix
<1>0. Pending(save') \in BOOLEAN /\ grid' = Resync(g, data', Pending(save'))
  BY DEF Render, Pending
<1>1. ~ Opened(data').dirty
  BY OpenedFacts
<1> QED
  BY <1>0, <1>1, Resynced

\* The state the reducer leaves after an edit, with its undo or without.
EditedTo(matrix, undo) ==
    [ synced |-> grid.synced, matrix |-> matrix, dirty |-> TRUE,
      undo |-> undo, conflict |-> grid.conflict ]

LEMMA EditedFacts ==
    ASSUME GridInv, NEW matrix
    PROVE  /\ IsState(grid)
           /\ Edit(matrix) => Dispatch(EditedTo(matrix, grid.undo))
           /\ EditWithUndo(matrix) => Dispatch(EditedTo(matrix, grid.matrix))
           /\ \A undo : /\ IsState(EditedTo(matrix, undo))
                       /\ EditedTo(matrix, undo).matrix = matrix
                       /\ EditedTo(matrix, undo).undo = undo
                       /\ EditedTo(matrix, undo).conflict = grid.conflict
<1>0. IsState(grid)
  BY DEF GridInv, GridShape, IsState
<1>1. ASSUME Edit(matrix) PROVE Dispatch(EditedTo(matrix, grid.undo))
  <2>1. [ grid EXCEPT !.matrix = matrix, !.dirty = TRUE ] = EditedTo(matrix, grid.undo)
    BY <1>0, Reduced, Zenon DEF EditedTo
  <2> QED
    BY <1>1, <2>1 DEF Edit
<1>2. ASSUME EditWithUndo(matrix) PROVE Dispatch(EditedTo(matrix, grid.matrix))
  <2>1. [ grid EXCEPT !.matrix = matrix, !.dirty = TRUE, !.undo = grid.matrix ]
          = EditedTo(matrix, grid.matrix)
    BY <1>0, ReducedWithUndo DEF EditedTo
  <2> QED
    BY <1>2, <2>1 DEF EditWithUndo
<1>3. ASSUME NEW undo
      PROVE  /\ IsState(EditedTo(matrix, undo))
             /\ EditedTo(matrix, undo).matrix = matrix
             /\ EditedTo(matrix, undo).undo = undo
             /\ EditedTo(matrix, undo).conflict = grid.conflict
  BY DEF EditedTo, IsState
<1> QED
  BY <1>0, <1>1, <1>2, <1>3

LEMMA CellsInit == Init => CellsInv
<1> SUFFICES ASSUME Init PROVE CellsInv
  OBVIOUS
<1>1. /\ server.month.lines \subseteq Lines /\ data.version.month.lines \subseteq Lines
      /\ grid = Opened(data)
  BY LinesAssumption DEF Init
<1>2. GridCells(grid)
  BY <1>1, OpenedCells
<1>3. ~ Pending(save) /\ fetch.state = "none"
  BY DEF Init, Pending, NoSave, NoFetch
<1> QED
  BY <1>1, <1>2, <1>3 DEF CellsInv, GridCells

LEMMA DispatchCells ==
    ASSUME CellsInv, NEW g, IsState(g), GridCells(g), Dispatch(g)
    PROVE  CellsInv'
<1>1. UNCHANGED << server, data, fetch, save >> /\ Render(g)
  BY DEF Dispatch
<1>2. GridCells(grid')
  BY <1>1, RenderedCells DEF CellsInv
<1>3. Pending(save') => Pending(save)
  BY <1>1
<1> QED
  BY <1>1, <1>2, <1>3 DEF CellsInv, GridCells

LEMMA EditCells ==
    ASSUME GridInv, CellsInv, NEW matrix, IsGrid(matrix), Edit(matrix) \/ EditWithUndo(matrix)
    PROVE  CellsInv'
<1>1. PICK undo \in {grid.undo, grid.matrix} : Dispatch(EditedTo(matrix, undo))
  BY EditedFacts
<1> DEFINE g == EditedTo(matrix, undo)
<1>2. IsState(g) /\ g.matrix = matrix /\ g.undo = undo /\ g.conflict = grid.conflict
  BY EditedFacts
<1> HIDE DEF g
<1>3. GridCells(g)
  BY <1>1, <1>2 DEF GridCells, CellsInv
<1> QED
  BY <1>1, <1>2, <1>3, DispatchCells DEF g

LEMMA CopyCells == ASSUME GridInv, CellsInv, CopyPreviousMonth PROVE CellsInv'
<1> DEFINE plan == PlanCopyPreviousMonth(grid.matrix, Previous)
           g == EditedTo(plan, grid.matrix)
<1>1. Dispatch([ grid EXCEPT !.matrix = plan, !.dirty = TRUE, !.undo = grid.matrix ])
  BY DEF CopyPreviousMonth
<1>2. IsGrid(plan)
  BY MonthCopied DEF CellsInv
<1> HIDE DEF plan
<1>3. IsState(grid) /\ IsState(g) /\ g.matrix = plan /\ g.undo = grid.matrix
      /\ g.conflict = grid.conflict
  BY EditedFacts
<1>4. [ grid EXCEPT !.matrix = plan, !.dirty = TRUE, !.undo = grid.matrix ] = g
  <2>1. [ grid EXCEPT !.matrix = plan, !.dirty = TRUE, !.undo = grid.matrix ]
          = [ synced |-> grid.synced, matrix |-> plan, dirty |-> TRUE,
              undo |-> grid.matrix, conflict |-> grid.conflict ]
    <3>1. IsState(grid)
      BY <1>3
    <3> QED
      BY <3>1, ReducedWithUndo
  <2> QED
    BY <2>1 DEF EditedTo
<1> HIDE DEF g
<1>5. GridCells(g)
  BY <1>2, <1>3 DEF GridCells, CellsInv
<1> QED
  BY <1>1, <1>3, <1>4, <1>5, DispatchCells

LEMMA UndoCells == ASSUME GridInv, CellsInv, Undo PROVE CellsInv'
<1> DEFINE g == EditedTo(grid.undo, None)
<1>1. /\ grid.undo # None
      /\ Dispatch([ grid EXCEPT !.matrix = grid.undo, !.dirty = TRUE, !.undo = None ])
  BY DEF Undo
<1>2. IsState(grid) /\ IsState(g) /\ g.matrix = grid.undo /\ g.undo = None
      /\ g.conflict = grid.conflict
  BY EditedFacts
<1>3. [ grid EXCEPT !.matrix = grid.undo, !.dirty = TRUE, !.undo = None ] = g
  <2>1. [ grid EXCEPT !.matrix = grid.undo, !.dirty = TRUE, !.undo = None ]
          = [ synced |-> grid.synced, matrix |-> grid.undo, dirty |-> TRUE,
              undo |-> None, conflict |-> grid.conflict ]
    <3>1. IsState(grid)
      BY <1>2
    <3> QED
      BY <3>1, ReducedWithUndo
  <2> QED
    BY <2>1 DEF EditedTo
<1> HIDE DEF g
<1>4. GridCells(g)
  BY <1>1, <1>2 DEF GridCells, CellsInv
<1> QED
  BY <1>1, <1>2, <1>3, <1>4, DispatchCells

LEMMA ConflictCells ==
    ASSUME GridInv, CellsInv, DiscardEditsAndReload \/ KeepEdits
    PROVE  CellsInv'
<1>1. grid.conflict # None /\ UNCHANGED << server, data, fetch, save >>
  BY DEF DiscardEditsAndReload, KeepEdits
<1>2. GridCells(grid')
  <2>1. CASE DiscardEditsAndReload
    <3>1. IsState(Opened(grid.conflict)) /\ GridCells(Opened(grid.conflict))
      BY <1>1, OpenedFacts, OpenedCells DEF CellsInv
    <3> QED
      BY <1>1, <2>1, <3>1, RenderedCells DEF DiscardEditsAndReload, CellsInv
  <2>2. CASE KeepEdits
    <3> DEFINE g == [ synced |-> grid.conflict, matrix |-> grid.matrix, dirty |-> grid.dirty,
                      undo |-> grid.undo, conflict |-> None ]
    <3>1. IsState(grid)
      BY DEF GridInv, GridShape, IsState
    <3>2. [ grid EXCEPT !.synced = grid.conflict, !.conflict = None ] = g
      BY <3>1, Reduced, Zenon
    <3>3. IsState(g) /\ GridCells(g)
      BY <3>1 DEF IsState, GridCells, CellsInv
    <3> HIDE DEF g
    <3>4. Render(g)
      BY <2>2, <3>2 DEF KeepEdits
    <3> QED
      BY <1>1, <3>3, <3>4, RenderedCells DEF CellsInv
  <2> QED
    BY <2>1, <2>2
<1>3. Pending(save') => Pending(save)
  BY <1>1
<1> QED
  BY <1>1, <1>2, <1>3 DEF CellsInv, GridCells

\* An answer that arrives, or a query in error.
LEMMA AnswerCells == ASSUME GridInv, CellsInv, Arrive \/ FetchFails PROVE CellsInv'
<1>0. IsState(grid) /\ GridCells(grid)
  BY DEF GridInv, GridShape, IsState, CellsInv, GridCells
<1>1. CASE Arrive
  <2>1. /\ fetch' = NoFetch /\ server' = server /\ data' = Shared(fetch.version)
        /\ fetch.version.month.lines \subseteq Lines
    BY <1>1 DEF Arrive, CellsInv
  <2>2. data'.version.month.lines \subseteq Lines
    BY <2>1 DEF Shared, CellsInv
  <2>3. GridCells(grid') /\ (Pending(save') => Pending(save) /\ save' = save)
    <3>1. CASE mounted
      <4>1. save' = save /\ Render(grid)
        BY <1>1, <3>1 DEF Arrive
      <4>2. Pending(save') => Pending(save)
        BY <4>1
      <4> QED
        BY <1>0, <2>2, <4>1, <4>2, RenderedCells
    <3>2. CASE ~ mounted
      <4>1. save' = NoSave /\ grid' = Opened(data')
        BY <1>1, <3>2 DEF Arrive
      <4>2. ~ Pending(save')
        BY <4>1 DEF Pending, NoSave
      <4> QED
        BY <2>2, <4>1, <4>2, OpenedCells
    <3> QED
      BY <3>1, <3>2
  <2>4. fetch'.state # "answered"
    BY <2>1 DEF NoFetch
  <2> QED
    BY <2>1, <2>2, <2>3, <2>4 DEF CellsInv, GridCells
<1>2. CASE FetchFails
  <2>1. /\ fetch' = NoFetch /\ server' = server /\ data' = data
        /\ save' = NoSave /\ grid' = Opened(data)
    BY <1>2 DEF FetchFails
  <2>2. GridCells(grid')
    BY <2>1, OpenedCells DEF CellsInv
  <2>3. ~ Pending(save') /\ fetch'.state # "answered"
    BY <2>1 DEF Pending, NoSave, NoFetch
  <2> QED
    BY <2>1, <2>2, <2>3 DEF CellsInv, GridCells
<1> QED
  BY <1>1, <1>2

\* The steps that leave the grid as it is.
LEMMA UnseenCells ==
    ASSUME GridInv, CellsInv, UNCHANGED << data, grid >>,
           server'.month.lines \subseteq Lines,
           fetch'.state = "answered" => fetch'.version.month.lines \subseteq Lines,
           Pending(save') => save'.body \subseteq Lines
    PROVE  CellsInv'
  BY DEF CellsInv

LEMMA SaveCells ==
    ASSUME GridInv, CellsInv, (\E submit \in BOOLEAN : Save(submit)) \/ RefuseSave \/ SaveFails
    PROVE  CellsInv'
<1>0. IsState(grid) /\ GridCells(grid)
  BY DEF GridInv, GridShape, IsState, CellsInv, GridCells
<1>1. UNCHANGED << server, data, fetch >> /\ Render(grid)
  BY DEF Save, RefuseSave, SaveFails
<1>2. GridCells(grid')
  BY <1>0, <1>1, RenderedCells DEF CellsInv
<1>3. Pending(save') => save'.body \subseteq Lines
  <2>1. CASE \E submit \in BOOLEAN : Save(submit)
    <3>1. EntriesFromMatrix(grid.matrix) \subseteq Lines
      BY EntryFacts DEF CellsInv
    <3> QED
      BY <2>1, <3>1 DEF Save
  <2>2. CASE RefuseSave \/ SaveFails
    BY <2>2 DEF RefuseSave, SaveFails, Pending, Refused, NoSave
  <2> QED
    BY <2>1, <2>2
<1> QED
  BY <1>1, <1>2, <1>3 DEF CellsInv, GridCells

LEMMA MarkSavedCells == ASSUME GridInv, CellsInv, MarkSaved PROVE CellsInv'
<1>0. IsState(grid)
  BY DEF GridInv, GridShape, IsState
<1> DEFINE g == [ synced |-> grid.synced, matrix |-> grid.matrix, dirty |-> FALSE,
                  undo |-> grid.undo, conflict |-> grid.conflict ]
<1>1. [ grid EXCEPT !.dirty = FALSE ] = g
  BY <1>0, Reduced, Zenon
<1>2. IsState(g) /\ GridCells(g)
  BY <1>0 DEF IsState, GridCells, CellsInv
<1> HIDE DEF g
<1>3. UNCHANGED << server, data, fetch >> /\ save' = NoSave /\ Render(g)
  BY <1>1 DEF MarkSaved
<1>4. GridCells(grid') /\ ~ Pending(save')
  <2>1. ~ Pending(save')
    BY <1>3 DEF Pending, NoSave
  <2> QED
    BY <1>2, <1>3, <2>1, RenderedCells DEF CellsInv
<1> QED
  BY <1>3, <1>4 DEF CellsInv, GridCells

LEMMA CellsStep == GridInv /\ CellsInv /\ [Next]_vars => CellsInv'
<1> SUFFICES ASSUME GridInv, CellsInv, [Next]_vars PROVE CellsInv'
  OBVIOUS
<1>0. IsGrid(grid.matrix) /\ Rows = ToSet(grid.matrix.rows) /\ Rows \subseteq Activities
  BY GridRows DEF CellsInv, Rows
<1>1. CASE \E lines \in Others \cup {server.month.lines}, editable \in BOOLEAN :
             Elsewhere([ lines |-> lines, editable |-> editable ])
  <2>1. PICK lines \in Others \cup {server.month.lines}, editable \in BOOLEAN :
             Elsewhere([ lines |-> lines, editable |-> editable ])
    BY <1>1
  <2>2. lines \subseteq Lines /\ server'.month.lines = lines
    BY <2>1, LinesAssumption DEF Elsewhere, CellsInv
  <2>3. UNCHANGED << data, grid, fetch, save >>
    BY <2>1 DEF Elsewhere
  <2>4. Pending(save') => Pending(save)
    BY <2>3
  <2> QED
    BY <2>2, <2>3, <2>4, UnseenCells DEF CellsInv
<1>2. CASE Refetch \/ Read \/ Pause
  <2>1. /\ UNCHANGED << server, data, grid, save >>
        /\ fetch' \in {Asked, Paused, Answered(server)}
    BY <1>2 DEF Refetch, Read, Pause
  <2>2. fetch'.state = "answered" => fetch'.version.month.lines \subseteq Lines
    BY <2>1 DEF Asked, Paused, Answered, CellsInv
  <2>3. Pending(save') => Pending(save)
    BY <2>1
  <2> QED
    BY <2>1, <2>2, <2>3, UnseenCells DEF CellsInv
<1>3. CASE Arrive \/ FetchFails
  BY <1>3, AnswerCells
<1>4. CASE \E row \in Rows, day \in MonthDays, value \in Entered : SetCell(row, day, value)
  <2>1. PICK row \in Rows, day \in MonthDays, value \in Entered : SetCell(row, day, value)
    BY <1>4
  <2>2. IsGrid(WithValue(grid.matrix, row, day, value))
    BY <1>0, EntryAssumption, GridWithValue
  <2> QED
    BY <2>1, <2>2, EditCells DEF SetCell
<1>5. CASE \E mission \in ToSet(Offered) \ Rows : AddActivity(mission)
  <2>1. PICK mission \in ToSet(Offered) \ Rows : AddActivity(mission)
    BY <1>5
  <2>2. mission \in Activities
    BY RowsAssumption DEF Activities, ToSet
  <2>3. IsGrid(AddRow(grid.matrix, mission))
    BY <1>0, <2>2, GridWithRow
  <2> QED
    BY <2>1, <2>3, EditCells DEF AddActivity
<1>6. CASE \E row \in Rows : RemoveActivity(row) \/ FillRow(row) \/ EmptyRow(row)
  <2>1. PICK row \in Rows : RemoveActivity(row) \/ FillRow(row) \/ EmptyRow(row)
    BY <1>6
  <2>2. CASE RemoveActivity(row)
    <3>1. IsGrid(RemoveRow(grid.matrix, row))
      BY <1>0, <2>2, GridWithoutRow DEF RemoveActivity
    <3> QED
      BY <2>2, <3>1, EditCells DEF RemoveActivity
  <2>3. CASE FillRow(row)
    <3>1. IsGrid(FillEmptyWorkdays(grid.matrix, row, Workable, AssignableOn(row)))
      BY <1>0, RowFilled
    <3> QED
      BY <2>3, <3>1, EditCells DEF FillRow
  <2>4. CASE EmptyRow(row)
    <3>1. IsGrid(ClearRow(grid.matrix, row))
      BY <1>0, GridCleared
    <3> QED
      BY <2>4, <3>1, EditCells DEF EmptyRow
  <2> QED
    BY <2>1, <2>2, <2>3, <2>4
<1>7. CASE \E row \in ToSet(Offered) \cup {Absence}, week \in Weeks : FillWeek(row, week)
  <2>1. PICK row \in ToSet(Offered) \cup {Absence}, week \in Weeks : FillWeek(row, week)
    BY <1>7
  <2>2. IsGrid(WeekFilled(grid.matrix, row, week))
    BY <1>0, RowOfWeekFilled
  <2> QED
    BY <2>1, <2>2, EditCells DEF FillWeek
<1>8. CASE CopyPreviousMonth
  BY <1>8, CopyCells
<1>9. CASE Undo
  BY <1>9, UndoCells
<1>10. CASE DiscardEditsAndReload \/ KeepEdits
  BY <1>10, ConflictCells
<1>11. CASE (\E submit \in BOOLEAN : Save(submit)) \/ RefuseSave \/ SaveFails
  BY <1>11, SaveCells
<1>12. CASE Apply
  <2>1. /\ UNCHANGED << data, fetch, grid >> /\ save.stage = "sent"
        /\ server'.month.lines = save.body /\ save' = [ save EXCEPT !.stage = "applied" ]
    BY <1>12 DEF Apply
  <2>2. Pending(save) /\ save'.body = save.body
    BY <2>1 DEF Pending, GridInv, GridShape
  <2> QED
    BY <2>1, <2>2, UnseenCells DEF CellsInv
<1>13. CASE Invalidate
  <2>1. /\ UNCHANGED << server, data, grid >> /\ fetch' = Asked /\ save.stage = "applied"
        /\ save' = [ save EXCEPT !.stage = "refetching" ]
    BY <1>13 DEF Invalidate
  <2>2. Pending(save) /\ save'.body = save.body /\ fetch'.state # "answered"
    BY <2>1 DEF Pending, Asked, GridInv, GridShape
  <2> QED
    BY <2>1, <2>2, UnseenCells DEF CellsInv
<1>14. CASE MarkSaved
  BY <1>14, MarkSavedCells
<1>15. CASE UNCHANGED vars
  <2>1. UNCHANGED << server, data, fetch, grid, save >>
    BY <1>15 DEF vars
  <2>2. Pending(save') => Pending(save)
    BY <2>1
  <2> QED
    BY <2>1, <2>2, UnseenCells DEF CellsInv
<1> QED
  BY <1>1, <1>2, <1>3, <1>4, <1>5, <1>6, <1>7, <1>8, <1>9, <1>10, <1>11, <1>12, <1>13,
     <1>14, <1>15 DEF Next

\* Every row of the grid is visible once and Absence last, every cell is filled on a visible
\* row, and so are those of the grid an undo goes back to, whatever is edited, answered,
\* discarded or saved (matrix.ts, use-cra-draft.ts).
THEOREM CellsInvariant == Spec => [](GridInv /\ CellsInv)
<1>1. Init => GridInv /\ CellsInv
  BY GridInit, CellsInit
<1>2. GridInv /\ CellsInv /\ [Next]_vars => (GridInv /\ CellsInv)'
  BY GridStep, CellsStep
<1> QED
  BY <1>1, <1>2, PTL DEF Spec

-----------------------------------------------------------------------------
(***************************************************************************)
(* What is shown is what is sent, and the fills are safe.                  *)
(***************************************************************************)

\* A column is red exactly when the server would count more than a full day on it.
LEMMA RedDays ==
    ASSUME NEW matrix, IsGrid(matrix), NEW day, NEW missing
    PROVE  TotalTone(matrix, day, missing) = "overbooked" <=> DayTotal(matrix, day) > FullDay
<1>1. None # "overbooked"
  BY RowsAssumption
<1>2. CASE IsDayOverbooked(matrix, day)
  <2>1. DayTotal(matrix, day) > FullDay /\ ~ (DayTotal(matrix, day) < FullDay)
    BY <1>2, DayTotalNat DEF IsDayOverbooked, FullDay
  <2>2. ~ IsDayIncomplete(matrix, day, day \in missing)
    BY <2>1 DEF IsDayIncomplete
  <2>3. TotalTone(matrix, day, missing) = "overbooked"
    BY <1>2, <2>2 DEF TotalTone
  <2> QED
    BY <2>1, <2>3
<1>3. CASE ~ IsDayOverbooked(matrix, day)
  <2> DEFINE amber == day \in Workable /\ IsDayIncomplete(matrix, day, day \in missing)
  <2>1. TotalTone(matrix, day, missing) = IF amber THEN "incomplete" ELSE None
    BY <1>3 DEF TotalTone
  <2> HIDE DEF amber
  <2>2. TotalTone(matrix, day, missing) # "overbooked"
    BY <1>1, <2>1
  <2> QED
    BY <1>3, <2>2 DEF IsDayOverbooked
<1> QED
  BY <1>2, <1>3

\* The answer to a save opens the cells the save was sent from.
LEMMA SameCellsOpened ==
    ASSUME NEW matrix, IsGrid(matrix)
    PROVE  InitMatrix(EntriesFromMatrix(matrix)).cells = matrix.cells
<1> DEFINE lines == EntriesFromMatrix(matrix)
           key(line) == << RowOf(line), line.day >>
           cells == [ at \in { key(line) : line \in lines } |->
                        (CHOOSE line \in lines : key(line) = at).quarterDays ]
<1>1. InitMatrix(lines).cells = cells
  BY DEF InitMatrix
<1>2. \A at \in DOMAIN matrix.cells :
         /\ Entry(matrix, at) \in lines /\ key(Entry(matrix, at)) = at
         /\ Entry(matrix, at).quarterDays = matrix.cells[at]
  BY EntryFacts
<1>3. \A line \in lines : \E at \in DOMAIN matrix.cells : line = Entry(matrix, at)
  BY EntryFacts
<1>4. matrix.cells = [ at \in DOMAIN matrix.cells |-> matrix.cells[at] ]
  BY DEF IsGrid
<1> HIDE DEF lines, key
<1>5. DOMAIN cells = DOMAIN matrix.cells
  <2>1. DOMAIN cells = { key(line) : line \in lines }
    OBVIOUS
  <2>2. ASSUME NEW line \in lines PROVE key(line) \in DOMAIN matrix.cells
    BY <1>2, <1>3
  <2>3. ASSUME NEW at \in DOMAIN matrix.cells PROVE \E line \in lines : at = key(line)
    BY <1>2
  <2> HIDE DEF cells
  <2> QED
    BY <2>1, <2>2, <2>3
<1>6. ASSUME NEW at \in DOMAIN matrix.cells PROVE cells[at] = matrix.cells[at]
  <2> DEFINE found == CHOOSE line \in lines : key(line) = at
  <2>1. at \in { key(line) : line \in lines }
    BY <1>2
  <2>2. cells[at] = found.quarterDays
    BY <2>1
  <2>3. found \in lines /\ key(found) = at
    BY <1>2
  <2> HIDE DEF found, cells
  <2>4. found = Entry(matrix, at)
    BY <1>2, <1>3, <2>3
  <2> QED
    BY <1>2, <2>2, <2>4
<1>7. cells = [ at \in DOMAIN cells |-> cells[at] ]
  OBVIOUS
<1> HIDE DEF cells
<1>8. cells = matrix.cells
  BY <1>4, <1>5, <1>6, <1>7
<1> QED
  BY <1>1, <1>8 DEF lines

LEMMA GridSentAsShown == CellsInv => SentAsShown
<1> SUFFICES ASSUME CellsInv PROVE SentAsShown
  OBVIOUS
<1> DEFINE matrix == grid.matrix
           lines == EntriesFromMatrix(matrix)
           red == { day \in MonthDays : TotalTone(matrix, day, MissingShown) = "overbooked" }
           total(day) == DayTotal(matrix, day)
<1>1. IsGrid(matrix)
  BY DEF CellsInv
<1>2. { RowOf(line) : line \in lines } \subseteq Rows
  BY <1>1, EntryFacts DEF Rows
<1>3. IsInjective(matrix.rows) /\ Last(matrix.rows) = Absence
  BY <1>1 DEF IsGrid
<1>4. \A day : total(day) \in Nat /\ QuarterDaysOn(lines, day) = total(day)
  <2>1. ASSUME NEW day PROVE total(day) \in Nat /\ QuarterDaysOn(lines, day) = total(day)
    BY <1>1, DayTotalNat, SameTotals
  <2> QED
    BY <2>1
<1>5. \A day : TotalTone(matrix, day, MissingShown) = "overbooked" <=> total(day) > FullDay
  <2>1. ASSUME NEW day
        PROVE  TotalTone(matrix, day, MissingShown) = "overbooked" <=> total(day) > FullDay
    BY <1>1, RedDays
  <2> QED
    BY <2>1
<1>6. CompleteWorkableDays(matrix) = { day \in Workable : total(day) = FullDay }
  BY DEF CompleteWorkableDays, IsDayComplete
<1>7. Recordable(lines) <=> \A day \in MonthDays : QuarterDaysOn(lines, day) <= FullDay
  BY DEF Recordable
<1>8. MissingDays(lines) = { day \in Workable : QuarterDaysOn(lines, day) < FullDay }
  BY DEF MissingDays
<1>9. red = { day \in MonthDays : total(day) > FullDay }
  BY <1>5
<1>10. InitMatrix(lines).cells = matrix.cells
  BY <1>1, SameCellsOpened
<1> HIDE DEF lines, matrix, red, total
<1>11. Recordable(lines) <=> \A day \in MonthDays : total(day) <= FullDay
  BY <1>4, <1>7
<1>12. Recordable(lines) <=> red = {}
  <2>1. \A day : total(day) <= FullDay <=> ~ (total(day) > FullDay)
    BY <1>4 DEF FullDay
  <2> QED
    BY <1>9, <1>11, <2>1
<1>13. MissingDays(lines) = { day \in Workable : total(day) < FullDay }
  BY <1>4, <1>8
<1>14. red = {} => (MissingDays(lines) = {} <=> CompleteWorkableDays(matrix) = Workable)
  <2>1. ASSUME red = {}, NEW day \in Workable PROVE total(day) = FullDay <=> ~ (total(day) < FullDay)
    <3>1. ~ (total(day) > FullDay)
      BY <1>9, <2>1, MonthAssumption
    <3> QED
      BY <1>4, <3>1 DEF FullDay
  <2> QED
    BY <1>6, <1>13, <2>1
<1> QED
  BY <1>2, <1>3, <1>10, <1>12, <1>14 DEF SentAsShown, matrix, lines, red

\* What the grid shows is what a save would send, and whether the server would take it, for
\* every month and offer of missions, however long it is edited (cra-matrix-table.tsx, cra.ts,
\* submission-checks.ts).
THEOREM ShownIsSent == Spec => []SentAsShown
<1> QED
  BY CellsInvariant, GridSentAsShown, PTL

\* Days filled one way or the other are safely filled.
LEMMA FilledSafely ==
    ASSUME NEW old, IsGrid(old), NEW new, IsGrid(new), FilledFrom(old, new)
    PROVE  SafelyFilled(old, new)
<1> DEFINE before == EntriesFromMatrix(old)
           after == EntriesFromMatrix(new)
<1>1. \A at \in DOMAIN old.cells : at \in CellsOf(old, at[2]) /\ at[2] \in MonthDays
  BY EntryFacts DEF CellsOf
<1>2. \A day : \A at \in CellsOf(old, day) : new.cells[at] = old.cells[at]
                                            => Entry(new, at) = Entry(old, at)
  BY DEF Entry
<1>3. before \subseteq after
  <2>1. ASSUME NEW at \in DOMAIN old.cells PROVE Entry(old, at) \in after
    <3>1. Untouched(old, new, at[2])
      BY <1>1 DEF FilledFrom, Given
    <3>2. at \in DOMAIN new.cells /\ new.cells[at] = old.cells[at]
      BY <1>1, <3>1 DEF Untouched, CellsOf
    <3>3. Entry(new, at) = Entry(old, at) /\ Entry(new, at) \in after
      BY <1>1, <1>2, <3>2, EntryFacts
    <3> QED
      BY <3>3
  <2> QED
    BY <2>1, EntryFacts
<1>4. ASSUME NEW day \in MonthDays, NEW line \in after, line \notin before, line.day = day
      PROVE  \E row \in Activities : Given(old, new, day, row) /\ RowOf(line) = row
  <2>1. PICK at \in DOMAIN new.cells : line = Entry(new, at)
    BY EntryFacts
  <2>2. /\ at = << at[1], at[2] >> /\ at[2] = day /\ RowOf(line) = at[1]
        /\ at \in CellsOf(new, day)
    BY <1>4, <2>1, EntryFacts DEF CellsOf
  <2>3. ~ Untouched(old, new, day)
    <3>1. SUFFICES ASSUME Untouched(old, new, day) PROVE FALSE
      OBVIOUS
    <3>2. at \in CellsOf(old, day) /\ new.cells[at] = old.cells[at]
      BY <2>2, <3>1 DEF Untouched
    <3>3. Entry(new, at) = Entry(old, at) /\ Entry(old, at) \in before
      BY <1>2, <3>2, EntryFacts DEF CellsOf
    <3> QED
      BY <1>4, <2>1, <3>3
  <2>4. PICK row \in Activities : Given(old, new, day, row)
    BY <2>3 DEF FilledFrom
  <2>5. at = << row, day >>
    BY <2>2, <2>4 DEF Given
  <2> QED
    BY <2>2, <2>4, <2>5
<1>5. ASSUME NEW day \in MonthDays, NEW row \in Activities, Given(old, new, day, row)
      PROVE  /\ QuarterDaysOn(before, day) = 0 /\ QuarterDaysOn(after, day) = FullDay
             /\ day \in Workable /\ day \in AssignableOn(row)
  <2>1. DayTotal(old, day) = 0
    BY <1>5, DayTotalNat DEF Given
  <2>2. DayTotal(new, day) = FullDay
    BY <1>5, OneFullDay DEF Given
  <2> QED
    BY <1>5, <2>1, <2>2, SameTotals DEF Given
<1> HIDE DEF before, after
<1>6. ASSUME NEW day \in MonthDays
      PROVE  LET added == { line \in after \ before : line.day = day }
             IN added # {} => /\ QuarterDaysOn(before, day) = 0
                              /\ QuarterDaysOn(after, day) = FullDay
                              /\ day \in Workable
                              /\ \A line \in added : day \in AssignableOn(RowOf(line))
  <2> DEFINE added == { line \in after \ before : line.day = day }
  <2>1. ASSUME NEW line \in added
        PROVE  /\ QuarterDaysOn(before, day) = 0 /\ QuarterDaysOn(after, day) = FullDay
               /\ day \in Workable /\ day \in AssignableOn(RowOf(line))
    <3>1. PICK row \in Activities : Given(old, new, day, row) /\ RowOf(line) = row
      BY <1>4
    <3> QED
      BY <1>5, <3>1
  <2> HIDE DEF added
  <2>2. added # {} => /\ QuarterDaysOn(before, day) = 0
                      /\ QuarterDaysOn(after, day) = FullDay
                      /\ day \in Workable
                      /\ \A line \in added : day \in AssignableOn(RowOf(line))
    BY <2>1
  <2> QED
    BY <2>2 DEF added
<1> QED
  BY <1>3, <1>6 DEF SafelyFilled, before, after

\* What a fill leaves in the grid.
LEMMA FillStep ==
    ASSUME GridInv, CellsInv, Fills, grid'.dirty
    PROVE  IsGrid(grid'.matrix) /\ FilledFrom(grid.matrix, grid'.matrix)
<1>0. IsGrid(grid.matrix) /\ Rows = ToSet(grid.matrix.rows)
  BY DEF CellsInv, Rows
<1>1. ASSUME NEW matrix, IsGrid(matrix), FilledFrom(grid.matrix, matrix), EditWithUndo(matrix)
      PROVE  IsGrid(grid'.matrix) /\ FilledFrom(grid.matrix, grid'.matrix)
  <2> DEFINE g == EditedTo(matrix, grid.matrix)
  <2>1. IsState(g) /\ g.matrix = matrix /\ Dispatch(g)
    BY <1>1, EditedFacts
  <2> HIDE DEF g
  <2>2. Render(g)
    BY <2>1 DEF Dispatch
  <2>3. grid'.matrix = matrix
    BY <2>1, <2>2, DirtyShown
  <2> QED
    BY <1>1, <2>3
<1>2. CASE \E row \in Rows : FillRow(row)
  <2>1. PICK row \in Rows : FillRow(row)
    BY <1>2
  <2> DEFINE matrix == FillEmptyWorkdays(grid.matrix, row, Workable, AssignableOn(row))
  <2>2. IsGrid(matrix) /\ FilledFrom(grid.matrix, matrix)
    BY <1>0, RowFilled
  <2>3. EditWithUndo(matrix)
    BY <2>1 DEF FillRow
  <2> QED
    BY <1>1, <2>2, <2>3
<1>3. CASE \E row \in ToSet(Offered) \cup {Absence}, week \in Weeks : FillWeek(row, week)
  <2>1. PICK row \in ToSet(Offered) \cup {Absence}, week \in Weeks : FillWeek(row, week)
    BY <1>3
  <2> DEFINE matrix == WeekFilled(grid.matrix, row, week)
  <2>2. IsGrid(matrix) /\ FilledFrom(grid.matrix, matrix)
    BY <1>0, RowOfWeekFilled
  <2>3. EditWithUndo(matrix)
    BY <2>1 DEF FillWeek
  <2> QED
    BY <1>1, <2>2, <2>3
<1>4. CASE CopyPreviousMonth
  <2> DEFINE plan == PlanCopyPreviousMonth(grid.matrix, Previous)
             g == EditedTo(plan, grid.matrix)
  <2>1. Dispatch([ grid EXCEPT !.matrix = plan, !.dirty = TRUE, !.undo = grid.matrix ])
    BY <1>4 DEF CopyPreviousMonth
  <2>2. IsGrid(plan) /\ FilledFrom(grid.matrix, plan)
    BY <1>0, MonthCopied
  <2> HIDE DEF plan
  <2>3. IsState(grid) /\ IsState(g) /\ g.matrix = plan
    BY EditedFacts
  <2>4. [ grid EXCEPT !.matrix = plan, !.dirty = TRUE, !.undo = grid.matrix ] = g
    <3>1. IsState(grid)
      BY <2>3
    <3>2. [ grid EXCEPT !.matrix = plan, !.dirty = TRUE, !.undo = grid.matrix ]
            = [ synced |-> grid.synced, matrix |-> plan, dirty |-> TRUE,
                undo |-> grid.matrix, conflict |-> grid.conflict ]
      BY <3>1, ReducedWithUndo
    <3> QED
      BY <3>2 DEF EditedTo
  <2> HIDE DEF g
  <2>5. Render(g)
    BY <2>1, <2>4 DEF Dispatch
  <2>6. grid'.matrix = plan
    BY <2>3, <2>5, DirtyShown
  <2> QED
    BY <2>2, <2>6
<1> QED
  BY <1>2, <1>3, <1>4 DEF Fills

\* Filling a row, a week or the month from the previous one touches no day that carries
\* anything, overbooks none, and gives no row a day it may not be given, for every calendar
\* and offer of missions and whatever was entered, removed or undone before (matrix.ts,
\* ADR-0070).
THEOREM SafeFills == Spec => FillsAreSafe
<1>1. GridInv /\ CellsInv /\ [Next]_vars
        => [ mounted' /\ grid'.dirty /\ Fills => SafelyFilled(grid.matrix, grid'.matrix) ]_vars
  <2> SUFFICES ASSUME GridInv, CellsInv, Fills, grid'.dirty
               PROVE  SafelyFilled(grid.matrix, grid'.matrix)
    OBVIOUS
  <2> QED
    BY FillStep, FilledSafely DEF CellsInv
<1> QED
  BY <1>1, CellsInvariant, PTL DEF Spec, FillsAreSafe

=============================================================================
