--------------------------- MODULE StaffingProofs ---------------------------
(***************************************************************************)
(* Theorems about Staffing, for every pool, every set of consultants,      *)
(* missions and rows, every calendar, every hash of the pairs, whatever is *)
(* recorded: no interleaving gets around the rules of the policy, and the  *)
(* policy, with its sweep over validities, says what the days say.         *)
(***************************************************************************)
EXTENDS Staffing, TLAPS, WellFoundedInduction

(***************************************************************************)
(* What a step does, whichever it is.                                      *)
(***************************************************************************)

\* A row a request asks for is one the table may hold.
LEMMA BodyType == ASSUME NEW row \in Bodies PROVE row \in Rows
  BY BodiesAssumption DEF Rows

\* The transaction of a connection ends: its locks are free, the others' untouched.
LEMMA FinishType ==
    ASSUME NEW c \in Connections, STypeOK, Finish(c)
    PROVE  /\ pairLock' \in [ Slots -> Connections \cup {None} ]
           /\ stage' \in [ Connections -> Stages ]
           /\ request' \in [ Connections -> Requests \cup {None} ]
  BY DEF Finish, STypeOK, Stages

\* The slot of a served request.
LEMMA SlotType ==
    ASSUME NEW c \in Connections, STypeOK, request[c] # None
    PROVE  /\ request[c] \in Requests
           /\ Row(c) \in Rows
           /\ PairSlotOf(c) \in Slots
<1>1. request[c] \in Requests
  BY DEF STypeOK
<1>2. Row(c) \in Bodies
  BY <1>1 DEF Row, Requests
<1>3. Row(c) \in Rows
  BY <1>2, BodyType
<1>4. Pair(Row(c)) \in Consultants \X Missions
  BY <1>3 DEF Pair, Rows
<1> QED
  BY <1>1, <1>3, <1>4, SlotsAssumption DEF PairSlotOf

\* What a commit writes into a row is the row its request asked for.
LEMMA UpdatedRow ==
    ASSUME NEW c \in Connections, STypeOK, EditsFound, stage[c] = "commit",
           request[c] # None, request[c].id # None
    PROVE  /\ request[c].id \in Ids
           /\ assignments[request[c].id] # None
           /\ [ assignments[request[c].id] EXCEPT !.from = Row(c).from, !.to = Row(c).to ]
                = Row(c)
<1>1. request[c].id \in Ids /\ Row(c) \in Rows
  BY SlotType DEF Requests
<1>2. /\ assignments[request[c].id] # None
      /\ Pair(assignments[request[c].id]) = Pair(Row(c))
  BY DEF EditsFound
<1>3. assignments[request[c].id] \in Rows
  BY <1>1, <1>2 DEF STypeOK
<1>4. /\ assignments[request[c].id].consultant = Row(c).consultant
      /\ assignments[request[c].id].mission = Row(c).mission
  BY <1>2 DEF Pair
<1> QED
  BY <1>1, <1>2, <1>3, <1>4 DEF Rows

-----------------------------------------------------------------------------
(***************************************************************************)
(* Types.                                                                  *)
(***************************************************************************)

\* An empty table has the types.
LEMMA InitType == SInitAlone => STypeOK
  BY DEF SInitAlone, SInit, STypeOK, Stages

\* Every statement of a transaction keeps the types, and so does a Cra being saved.
LEMMA NextType ==
    ASSUME STypeOK, RequestsServed, EditsFound, [SNext]_svars
    PROVE  STypeOK'
<1>0. CASE UNCHANGED svars
  BY <1>0 DEF svars, staffing, STypeOK
<1>1. CASE Record
  BY <1>1, RecordingsAssumption DEF Record, staffing, STypeOK
<1>2. ASSUME NEW c \in Connections, NEW req \in Requests, Request(c, req) PROVE STypeOK'
  BY <1>2 DEF Request, Proceed, STypeOK, Stages
<1>3. ASSUME NEW c \in Connections,
             FindAssignment(c) \/ ValidateAssignment(c) \/ CheckRecordedDays(c)
      PROVE  STypeOK'
  BY <1>3 DEF FindAssignment, ValidateAssignment, CheckRecordedDays, Proceed, STypeOK, Stages
<1>4. ASSUME NEW c \in Connections, LockPair(c) PROVE STypeOK'
  <2>1. PairSlotOf(c) \in Slots
    BY <1>4, SlotType DEF LockPair, RequestsServed
  <2> QED
    BY <1>4, <2>1 DEF LockPair, Proceed, STypeOK, Stages
<1>5. ASSUME NEW c \in Connections, Refuse(c) PROVE STypeOK'
  BY <1>5, FinishType DEF Refuse, STypeOK
<1>6. ASSUME NEW c \in Connections, Insert(c) PROVE STypeOK'
  <2>1. Row(c) \in Rows
    BY <1>6, SlotType DEF Insert, RequestsServed
  <2>2. assignments' \in [ Ids -> Rows \cup {None} ]
    BY <1>6, <2>1 DEF Insert, STypeOK
  <2> QED
    BY <1>6, <2>2, FinishType DEF Insert, STypeOK
<1>7. ASSUME NEW c \in Connections, Update(c) PROVE STypeOK'
  <2>1. request[c] # None
    BY <1>7 DEF Update, RequestsServed
  <2>2. /\ request[c].id \in Ids
        /\ Row(c) \in Rows
        /\ [ assignments[request[c].id] EXCEPT !.from = Row(c).from, !.to = Row(c).to ]
             = Row(c)
    BY <1>7, <2>1, UpdatedRow, SlotType DEF Update
  <2>3. assignments' \in [ Ids -> Rows \cup {None} ]
    BY <1>7, <2>2 DEF Update, STypeOK
  <2> QED
    BY <1>7, <2>3, FinishType DEF Update, STypeOK
<1> QED
  BY <1>0, <1>1, <1>2, <1>3, <1>4, <1>5, <1>6, <1>7
     DEF SNext, StaffingStep, RefuseLookup, RefuseRange, RefuseAssignment,
         RefuseRecordedDays, Abort

-----------------------------------------------------------------------------
(***************************************************************************)
(* The locks and the requests.                                             *)
(***************************************************************************)

\* A connection that serves nothing has no request, and one that looks up a row, or its
\* recorded days, was asked to edit one.
LEMMA NextServed ==
    ASSUME STypeOK, RequestsServed, [SNext]_svars
    PROVE  RequestsServed'
<1>0. CASE UNCHANGED svars
  BY <1>0 DEF svars, staffing, RequestsServed
<1>1. CASE Record
  BY <1>1 DEF Record, staffing, RequestsServed
<1>2. ASSUME NEW c \in Connections, NEW req \in Requests, Request(c, req)
      PROVE  RequestsServed'
  <2>1. req # None
    BY NobodyAssumption DEF Requests
  <2>2. req.id = None => stage'[c] = "lock"
    BY <1>2 DEF Request, Proceed, STypeOK
  <2>3. req.id # None => stage'[c] = "lookup"
    BY <1>2 DEF Request, Proceed, STypeOK
  <2> QED
    BY <1>2, <2>1, <2>2, <2>3 DEF Request, Proceed, STypeOK, RequestsServed
<1>3. ASSUME NEW c \in Connections,
             FindAssignment(c) \/ ValidateAssignment(c) \/ CheckRecordedDays(c)
             \/ LockPair(c)
      PROVE  RequestsServed'
  BY <1>3 DEF FindAssignment, ValidateAssignment, CheckRecordedDays, LockPair, Proceed,
              STypeOK, RequestsServed
<1>4. ASSUME NEW c \in Connections, Finish(c) PROVE RequestsServed'
  BY <1>4 DEF Finish, STypeOK, RequestsServed
<1> QED
  BY <1>0, <1>1, <1>2, <1>3, <1>4
     DEF SNext, StaffingStep, RefuseLookup, RefuseRange, RefuseAssignment,
         RefuseRecordedDays, Abort, Refuse, Insert, Update

\* The advisory lock of a pair has the holder its transaction's stage says.
LEMMA NextLocks ==
    ASSUME STypeOK, RequestsServed, PairLocksAgree, [SNext]_svars
    PROVE  PairLocksAgree'
<1>0. CASE UNCHANGED svars
  BY <1>0 DEF svars, staffing, PairLocksAgree, Locked, PairSlotOf, Row
<1>1. CASE Record
  BY <1>1 DEF Record, staffing, PairLocksAgree, Locked, PairSlotOf, Row
<1>2. ASSUME NEW c \in Connections, NEW req \in Requests, Request(c, req)
      PROVE  PairLocksAgree'
  <2>1. ~ Locked(c) /\ ~ Locked(c)'
    BY <1>2 DEF Request, Proceed, Locked, STypeOK
  <2>2. \A d \in Connections \ {c} : /\ Locked(d)' = Locked(d)
                                    /\ PairSlotOf(d)' = PairSlotOf(d)
    BY <1>2 DEF Request, Proceed, Locked, PairSlotOf, Row, STypeOK
  <2> QED
    BY <1>2, <2>1, <2>2 DEF Request, PairLocksAgree
<1>3. ASSUME NEW c \in Connections,
             FindAssignment(c) \/ ValidateAssignment(c) \/ CheckRecordedDays(c)
      PROVE  PairLocksAgree'
  <2>1. \A d \in Connections : /\ Locked(d)' = Locked(d)
                              /\ PairSlotOf(d)' = PairSlotOf(d)
    BY <1>3 DEF FindAssignment, ValidateAssignment, CheckRecordedDays, Proceed, Locked,
                PairSlotOf, Row, STypeOK
  <2> QED
    BY <1>3, <2>1
       DEF FindAssignment, ValidateAssignment, CheckRecordedDays, PairLocksAgree
<1>4. ASSUME NEW c \in Connections, LockPair(c) PROVE PairLocksAgree'
  <2>1. PairSlotOf(c) \in Slots /\ pairLock[PairSlotOf(c)] = None
    BY <1>4, SlotType DEF LockPair, PairFree, RequestsServed
  <2>2. /\ \A d \in Connections : PairSlotOf(d)' = PairSlotOf(d)
        /\ \A d \in Connections \ {c} : Locked(d)' = Locked(d)
        /\ ~ Locked(c) /\ Locked(c)'
    BY <1>4 DEF LockPair, Proceed, Locked, PairSlotOf, Row, STypeOK
  <2>3. \A s \in Slots : pairLock'[s] = IF s = PairSlotOf(c) THEN c ELSE pairLock[s]
    BY <1>4, <2>1 DEF LockPair, STypeOK
  <2>4. c # None
    BY NobodyAssumption
  <2>5. \A d \in Connections : d # None
    BY NobodyAssumption
  <2>6. ASSUME NEW d \in Connections, Locked(d)' PROVE pairLock'[PairSlotOf(d)'] = d
    <3>1. CASE d = c
      BY <3>1, <2>1, <2>2, <2>3
    <3>2. CASE d # c
      <4>1. Locked(d) /\ pairLock[PairSlotOf(d)] = d
        BY <2>2, <2>6, <3>2 DEF PairLocksAgree
      <4>2. PairSlotOf(d) \in Slots
        BY <4>1, SlotType DEF Locked, RequestsServed
      <4> QED
        BY <2>1, <2>2, <2>3, <2>5, <4>1, <4>2
    <3> QED
      BY <3>1, <3>2
  <2>7. ASSUME NEW s \in Slots, NEW d \in Connections, pairLock'[s] = d
        PROVE  Locked(d)' /\ s = PairSlotOf(d)'
    BY <2>1, <2>2, <2>3, <2>7 DEF PairLocksAgree
  <2> QED
    BY <2>6, <2>7 DEF PairLocksAgree
<1>5. ASSUME NEW c \in Connections, Finish(c) PROVE PairLocksAgree'
  <2>1. ~ Locked(c)'
    BY <1>5 DEF Finish, Locked, STypeOK
  <2>2. \A d \in Connections \ {c} : /\ Locked(d)' = Locked(d)
                                    /\ PairSlotOf(d)' = PairSlotOf(d)
    BY <1>5 DEF Finish, Locked, PairSlotOf, Row, STypeOK
  <2>3. \A s \in Slots : pairLock'[s] = IF pairLock[s] = c THEN None ELSE pairLock[s]
    BY <1>5 DEF Finish
  <2>4. \A d \in Connections : Locked(d) => PairSlotOf(d) \in Slots
    BY SlotType DEF Locked, RequestsServed
  <2>5. \A d \in Connections : d # None
    BY NobodyAssumption
  <2> QED
    BY <2>1, <2>2, <2>3, <2>4, <2>5 DEF PairLocksAgree
<1> QED
  BY <1>0, <1>1, <1>2, <1>3, <1>4, <1>5
     DEF SNext, StaffingStep, RefuseLookup, RefuseRange, RefuseAssignment,
         RefuseRecordedDays, Abort, Refuse, Insert, Update

\* Mutual exclusion: two transactions past their locks are on different pairs.
LEMMA OnePerPair ==
    ASSUME STypeOK, RequestsServed, PairLocksAgree,
           NEW c \in Connections, NEW d \in Connections, c # d, Locked(c), Locked(d)
    PROVE  Pair(Row(c)) # Pair(Row(d))
<1>1. pairLock[PairSlotOf(c)] = c /\ pairLock[PairSlotOf(d)] = d
  BY DEF PairLocksAgree
<1> QED
  BY <1>1 DEF PairSlotOf

-----------------------------------------------------------------------------
(***************************************************************************)
(* The table.                                                              *)
(***************************************************************************)

Writes(c) == Insert(c) \/ Update(c)

\* A commit puts the requested row in a free place, or in the place of a row of its pair.
LEMMA CommitWrites ==
    ASSUME STypeOK, RequestsServed, EditsFound, NEW c \in Connections, Writes(c)
    PROVE  /\ stage[c] = "commit"
           /\ Row(c) \in Rows
           /\ \E id \in Ids :
                /\ assignments' = [ assignments EXCEPT ![id] = Row(c) ]
                /\ \/ assignments[id] = None /\ request[c].id = None
                   \/ id = request[c].id /\ assignments[id] # None
                      /\ Pair(assignments[id]) = Pair(Row(c))
<1>1. stage[c] = "commit"
  BY DEF Writes, Insert, Update
<1>2. request[c] # None /\ Row(c) \in Rows
  BY <1>1, SlotType DEF RequestsServed
<1>3. CASE Insert(c)
  BY <1>1, <1>2, <1>3 DEF Insert
<1>4. CASE Update(c)
  <2>1. /\ request[c].id \in Ids
        /\ assignments[request[c].id] # None
        /\ [ assignments[request[c].id] EXCEPT !.from = Row(c).from, !.to = Row(c).to ]
             = Row(c)
    BY <1>1, <1>2, <1>4, UpdatedRow DEF Update
  <2>2. assignments' = [ assignments EXCEPT ![request[c].id] = Row(c) ]
    BY <1>4, <2>1 DEF Update
  <2>3. Pair(assignments[request[c].id]) = Pair(Row(c))
    BY <1>1, <1>4 DEF Update, EditsFound
  <2> QED
    BY <1>1, <1>2, <2>1, <2>2, <2>3
<1> QED
  BY <1>3, <1>4 DEF Writes

\* A commit leaves the rows of every other pair as they were.
LEMMA OtherPairs ==
    ASSUME STypeOK, RequestsServed, EditsFound, NEW c \in Connections, Writes(c),
           NEW pair, pair # Pair(Row(c))
    PROVE  /\ Ids_With(pair)' = Ids_With(pair)
           /\ \A id \in Ids_With(pair) : assignments'[id] = assignments[id]
<1>1. PICK id \in Ids :
        /\ assignments' = [ assignments EXCEPT ![id] = Row(c) ]
        /\ \/ assignments[id] = None /\ request[c].id = None
           \/ id = request[c].id /\ assignments[id] # None
              /\ Pair(assignments[id]) = Pair(Row(c))
  BY CommitWrites
<1>2. id \notin Ids_With(pair)
  BY <1>1 DEF Ids_With
<1>3. assignments'[id] = Row(c)
  BY <1>1 DEF STypeOK
<1>4. \A other \in Ids \ {id} : assignments'[other] = assignments[other]
  BY <1>1 DEF STypeOK
<1>5. ASSUME NEW other \in Ids PROVE other \in Ids_With(pair)' <=> other \in Ids_With(pair)
  BY <1>2, <1>3, <1>4 DEF Ids_With, Pair
<1>6. Ids_With(pair)' \subseteq Ids /\ Ids_With(pair) \subseteq Ids
  BY DEF Ids_With
<1> QED
  BY <1>2, <1>4, <1>5, <1>6

\* Only a commit changes the table.
LEMMA OnlyCommitsWrite ==
    ASSUME [SNext]_svars
    PROVE  assignments' = assignments \/ \E c \in Connections : Writes(c)
  BY DEF SNext, StaffingStep, Request, FindAssignment, RefuseLookup, LockPair, RefuseRange,
         ValidateAssignment, RefuseAssignment, CheckRecordedDays, RefuseRecordedDays, Abort,
         Refuse, Writes, Record, svars, staffing

\* No assignment is ever deleted, or moved to another consultant or mission.
LEMMA PairsStand ==
    ASSUME STypeOK, RequestsServed, EditsFound, [SNext]_svars,
           NEW id \in Ids, assignments[id] # None
    PROVE  assignments'[id] # None /\ Pair(assignments'[id]) = Pair(assignments[id])
<1>1. CASE assignments' = assignments
  BY <1>1
<1>2. ASSUME NEW c \in Connections, Writes(c)
      PROVE  assignments'[id] # None /\ Pair(assignments'[id]) = Pair(assignments[id])
  <2>1. Row(c) # None
    BY <1>2, CommitWrites, NobodyAssumption
  <2> QED
    BY <1>2, <2>1, CommitWrites DEF STypeOK
<1> QED
  BY <1>1, <1>2, OnlyCommitsWrite

\* What one connection does leaves the stage and the request of the others.
LEMMA OthersWait ==
    ASSUME STypeOK, NEW c \in Connections, NEW d \in Connections, c # d, StaffingStep(d)
    PROVE  stage'[c] = stage[c] /\ request'[c] = request[c]
  BY DEF StaffingStep, Request, FindAssignment, RefuseLookup, LockPair, RefuseRange,
         ValidateAssignment, RefuseAssignment, CheckRecordedDays, RefuseRecordedDays,
         Abort, Refuse, Finish, Insert, Update, Proceed, STypeOK

\* What an edit found when it looked its row up is still there when it writes.
LEMMA NextFound ==
    ASSUME STypeOK, RequestsServed, EditsFound, [SNext]_svars
    PROVE  EditsFound'
<1> DEFINE Past(c)  == stage[c] \notin { "idle", "lookup" } /\ request[c].id # None
           Found(c) == /\ assignments[request[c].id] # None
                       /\ Pair(assignments[request[c].id]) = Pair(Row(c))
<1> SUFFICES ASSUME NEW c \in Connections, Past(c)' PROVE Found(c)'
  BY DEF EditsFound
<1>1. /\ request'[c] = request[c]
      /\ stage[c] # "idle"
      /\ Found(c)
  <2>0. CASE UNCHANGED svars \/ Record
    BY <2>0 DEF svars, staffing, Record, EditsFound
  <2>1. CASE \E d \in Connections \ {c} : StaffingStep(d)
    BY <2>1, OthersWait DEF EditsFound
  <2>2. CASE \E req \in Requests : Request(c, req)
    BY <2>2 DEF Request, Proceed, STypeOK
  <2>3. CASE FindAssignment(c)
    BY <2>3 DEF FindAssignment, Editable
  <2>4. CASE LockPair(c) \/ ValidateAssignment(c) \/ CheckRecordedDays(c)
    BY <2>4 DEF LockPair, ValidateAssignment, CheckRecordedDays, EditsFound
  <2>5. CASE Finish(c)
    BY <2>5 DEF Finish, STypeOK
  <2> QED
    BY <2>0, <2>1, <2>2, <2>3, <2>4, <2>5
       DEF SNext, StaffingStep, RefuseLookup, RefuseRange, RefuseAssignment,
           RefuseRecordedDays, Abort, Refuse, Insert, Update
<1>2. request[c].id \in Ids
  BY <1>1, SlotType DEF RequestsServed, Requests
<1> QED
  BY <1>1, <1>2, PairsStand DEF Row

\* What the checks of a transaction read of its pair is still so at its later statements:
\* any other commit is on another pair.
LEMMA NextChecks ==
    ASSUME STypeOK, RequestsServed, PairLocksAgree, EditsFound, ChecksHold, [SNext]_svars
    PROVE  ChecksHold'
<1> SUFFICES ASSUME NEW c \in Connections, Checked(c)'
             PROVE  (Permitted(Row(c)) /\ ~ Overlaps(c))'
  BY DEF ChecksHold
<1>1. /\ request'[c] = request[c]
      /\ Locked(c)
      /\ Permitted(Row(c)) /\ ~ Overlaps(c)
  <2>0. CASE UNCHANGED svars \/ Record
    BY <2>0 DEF svars, staffing, Record, ChecksHold, Checked, Locked
  <2>1. CASE \E d \in Connections \ {c} : StaffingStep(d)
    BY <2>1, OthersWait DEF ChecksHold, Checked, Locked
  <2>2. CASE (\E req \in Requests : Request(c, req)) \/ FindAssignment(c) \/ LockPair(c)
    BY <2>2 DEF Request, FindAssignment, LockPair, Proceed, Checked, STypeOK
  <2>3. CASE ValidateAssignment(c) \/ CheckRecordedDays(c)
    BY <2>3 DEF ValidateAssignment, CheckRecordedDays, ChecksHold, Checked, Locked
  <2>4. CASE Finish(c)
    BY <2>4 DEF Finish, Checked, STypeOK
  <2> QED
    BY <2>0, <2>1, <2>2, <2>3, <2>4
       DEF SNext, StaffingStep, RefuseLookup, RefuseRange, RefuseAssignment,
           RefuseRecordedDays, Abort, Refuse, Insert, Update
<1>2. Row(c)' = Row(c) /\ ~ Writes(c)
  BY <1>1 DEF Row, Writes, Insert, Update, Finish, Checked, STypeOK
<1>3. /\ Ids_With(Pair(Row(c)))' = Ids_With(Pair(Row(c)))
      /\ \A id \in Ids_With(Pair(Row(c))) : assignments'[id] = assignments[id]
  <2>1. CASE assignments' = assignments
    BY <1>2, <2>1 DEF Ids_With
  <2>2. ASSUME NEW d \in Connections, Writes(d)
        PROVE  /\ Ids_With(Pair(Row(c)))' = Ids_With(Pair(Row(c)))
               /\ \A id \in Ids_With(Pair(Row(c))) : assignments'[id] = assignments[id]
    <3>1. Pair(Row(c)) # Pair(Row(d))
      BY <1>1, <1>2, <2>2, OnePerPair, CommitWrites DEF Locked
    <3> QED
      BY <1>2, <2>2, <3>1, OtherPairs DEF Ids_With
  <2> QED
    BY <2>1, <2>2, OnlyCommitsWrite
<1> QED
  BY <1>1, <1>2, <1>3 DEF Overlaps, Permitted

\* Every row of the table passed the policy.
LEMMA NextPermitted ==
    ASSUME STypeOK, RequestsServed, EditsFound, ChecksHold, RowsPermitted, [SNext]_svars
    PROVE  RowsPermitted'
<1>1. CASE assignments' = assignments
  BY <1>1 DEF RowsPermitted, Permitted
<1>2. ASSUME NEW c \in Connections, Writes(c) PROVE RowsPermitted'
  <2>1. Permitted(Row(c))
    BY <1>2, CommitWrites DEF ChecksHold, Checked
  <2>2. \A id \in Ids : assignments'[id] \in { assignments[id], Row(c) }
    BY <1>2, CommitWrites DEF STypeOK
  <2> QED
    BY <2>1, <2>2 DEF RowsPermitted, Permitted
<1> QED
  BY <1>1, <1>2, OnlyCommitsWrite

\* Two intervals overlap or not, whichever is named first.
LEMMA OverlapSymmetric == ASSUME NEW one, NEW two PROVE Overlap(one, two) <=> Overlap(two, one)
  BY DEF Overlap

\* A row that is written overlaps no other of its pair.
LEMMA NextNoOverlap ==
    ASSUME STypeOK, RequestsServed, EditsFound, ChecksHold, NoOverlap, [SNext]_svars
    PROVE  NoOverlap'
<1>1. CASE assignments' = assignments
  BY <1>1 DEF NoOverlap, Overlap
<1>2. ASSUME NEW c \in Connections, Writes(c) PROVE NoOverlap'
  <2>1. PICK id \in Ids :
          /\ assignments' = [ assignments EXCEPT ![id] = Row(c) ]
          /\ \/ assignments[id] = None /\ request[c].id = None
             \/ id = request[c].id /\ assignments[id] # None
                /\ Pair(assignments[id]) = Pair(Row(c))
    BY <1>2, CommitWrites
  <2>2. /\ assignments'[id] = Row(c)
        /\ \A other \in Ids \ {id} : assignments'[other] = assignments[other]
    BY <2>1 DEF STypeOK
  <2>3. ~ Overlaps(c)
    BY <1>2, CommitWrites DEF ChecksHold, Checked
  <2>4. ASSUME NEW other \in Ids \ {id}, assignments[other] # None,
               Pair(assignments[other]) = Pair(Row(c))
        PROVE  ~ Overlap(assignments[other], Row(c))
    <3>1. other # request[c].id
      BY <2>1, NobodyAssumption
    <3> QED
      BY <2>3, <2>4, <3>1 DEF Overlaps, Ids_With
  <2>5. SUFFICES ASSUME NEW one \in Ids, NEW two \in Ids, one # two,
                        assignments'[one] # None, assignments'[two] # None,
                        Pair(assignments'[one]) = Pair(assignments'[two])
                 PROVE  ~ Overlap(assignments'[one], assignments'[two])
    BY DEF NoOverlap, Overlap, Pair
  <2>6. CASE one = id
    BY <2>2, <2>4, <2>5, <2>6, OverlapSymmetric
  <2>7. CASE two = id
    BY <2>2, <2>4, <2>5, <2>7
  <2>8. CASE one # id /\ two # id
    BY <2>2, <2>5, <2>8 DEF NoOverlap
  <2> QED
    BY <2>6, <2>7, <2>8
<1> QED
  BY <1>1, <1>2, OnlyCommitsWrite

-----------------------------------------------------------------------------
(***************************************************************************)
(* The theorems.                                                           *)
(***************************************************************************)

\* The invariant holds of an empty table that no transaction looks at.
LEMMA InitInvariant == SInitAlone => SInv /\ NoOverlap
<1> SUFFICES ASSUME SInitAlone PROVE SInv /\ NoOverlap
  OBVIOUS
<1>1. STypeOK
  BY InitType
<1>2. RequestsServed /\ EditsFound /\ ChecksHold
  BY DEF SInitAlone, SInit, RequestsServed, EditsFound, ChecksHold, Checked
<1>3. PairLocksAgree
  BY NobodyAssumption DEF SInitAlone, SInit, PairLocksAgree, Locked
<1>4. RowsPermitted /\ NoOverlap
  BY DEF SInitAlone, SInit, RowsPermitted, NoOverlap
<1> QED
  BY <1>1, <1>2, <1>3, <1>4 DEF SInv

\* Every step of every transaction keeps it.
LEMMA NextInvariant ==
    ASSUME SInv, NoOverlap, [SNext]_svars
    PROVE  SInv' /\ NoOverlap'
  BY NextType, NextServed, NextLocks, NextFound, NextChecks, NextPermitted, NextNoOverlap
     DEF SInv

\* The types, the locks and the checks agree in every reachable state: a transaction past
\* its advisory lock is alone on its pair, what it read of the table when it checked is still
\* so when it writes, and every row ever written passed the policy (createAssignment,
\* updateAssignment).
THEOREM Invariant == SSpec => []SInv
<1>1. SInv /\ NoOverlap /\ [SNext]_svars => SInv' /\ NoOverlap'
  BY NextInvariant
<1> QED
  BY <1>1, InitInvariant, PTL DEF SSpec

\* No two assignments of a consultant on a mission ever overlap, whatever the number of
\* requests, how they interleave, which of them fail and how the hash of the pair collides
\* (ADR-0106).
THEOREM NeverOverlapping == SSpec => []NoOverlap
<1>1. SInv /\ NoOverlap /\ [SNext]_svars => SInv' /\ NoOverlap'
  BY NextInvariant
<1> QED
  BY <1>1, InitInvariant, PTL DEF SSpec

\* An assignment is never deleted and never changes its consultant or its mission: a PUT
\* moves its dates only, which is why the pair an edit is locked on, read outside the lock,
\* stays the pair of the row it writes.
THEOREM PairsForever ==
    SSpec => [][ \A id \in Ids : assignments[id] # None =>
                   assignments'[id] # None /\ Pair(assignments'[id]) = Pair(assignments[id]) ]_svars
<1> DEFINE Stands == \A id \in Ids : assignments[id] # None =>
                       assignments'[id] # None /\ Pair(assignments'[id]) = Pair(assignments[id])
<1>1. SInv /\ [SNext]_svars => [Stands]_svars
  BY PairsStand DEF SInv
<1> QED
  BY <1>1, Invariant, PTL DEF SSpec

-----------------------------------------------------------------------------
(***************************************************************************)
(* The sweep over the periods of a habilitation covers an interval if and  *)
(* only if they cover each of its days.                                    *)
(***************************************************************************)

\* A set of numbers that is not empty has a least one.
LEMMA LeastNat ==
    ASSUME NEW T \in SUBSET Nat, T # {}
    PROVE  \E n \in T : \A m \in T : n <= m
<1>1. PICK x \in T : \A y \in T : ~ (<< y, x >> \in OpToRel(<, Nat))
  BY NatLessThanWellFounded, WFMin
<1>2. \A y \in T : ~ (y < x)
  BY <1>1 DEF OpToRel
<1> QED
  BY <1>2

\* A bounded set of numbers has a greatest one.
LEMMA GreatestNat ==
    ASSUME NEW T \in SUBSET Nat, T # {}, NEW bound \in Nat, \A m \in T : m <= bound
    PROVE  Max(T) \in T /\ \A m \in T : m <= Max(T)
<1> DEFINE gaps == { gap \in Nat : \E m \in T : gap = bound - m }
<1>0. \A m \in T : m \in Nat /\ bound - m \in Nat
  OBVIOUS
<1>1. gaps \in SUBSET Nat /\ gaps # {}
  BY <1>0
<1>2. PICK gap \in gaps : \A other \in gaps : gap <= other
  BY <1>1, LeastNat
<1>3. PICK n \in T : gap = bound - n
  OBVIOUS
<1>4. ASSUME NEW m \in T PROVE n >= m
  <2>1. bound - m \in gaps
    BY <1>0
  <2>2. bound - n <= bound - m
    BY <1>2, <1>3, <2>1
  <2> QED
    BY <1>0, <2>2
<1> QED
  BY <1>3, <1>4 DEF Max

\* The periods are ones a habilitation may be held for.
Periods == SUBSET [ from : Dates, to : Dates \cup {None} ]

LEMMA PeriodFacts ==
    ASSUME NEW periods \in Periods
    PROVE  /\ LastDay \in Nat \ {0}
           /\ \A p \in periods : /\ p.from \in Nat /\ p.from \in 1 .. LastDay
                                 /\ EndOf(p) \in Nat /\ EndOf(p) <= LastDay + 1
  BY DatesAssumption DEF Periods, Dates, EndOf, Forever

\* A step of the sweep: the day covered through, from the one covered through before.
Swept(periods, day, before) ==
    IF day > before + 1 THEN before ELSE Max({ before } \cup EndsFrom(periods, day))

\* What a step finds.
LEMMA SweptFacts ==
    ASSUME NEW periods \in Periods, NEW day \in Nat, NEW before \in Nat
    PROVE  /\ Swept(periods, day, before) \in Nat
           /\ before <= Swept(periods, day, before)
           /\ day > before + 1 => Swept(periods, day, before) = before
           /\ day <= before + 1 =>
                /\ \A p \in periods : p.from = day => EndOf(p) <= Swept(periods, day, before)
                /\ \/ Swept(periods, day, before) = before
                   \/ \E p \in periods : p.from = day /\ EndOf(p) = Swept(periods, day, before)
<1> DEFINE reached == { before } \cup EndsFrom(periods, day)
           bound == before + LastDay + 1
<1>1. CASE day > before + 1
  BY <1>1 DEF Swept
<1>2. CASE ~ (day > before + 1)
  <2>1. /\ LastDay \in Nat
        /\ \A p \in periods : EndOf(p) \in Nat /\ EndOf(p) <= LastDay + 1
    BY PeriodFacts
  <2>2. /\ reached \in SUBSET Nat /\ reached # {}
        /\ bound \in Nat /\ \A m \in reached : m <= bound
    BY <2>1 DEF EndsFrom
  <2>3. Max(reached) \in reached /\ \A m \in reached : m <= Max(reached)
    <3> HIDE DEF reached, bound
    <3> QED
      BY <2>2, GreatestNat
  <2>4. Swept(periods, day, before) = Max(reached)
    BY <1>2 DEF Swept
  <2>5. before \in reached /\ \A p \in periods : p.from = day => EndOf(p) \in reached
    BY DEF EndsFrom
  <2>6. \A m \in reached : m = before \/ \E p \in periods : p.from = day /\ EndOf(p) = m
    BY DEF EndsFrom
  <2> HIDE DEF reached, bound
  <2>7. Max(reached) \in Nat
    BY <2>2, <2>3
  <2> QED
    BY <1>2, <2>3, <2>4, <2>5, <2>6, <2>7
<1> QED
  BY <1>1, <1>2

\* through is what the sweep of an interval that starts on from has covered by each day.
Sweep(through, periods, from) ==
    through = [ day \in 0 .. LastDay |->
                  IF day = 0 THEN from - 1
                  ELSE IF day > through[day - 1] + 1 THEN through[day - 1]
                  ELSE Max({ through[day - 1] } \cup EndsFrom(periods, day)) ]

\* The same, day by day.
LEMMA SweepDays ==
    ASSUME NEW periods, NEW from, NEW through, Sweep(through, periods, from)
    PROVE  /\ through[0] = from - 1
           /\ \A day \in 1 .. LastDay : through[day] = Swept(periods, day, through[day - 1])
<1> DEFINE f == [ day \in 0 .. LastDay |->
                  IF day = 0 THEN from - 1
                  ELSE IF day > through[day - 1] + 1 THEN through[day - 1]
                  ELSE Max({ through[day - 1] } \cup EndsFrom(periods, day)) ]
<1>1. f[0] = from - 1
  BY DatesAssumption
<1>2. ASSUME NEW day \in 1 .. LastDay PROVE f[day] = Swept(periods, day, through[day - 1])
  BY DatesAssumption DEF Swept
<1>3. through = f
  BY DEF Sweep
<1> HIDE DEF f
<1> QED
  BY <1>1, <1>2, <1>3

\* The function of the sweep exists.
LEMMA SweepExists ==
    ASSUME NEW periods \in Periods, NEW from \in Dates
    PROVE  \E through : Sweep(through, periods, from)
<1> DEFINE Upto(g, n) == /\ g[0] = from - 1
                         /\ \A day \in 1 .. n : g[day] = Swept(periods, day, g[day - 1])
           Good(n) == \E g \in [ 0 .. n -> Nat ] : Upto(g, n)
           wrong == { n \in Nat : ~ Good(n) }
<1>0. from \in Nat \ {0} /\ LastDay \in Nat
  BY DatesAssumption DEF Dates
<1>1. Good(0)
  <2>1. [ day \in 0 .. 0 |-> from - 1 ] \in [ 0 .. 0 -> Nat ]
    BY <1>0
  <2>2. Upto([ day \in 0 .. 0 |-> from - 1 ], 0)
    OBVIOUS
  <2> HIDE DEF Upto
  <2> QED
    BY <2>1, <2>2
<1>2. ASSUME NEW n \in Nat, Good(n) PROVE Good(n + 1)
  <2>1. PICK g \in [ 0 .. n -> Nat ] : Upto(g, n)
    BY <1>2
  <2> DEFINE last == Swept(periods, n + 1, g[n])
             h == [ day \in 0 .. n + 1 |-> IF day = n + 1 THEN last ELSE g[day] ]
  <2>2. last \in Nat
    <3>1. g[n] \in Nat /\ n + 1 \in Nat
      OBVIOUS
    <3> QED
      BY <3>1, SweptFacts
  <2> HIDE DEF last
  <2>3. h \in [ 0 .. n + 1 -> Nat ]
    BY <2>2
  <2>4. h[0] = from - 1
    BY <2>1
  <2>5. ASSUME NEW day \in 1 .. n + 1 PROVE h[day] = Swept(periods, day, h[day - 1])
    <3>1. CASE day = n + 1
      <4>1. h[day] = last /\ h[day - 1] = g[n]
        BY <3>1
      <4> HIDE DEF h
      <4> QED
        BY <3>1, <4>1 DEF last
    <3>2. CASE day # n + 1
      <4>1. day \in 1 .. n /\ h[day] = g[day] /\ h[day - 1] = g[day - 1]
        BY <3>2
      <4> HIDE DEF h
      <4> QED
        BY <2>1, <4>1
    <3> QED
      BY <3>1, <3>2
  <2> HIDE DEF h
  <2> QED
    BY <2>3, <2>4, <2>5
<1>3. Good(LastDay)
  <2> HIDE DEF Good
  <2>1. SUFFICES ASSUME wrong # {} PROVE FALSE
    BY <1>0
  <2>2. PICK n \in wrong : \A m \in wrong : n <= m
    BY <2>1, LeastNat
  <2>3. n # 0
    BY <1>1
  <2>4. n - 1 \in Nat /\ Good(n - 1)
    BY <2>2, <2>3
  <2>5. Good((n - 1) + 1)
    BY <1>2, <2>4
  <2> QED
    BY <2>5
<1>4. PICK g \in [ 0 .. LastDay -> Nat ] : Upto(g, LastDay)
  BY <1>3
<1> DEFINE f == [ day \in 0 .. LastDay |->
                  IF day = 0 THEN from - 1
                  ELSE IF day > g[day - 1] + 1 THEN g[day - 1]
                  ELSE Max({ g[day - 1] } \cup EndsFrom(periods, day)) ]
<1>5. ASSUME NEW day \in 0 .. LastDay PROVE g[day] = f[day]
  <2>1. CASE day = 0
    BY <1>4, <2>1
  <2>2. CASE day # 0
    <3>1. day \in 1 .. LastDay
      BY <1>0, <2>2
    <3>2. g[day] = Swept(periods, day, g[day - 1])
      BY <1>4, <3>1
    <3>3. f[day] = Swept(periods, day, g[day - 1])
      BY <2>2 DEF Swept
    <3> QED
      BY <3>2, <3>3
  <2> QED
    BY <2>1, <2>2
<1>6. g = f
  <2> HIDE DEF Upto
  <2>1. f = [ day \in 0 .. LastDay |-> f[day] ]
    OBVIOUS
  <2>2. g = [ day \in 0 .. LastDay |-> g[day] ]
    OBVIOUS
  <2> HIDE DEF f
  <2> QED
    BY <1>5, <2>1, <2>2
<1>7. Sweep(g, periods, from)
  BY <1>6 DEF Sweep
<1> QED
  BY <1>7

\* coveredThrough is such a function.
LEMMA CoveredThroughSweeps ==
    ASSUME NEW periods \in Periods, NEW from \in Dates
    PROVE  Sweep(CoveredThrough(periods, from), periods, from)
<1> DEFINE P(through) == through = [ day \in 0 .. LastDay |->
                  IF day = 0 THEN from - 1
                  ELSE IF day > through[day - 1] + 1 THEN through[day - 1]
                  ELSE Max({ through[day - 1] } \cup EndsFrom(periods, day)) ]
           sweep == CHOOSE through : P(through)
<1>1. CoveredThrough(periods, from) = sweep
  BY DEF CoveredThrough
<1>2. \A through : P(through) <=> Sweep(through, periods, from)
  BY DEF Sweep
<1>3. P(sweep)
  <2> HIDE DEF P
  <2> QED
    BY <1>2, SweepExists
<1> QED
  BY <1>1, <1>2, <1>3

\* Where the sweep stands after each day: it never goes back, a gap ends it, it has taken in
\* the periods it did not stop before, and what it covers is covered by one of them.
LEMMA SweepStands ==
    ASSUME NEW periods \in Periods, NEW from \in Dates, NEW through,
           Sweep(through, periods, from), NEW n \in 0 .. LastDay
    PROVE  /\ through[n] \in Nat
           /\ \A day \in 0 .. n : /\ through[day] \in Nat
                                  /\ through[day] <= through[n]
                                  /\ through[day] < day => through[n] = through[day]
           /\ \A day \in from .. through[n] : \E p \in periods : Covers(p, day)
<1> DEFINE Stands(k) ==
             /\ through[k] \in Nat
             /\ \A day \in 0 .. k : /\ through[day] \in Nat
                                    /\ through[day] <= through[k]
                                    /\ through[day] < day => through[k] = through[day]
             /\ \A day \in from .. through[k] : \E p \in periods : Covers(p, day)
           wrong == { k \in 0 .. LastDay : ~ Stands(k) }
<1>0. LastDay \in Nat /\ from \in Nat \ {0}
  BY DatesAssumption DEF Dates
<1>1. /\ through[0] = from - 1
      /\ \A day \in 1 .. LastDay : through[day] = Swept(periods, day, through[day - 1])
  BY SweepDays
<1>2. Stands(0)
  BY <1>0, <1>1
<1>3. ASSUME NEW k \in 1 .. LastDay, Stands(k - 1) PROVE Stands(k)
  <2> DEFINE before == through[k - 1]
             after  == through[k]
  <2>1. before \in Nat /\ k \in Nat /\ after = Swept(periods, k, before)
    BY <1>0, <1>1, <1>3
  <2>2. /\ after \in Nat /\ before <= after
        /\ k > before + 1 => after = before
        /\ k <= before + 1 =>
             \/ after = before
             \/ \E p \in periods : p.from = k /\ EndOf(p) = after
    <3> HIDE DEF before, after
    <3> QED
      BY <2>1, SweptFacts
  <2>3. \A day \in 0 .. k - 1 : /\ through[day] \in Nat
                                /\ through[day] <= before
                                /\ through[day] < day => before = through[day]
    BY <1>3
  <2>4. \A day \in from .. before : \E p \in periods : Covers(p, day)
    BY <1>3
  <2>5. ASSUME NEW day \in 0 .. k
        PROVE  /\ through[day] \in Nat
               /\ through[day] <= after
               /\ through[day] < day => after = through[day]
    <3>1. CASE day = k
      BY <2>2, <3>1
    <3>2. CASE day # k
      <4>1. day \in 0 .. k - 1
        BY <1>0, <3>2
      <4>2. /\ through[day] \in Nat /\ through[day] <= before
            /\ through[day] < day => before = through[day]
        BY <2>3, <4>1
      <4> HIDE DEF before, after
      <4> QED
        BY <2>1, <2>2, <4>1, <4>2
    <3> QED
      BY <3>1, <3>2
  <2>6. ASSUME NEW day \in from .. after PROVE \E p \in periods : Covers(p, day)
    <3> HIDE DEF before, after
    <3>1. CASE day <= before
      BY <1>0, <2>1, <2>2, <2>4, <3>1
    <3>2. CASE ~ (day <= before)
      <4>1. k <= before + 1 /\ after # before
        BY <1>0, <2>1, <2>2, <3>2
      <4>2. PICK p \in periods : p.from = k /\ EndOf(p) = after
        BY <2>2, <4>1
      <4>3. p.from <= day /\ day <= EndOf(p)
        BY <1>0, <2>1, <2>2, <3>2, <4>1, <4>2
      <4> QED
        BY <4>3 DEF Covers
    <3> QED
      BY <3>1, <3>2
  <2> QED
    BY <2>2, <2>5, <2>6
<1>4. Stands(n)
  <2> HIDE DEF Stands
  <2>1. SUFFICES ASSUME wrong # {} PROVE FALSE
    OBVIOUS
  <2>2. wrong \in SUBSET Nat
    BY <1>0
  <2>3. PICK k \in wrong : \A other \in wrong : k <= other
    BY <2>1, <2>2, LeastNat
  <2>4. k \in 1 .. LastDay
    BY <1>0, <1>2
  <2>5. k - 1 \in 0 .. LastDay /\ k - 1 \in Nat /\ k - 1 < k
    BY <1>0, <2>4
  <2>6. Stands(k - 1)
    BY <2>3, <2>4, <2>5
  <2> QED
    BY <1>3, <2>4, <2>6
<1> QED
  BY <1>4

\* An interval is covered if and only if each of its days is.
LEMMA FullyCoversIsExact ==
    ASSUME NEW periods \in Periods, NEW interval \in Intervals, Ordered(interval)
    PROVE  FullyCovers(periods, interval) <=>
             \A day \in interval.from .. EndOf(interval) : \E p \in periods : Covers(p, day)
<1> DEFINE from    == interval.from
           end     == EndOf(interval)
           through == CoveredThrough(periods, from)
           last    == through[LastDay]
<1>0. /\ LastDay \in Nat /\ from \in Dates /\ from \in Nat \ {0} /\ from <= LastDay
      /\ end \in Nat /\ from <= end /\ end <= LastDay + 1
  BY DatesAssumption DEF Intervals, Dates, EndOf, Forever, Ordered
<1>1. Sweep(through, periods, from)
  BY <1>0, CoveredThroughSweeps
<1>2. FullyCovers(periods, interval) <=> last >= end
  BY DEF FullyCovers
<1> HIDE DEF through, from, end
<1>3. /\ last \in Nat
      /\ \A day \in 0 .. LastDay : /\ through[day] \in Nat
                                   /\ through[day] <= last
                                   /\ through[day] < day => last = through[day]
      /\ \A day \in from .. last : \E p \in periods : Covers(p, day)
  BY <1>0, <1>1, SweepStands
<1>4. /\ through[0] = from - 1
      /\ \A day \in 1 .. LastDay : through[day] = Swept(periods, day, through[day - 1])
  BY <1>1, SweepDays
<1>5. ASSUME last >= end, NEW day \in from .. end PROVE \E p \in periods : Covers(p, day)
  BY <1>0, <1>3, <1>5
<1>6. ASSUME \A day \in from .. end : \E p \in periods : Covers(p, day), ~ (last >= end)
      PROVE  FALSE
  <2> DEFINE x == last + 1
  <2>1. x \in from .. end
    <3>1. from - 1 <= last
      BY <1>0, <1>3, <1>4
    <3> QED
      BY <1>0, <1>3, <1>6, <3>1
  <2>2. PICK p \in periods : p.from <= x /\ x <= EndOf(p)
    BY <1>6, <2>1 DEF Covers
  <2>3. /\ p.from \in 1 .. LastDay /\ p.from \in Nat /\ p.from - 1 \in 0 .. LastDay
        /\ p.from - 1 \in Nat /\ EndOf(p) \in Nat
    <3>1. p.from \in 1 .. LastDay /\ p.from \in Nat /\ EndOf(p) \in Nat
      BY PeriodFacts
    <3> QED
      BY <1>0, <3>1
  <2> DEFINE before == through[p.from - 1]
             after  == through[p.from]
  <2>4. /\ before \in Nat /\ after \in Nat /\ after <= last
        /\ before < p.from - 1 => last = before
        /\ after = Swept(periods, p.from, before)
    <3>1. p.from \in 0 .. LastDay
      BY <1>0, <2>3
    <3> QED
      BY <1>3, <1>4, <2>3, <3>1
  <2> HIDE DEF before, after, last
  <2>5. CASE p.from <= before + 1
    <3>1. EndOf(p) <= after
      BY <2>3, <2>4, <2>5, SweptFacts
    <3> QED
      BY <1>3, <2>2, <2>3, <2>4, <3>1
  <2>6. CASE ~ (p.from <= before + 1)
    BY <1>3, <2>2, <2>3, <2>4, <2>6
  <2> QED
    BY <2>5, <2>6
<1>7. FullyCovers(periods, interval) <=>
        \A day \in from .. end : \E p \in periods : Covers(p, day)
  BY <1>2, <1>5, <1>6
<1> QED
  BY <1>7 DEF from, end

\* What the policy asks of a row, day by day.
DaysAllowed(row) ==
    \A day \in row.from .. EndOf(row) :
        /\ DayAllowed(day, Runs[row.mission], Required[row.mission], Held, row.consultant)
        /\ Departure[row.consultant] # None => day < Departure[row.consultant]

LEMMA PermittedIsExact ==
    ASSUME NEW row \in Rows, Ordered(row)
    PROVE  Permitted(row) <=> row.consultant \in Office /\ DaysAllowed(row)
<1> DEFINE days == row.from .. EndOf(row)
           departure == Departure[row.consultant]
           runs == Runs[row.mission]
           interval == [ from |-> row.from, to |-> row.to ]
<1>0. /\ row.consultant \in Consultants /\ row.mission \in Missions
      /\ row.from \in Dates /\ row.to \in Dates \cup {None}
  BY DEF Rows
<1>1. /\ LastDay \in Nat /\ row.from \in Nat /\ EndOf(row) \in Nat /\ row.from <= EndOf(row)
      /\ EndOf(row) <= LastDay + 1
  BY <1>0, DatesAssumption DEF Ordered, EndOf, Forever, Dates
<1>2. row.from \in days /\ EndOf(row) \in days
  BY <1>1
<1>3. BeforeDeparture(row, departure) <=> \A day \in days : departure # None => day < departure
  <2>1. departure # None => departure \in Nat
    BY <1>0, DepartAssumption, DatesAssumption DEF Dates
  <2> HIDE DEF departure
  <2> QED
    BY <1>1, <1>2, <2>1 DEF BeforeDeparture
<1>4. WithinMission(row, runs) <=> \A day \in days : Covers(runs, day)
  <2>1. runs \in Intervals
    BY <1>0, MissionAssumption
  <2>2. runs.from \in Nat /\ EndOf(runs) \in Nat
    BY <2>1, DatesAssumption DEF Intervals, Dates, EndOf, Forever
  <2> HIDE DEF runs
  <2> QED
    BY <1>1, <1>2, <2>2 DEF WithinMission, Covers
<1>5. ASSUME NEW habilitation
      PROVE  FullyCovers(HeldOf(Held, row.consultant, habilitation), row) <=>
               \A day \in days :
                 \E p \in HeldOf(Held, row.consultant, habilitation) : Covers(p, day)
  <2> DEFINE periods == HeldOf(Held, row.consultant, habilitation)
  <2>1. periods \in Periods
    BY HeldAssumption DEF HeldOf, Periods
  <2>2. interval \in Intervals /\ Ordered(interval) /\ EndOf(interval) = EndOf(row)
    BY <1>0, <1>1 DEF Intervals, Ordered, EndOf
  <2>3. FullyCovers(periods, row) <=> FullyCovers(periods, interval)
    <3>1. interval.from = row.from
      OBVIOUS
    <3> HIDE DEF interval
    <3> QED
      BY <2>2, <3>1 DEF FullyCovers
  <2>4. interval.from .. EndOf(interval) = days
    BY <2>2
  <2> HIDE DEF interval, periods, days
  <2> QED
    BY <2>1, <2>2, <2>3, <2>4, FullyCoversIsExact DEF periods
<1>6. Permitted(row) <=>
        /\ row.consultant \in Office
        /\ BeforeDeparture(row, departure)
        /\ WithinMission(row, runs)
        /\ \A habilitation \in Required[row.mission] :
             FullyCovers(HeldOf(Held, row.consultant, habilitation), row)
  BY DEF Permitted, Allows
<1>7. DaysAllowed(row) <=>
        /\ \A day \in days : departure # None => day < departure
        /\ \A day \in days : Covers(runs, day)
        /\ \A habilitation \in Required[row.mission] : \A day \in days :
             \E p \in HeldOf(Held, row.consultant, habilitation) : Covers(p, day)
  BY DEF DaysAllowed, DayAllowed
<1> HIDE DEF days, departure, runs
<1> QED
  BY <1>3, <1>4, <1>5, <1>6, <1>7

-----------------------------------------------------------------------------
(***************************************************************************)
(* The policy a request is checked against, and what the rows keep of it.  *)
(***************************************************************************)

\* A request past its lock asks for an interval in order.
RangesOrdered == \A c \in Connections : Locked(c) => Ordered(Row(c))

LEMMA NextOrdered ==
    ASSUME STypeOK, RangesOrdered, [SNext]_svars
    PROVE  RangesOrdered'
<1>1. CASE UNCHANGED svars \/ Record
  BY <1>1 DEF svars, staffing, Record, RangesOrdered, Locked, Row
<1>2. ASSUME NEW c \in Connections, StaffingStep(c), NEW d \in Connections, Locked(d)'
      PROVE  Ordered(Row(d)')
  <2>1. CASE d # c
    <3>1. stage'[d] = stage[d] /\ request'[d] = request[d]
      BY <1>2, <2>1
         DEF StaffingStep, Request, FindAssignment, RefuseLookup, LockPair, RefuseRange,
             ValidateAssignment, RefuseAssignment, CheckRecordedDays, RefuseRecordedDays,
             Insert, Update, Abort, Refuse, Finish, Proceed, STypeOK
    <3> QED
      BY <1>2, <3>1 DEF RangesOrdered, Locked, Row
  <2>2. CASE d = c
    <3>1. \/ LockPair(c)
          \/ Locked(c) /\ request' = request
      BY <1>2, <2>2
         DEF StaffingStep, Request, FindAssignment, RefuseLookup, RefuseRange,
             ValidateAssignment, RefuseAssignment, CheckRecordedDays, RefuseRecordedDays,
             Insert, Update, Abort, Refuse, Finish, Proceed, STypeOK, Locked
    <3>2. CASE LockPair(c)
      BY <2>2, <3>2 DEF LockPair, Row
    <3>3. CASE Locked(c) /\ request' = request
      BY <2>2, <3>3 DEF RangesOrdered, Row
    <3> QED
      BY <3>1, <3>2, <3>3
  <2> QED
    BY <2>1, <2>2
<1> QED
  BY <1>1, <1>2 DEF SNext, RangesOrdered

\* The policy accepts what the days allow, of the request it is asked about.
LEMMA ChecksAreExact == SInv /\ RangesOrdered => PolicyIsExact
<1> SUFFICES ASSUME SInv, RangesOrdered, NEW c \in Connections, stage[c] = "check"
             PROVE  Permitted(Row(c)) <=> Row(c).consultant \in Office /\ DaysAllowed(Row(c))
  BY DEF PolicyIsExact, DaysAllowed
<1>1. request[c] # None
  BY DEF SInv, RequestsServed
<1>2. Row(c) \in Rows
  BY <1>1, SlotType DEF SInv
<1>3. Ordered(Row(c))
  BY DEF RangesOrdered, Locked
<1> QED
  BY <1>2, <1>3, PermittedIsExact

\* Whatever the validities a consultant holds, and in whatever order they come, the policy
\* accepts exactly the intervals whose days would all pass the submission checks.
THEOREM PolicyAgreesWithDays == SSpec => []PolicyIsExact
<1>1. SInitAlone => RangesOrdered
  BY DEF SInitAlone, SInit, RangesOrdered, Locked
<1>2. SInv /\ RangesOrdered /\ [SNext]_svars => RangesOrdered'
  BY NextOrdered DEF SInv
<1> QED
  BY <1>1, <1>2, ChecksAreExact, Invariant, PTL DEF SSpec

\* Each day an assignment covers, after any edits, is a day submission allows.
LEMMA RowsAllowed == SInv => AssignedDaysSubmittable
<1> SUFFICES ASSUME SInv, NEW id \in Ids, assignments[id] # None,
                    NEW day \in Dates, Covers(assignments[id], day)
             PROVE  /\ DayAllowed(day, Runs[assignments[id].mission],
                                  Required[assignments[id].mission], Held,
                                  assignments[id].consultant)
                    /\ Departure[assignments[id].consultant] # None =>
                         day < Departure[assignments[id].consultant]
  BY DEF AssignedDaysSubmittable
<1> DEFINE row == assignments[id]
<1>1. row \in Rows /\ Permitted(row)
  BY DEF SInv, STypeOK, RowsPermitted
<1> HIDE DEF row
<1>2. Ordered(row)
  BY <1>1 DEF Permitted, Allows
<1>3. DaysAllowed(row)
  BY <1>1, <1>2, PermittedIsExact
<1>4. day \in row.from .. EndOf(row)
  <2>1. row.from <= day /\ day <= EndOf(row)
    BY DEF Covers, row
  <2>2. day \in Nat /\ row.from \in Nat /\ EndOf(row) \in Nat
    BY <1>1, DatesAssumption DEF Dates, Rows, EndOf, Forever
  <2> QED
    BY <2>1, <2>2
<1> QED
  BY <1>3, <1>4 DEF DaysAllowed, row

\* So no assignment, however it was edited, covers a day submission would refuse for the
\* mission's dates, a missing habilitation or a departure.
THEOREM AssignedDaysPass == SSpec => []AssignedDaysSubmittable
<1> QED
  BY Invariant, RowsAllowed, PTL

=============================================================================
