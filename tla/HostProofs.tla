----------------------------- MODULE HostProofs -----------------------------
(***************************************************************************)
(* Theorems about what runs on the host: Server, the process that answers, *)
(* for any number of requests in flight, a pool of any size, every         *)
(* catalogue of personas and every choice of routes; and Deployment, the   *)
(* scripts that replace it, for every registry, every history of           *)
(* migrations, every health of the images, and any number of pushes,       *)
(* rollbacks, resets and interruptions, wherever they strike.              *)
(***************************************************************************)
EXTENDS Server, Deployment, TLAPS, FiniteSetTheorems

(***************************************************************************)
(* The shape of a step.                                                    *)
(***************************************************************************)

\* A request that was in flight goes on, with an answer so far.
Moved(slot, stage, answer) ==
    /\ stage \in Stages /\ answer \in Answered \cup {None}
    /\ request' \in [ Slots -> {NoRequest} \cup Served ]
    /\ request'[slot] = [ stage |-> stage, route |-> request[slot].route,
                          cookie |-> request[slot].cookie, origin |-> request[slot].origin,
                          answer |-> answer ]
    /\ \A other \in Slots \ {slot} : request'[other] = request[other]

\* What is in flight has a route and a cookie.
LEMMA InFlightServed ==
    ASSUME ServerTypes, NEW slot \in Slots, request[slot].stage # "none"
    PROVE  request[slot] \in Served
  BY DEF ServerTypes, NoRequest

LEMMA Ranges ==
    ASSUME ServerTypes, NEW slot \in Slots
    PROVE  /\ request[slot].stage \in Stages \cup {"none"}
           /\ request[slot].stage = "none" => request[slot] = NoRequest
<1>1. CASE request[slot] = NoRequest
  BY <1>1 DEF NoRequest
<1>2. CASE request[slot] \in Served
  BY <1>2 DEF Served, Stages, Waiting, Working
<1> QED
  BY <1>1, <1>2 DEF ServerTypes

\* Only the stage, or the stage and the answer, are assigned.
LEMMA StageMoves ==
    ASSUME ServerTypes, NEW slot \in Slots, request[slot].stage # "none",
           NEW stage \in Stages, request' = [ request EXCEPT ![slot].stage = stage ]
    PROVE  Moved(slot, stage, request[slot].answer)
<1>1. request[slot] \in Served /\ request \in [ Slots -> {NoRequest} \cup Served ]
  BY InFlightServed DEF ServerTypes
<1>2. PICK moved : moved = [ request[slot] EXCEPT !.stage = stage ]
  OBVIOUS
<1>3. /\ moved = [ stage |-> stage, route |-> request[slot].route,
                   cookie |-> request[slot].cookie, origin |-> request[slot].origin,
                   answer |-> request[slot].answer ]
      /\ request[slot].answer \in Answered \cup {None}
  BY <1>1, <1>2 DEF Served
<1>4. moved \in Served
  BY <1>1, <1>3 DEF Served
<1>5. request' = [ request EXCEPT ![slot] = moved ]
  BY <1>2
<1> QED
  BY <1>1, <1>3, <1>4, <1>5 DEF Moved

LEMMA AnswerMoves ==
    ASSUME ServerTypes, NEW slot \in Slots, request[slot].stage # "none",
           NEW stage \in Stages, NEW answer \in Answered \cup {None},
           request' = [ request EXCEPT ![slot].stage = stage, ![slot].answer = answer ]
    PROVE  Moved(slot, stage, answer)
<1>1. request[slot] \in Served /\ request \in [ Slots -> {NoRequest} \cup Served ]
  BY InFlightServed DEF ServerTypes
<1>2. PICK moved : moved = [ request[slot] EXCEPT !.stage = stage, !.answer = answer ]
  OBVIOUS
<1>3. moved = [ stage |-> stage, route |-> request[slot].route,
                cookie |-> request[slot].cookie, origin |-> request[slot].origin,
                answer |-> answer ]
  BY <1>1, <1>2 DEF Served
<1>4. moved \in Served
  BY <1>1, <1>3 DEF Served
<1>5. request' = [ request EXCEPT ![slot] = moved ]
  BY <1>2
<1> QED
  BY <1>1, <1>3, <1>4, <1>5 DEF Moved

\* The four things a handler's step does to the pool and its line.
Joins(slot, stage) ==
    /\ request[slot].stage \notin Waiting \cup Working /\ stage \in Waiting
    /\ queue' = Append(queue, slot) /\ pool' = pool

Returns(slot, stage) ==
    /\ request[slot].stage \in Waiting \cup Working /\ stage \notin Waiting \cup Working
    /\ Holder(slot) # {}
    /\ Leave(Holder(slot), None, FALSE) /\ queue' = queue

Opens(slot, stage) ==
    /\ request[slot].stage \in Waiting /\ stage \in Working
    /\ Holder(slot) # {}
    /\ Leave(Holder(slot), slot, TRUE) /\ queue' = queue

Thinks(slot, stage) ==
    /\ request[slot].stage \in Waiting <=> stage \in Waiting
    /\ request[slot].stage \in Working <=> stage \in Working
    /\ pool' = pool /\ queue' = queue

\* What the answers on their way may be.
Answering(slot, stage, answer) ==
    /\ stage \in {"handle", "query", "begin"} \cup Working =>
         Decision(request[slot].route, request[slot].cookie) = "admitted"
    /\ stage = "failing" => answer \in {"refused", "failed"}
    /\ stage = "answered" =>
         answer \in LET decision == Decision(request[slot].route, request[slot].cookie)
                    IN  IF decision = "admitted" THEN {"ok", "refused", "failed"}
                        ELSE {decision, "refused", "failed"}

Progresses(slot, stage, answer) ==
    /\ request[slot] \in Served /\ request[slot].stage # "answered"
    /\ Moved(slot, stage, answer)
    /\ process' = process
    /\ Answering(slot, stage, answer)
    /\ \/ Joins(slot, stage) \/ Returns(slot, stage) \/ Opens(slot, stage)
       \/ Thinks(slot, stage)

\* A transaction has its connection.
LEMMA WorkingHolds ==
    ASSUME ServerTypes, LinesAgree, NEW slot \in Slots, request[slot].stage \in Working
    PROVE  Holder(slot) # {}
  BY DEF LinesAgree, Waiting, Working

\* The table refuses in four ways.
LEMMA DecisionType ==
    ASSUME NEW route, NEW cookie
    PROVE  Decision(route, cookie) \in {"admitted"} \cup Refusals
  BY DEF Decision, Refusals

\* A step of a request sends its answer or takes it further.
LEMMA ServeKinds ==
    ASSUME ServerTypes, LinesAgree, DecisionsHold, NEW slot \in Slots, Serve(slot)
    PROVE  \/ Send(slot)
           \/ \E stage \in Stages, answer \in Answered \cup {None} :
                Progresses(slot, stage, answer)
<1> DEFINE route == request[slot].route
           cookie == request[slot].cookie
<1>0. request[slot].stage # "none" => request[slot] \in Served
  BY InFlightServed
<1>1. ASSUME RefuseOrigin(slot) PROVE Progresses(slot, "answered", "refused")
  <2>1. Moved(slot, "answered", "refused")
    BY <1>1, AnswerMoves DEF RefuseOrigin, At, Answer, Stages, Answered
  <2>2. Answering(slot, "answered", "refused")
    BY DEF Answering, Working
  <2> QED
    BY <1>0, <1>1, <2>1, <2>2 DEF RefuseOrigin, At, Progresses, Thinks, Waiting, Working
<1>2. ASSUME ReadCookie(slot)
      PROVE  \/ Progresses(slot, "lookup", request[slot].answer)
             \/ Progresses(slot, "enforce", request[slot].answer)
  <2>0. request[slot].stage = "arrived"
    BY <1>2 DEF ReadCookie, At
  <2>1. CASE cookie \in Signed
    <3>0. Wait(slot, "lookup")
      BY <1>2, <2>1 DEF ReadCookie
    <3>1. Moved(slot, "lookup", request[slot].answer)
      BY <2>0, <3>0, StageMoves DEF Wait, Stages, Waiting
    <3>2. Answering(slot, "lookup", request[slot].answer)
      BY DEF Answering, Working
    <3> QED
      BY <1>0, <2>0, <3>0, <3>1, <3>2 DEF Wait, Progresses, Joins, Waiting, Working
  <2>2. CASE cookie \notin Signed
    <3>0. /\ request' = [ request EXCEPT ![slot].stage = "enforce" ]
          /\ UNCHANGED << pool, queue, process >>
      BY <1>2, <2>2 DEF ReadCookie
    <3>1. Moved(slot, "enforce", request[slot].answer)
      BY <2>0, <3>0, StageMoves DEF Stages
    <3>2. Answering(slot, "enforce", request[slot].answer)
      BY DEF Answering, Working
    <3> QED
      BY <1>0, <2>0, <3>0, <3>1, <3>2 DEF Progresses, Thinks, Waiting, Working
  <2> QED
    BY <2>1, <2>2
<1>3. ASSUME ByKey(slot)
      PROVE  \/ Progresses(slot, "enforce", request[slot].answer)
             \/ Progresses(slot, "answered", "failed")
  <2>0. request[slot].stage = "lookup"
    BY <1>3 DEF ByKey, At
  <2>1. CASE request' = [ request EXCEPT ![slot].stage = "enforce" ]
    <3>1. Moved(slot, "enforce", request[slot].answer)
      BY <2>0, <2>1, StageMoves DEF Stages
    <3>2. Answering(slot, "enforce", request[slot].answer)
      BY DEF Answering, Working
    <3> QED
      BY <1>0, <1>3, <2>0, <3>1, <3>2 DEF ByKey, Progresses, Returns, Waiting, Working
  <2>2. CASE Answer(slot, "failed")
    <3>1. Moved(slot, "answered", "failed")
      BY <2>0, <2>2, AnswerMoves DEF Answer, Stages, Answered
    <3>2. Answering(slot, "answered", "failed")
      BY DEF Answering, Working
    <3> QED
      BY <1>0, <1>3, <2>0, <3>1, <3>2 DEF ByKey, Progresses, Returns, Waiting, Working
  <2> QED
    BY <1>3, <2>1, <2>2 DEF ByKey
<1>4. ASSUME Enforce(slot)
      PROVE  \/ Progresses(slot, "handle", request[slot].answer)
             \/ Progresses(slot, "answered", Decision(route, cookie))
  <2>0. /\ request[slot].stage = "enforce"
        /\ UNCHANGED << pool, queue, process >>
    BY <1>4 DEF Enforce, At
  <2>1. CASE Decision(route, cookie) = "admitted"
    <3>0. request' = [ request EXCEPT ![slot].stage = "handle" ]
      BY <1>4, <2>1 DEF Enforce
    <3>1. Moved(slot, "handle", request[slot].answer)
      BY <2>0, <3>0, StageMoves DEF Stages
    <3>2. Answering(slot, "handle", request[slot].answer)
      BY <2>1 DEF Answering
    <3> QED
      BY <1>0, <2>0, <3>1, <3>2 DEF Progresses, Thinks, Waiting, Working
  <2>2. CASE Decision(route, cookie) # "admitted"
    <3>0. Answer(slot, Decision(route, cookie))
      BY <1>4, <2>2 DEF Enforce
    <3>1. Decision(route, cookie) \in Answered
      BY <2>2, DecisionType DEF Answered
    <3>2. Moved(slot, "answered", Decision(route, cookie))
      BY <2>0, <3>0, <3>1, AnswerMoves DEF Answer, Stages
    <3>3. Answering(slot, "answered", Decision(route, cookie))
      BY <2>2 DEF Answering, Working
    <3> QED
      BY <1>0, <2>0, <3>2, <3>3 DEF Progresses, Thinks, Waiting, Working
  <2> QED
    BY <2>1, <2>2
<1>5. ASSUME Refuse(slot) PROVE Progresses(slot, "answered", "refused")
  <2>1. Moved(slot, "answered", "refused")
    BY <1>5, AnswerMoves DEF Refuse, At, Answer, Stages, Answered
  <2>2. Answering(slot, "answered", "refused")
    BY DEF Answering, Working
  <2> QED
    BY <1>0, <1>5, <2>1, <2>2 DEF Refuse, At, Progresses, Thinks, Waiting, Working
<1>6. ASSUME Handle(slot)
      PROVE  \/ Progresses(slot, "answered", "ok")
             \/ Progresses(slot, "query", request[slot].answer)
             \/ Progresses(slot, "begin", request[slot].answer)
  <2>0. request[slot].stage = "handle" /\ Decision(route, cookie) = "admitted"
    BY <1>6 DEF Handle, At, DecisionsHold
  <2>1. \/ Answer(slot, "ok") /\ UNCHANGED << pool, queue, process >>
        \/ Wait(slot, "query")
        \/ Wait(slot, "begin")
    BY <1>6 DEF Handle
  <2>2. CASE Answer(slot, "ok") /\ UNCHANGED << pool, queue, process >>
    <3>1. Moved(slot, "answered", "ok")
      BY <2>0, <2>2, AnswerMoves DEF Answer, Stages, Answered
    <3>2. Answering(slot, "answered", "ok")
      BY <2>0 DEF Answering
    <3> QED
      BY <1>0, <2>0, <2>2, <3>1, <3>2 DEF Progresses, Thinks, Waiting, Working
  <2>3. CASE Wait(slot, "query")
    <3>1. Moved(slot, "query", request[slot].answer)
      BY <2>0, <2>3, StageMoves DEF Wait, Stages, Waiting
    <3>2. Answering(slot, "query", request[slot].answer)
      BY <2>0 DEF Answering
    <3> QED
      BY <1>0, <2>0, <2>3, <3>1, <3>2 DEF Wait, Progresses, Joins, Waiting, Working
  <2>4. CASE Wait(slot, "begin")
    <3>1. Moved(slot, "begin", request[slot].answer)
      BY <2>0, <2>4, StageMoves DEF Wait, Stages, Waiting
    <3>2. Answering(slot, "begin", request[slot].answer)
      BY <2>0 DEF Answering
    <3> QED
      BY <1>0, <2>0, <2>4, <3>1, <3>2 DEF Wait, Progresses, Joins, Waiting, Working
  <2> QED
    BY <2>1, <2>2, <2>3, <2>4
<1>7. ASSUME Query(slot)
      PROVE  \E answer \in {"ok", "refused", "failed"} : Progresses(slot, "answered", answer)
  <2>0. request[slot].stage = "query" /\ Decision(route, cookie) = "admitted"
    BY <1>7 DEF Query, At, DecisionsHold
  <2>1. PICK answer \in {"ok", "refused", "failed"} : Answer(slot, answer)
    BY <1>7 DEF Query
  <2>2. Moved(slot, "answered", answer)
    BY <2>0, <2>1, AnswerMoves DEF Answer, Stages, Answered
  <2>3. Answering(slot, "answered", answer)
    BY <2>0 DEF Answering
  <2> QED
    BY <1>0, <1>7, <2>0, <2>2, <2>3 DEF Query, Progresses, Returns, Waiting, Working
<1>8. ASSUME Begin(slot) PROVE Progresses(slot, "work", request[slot].answer)
  <2>0. request[slot].stage = "begin" /\ Decision(route, cookie) = "admitted"
    BY <1>8 DEF Begin, At, DecisionsHold
  <2>1. Moved(slot, "work", request[slot].answer)
    BY <1>8, <2>0, StageMoves DEF Begin, Stages, Working
  <2>2. Answering(slot, "work", request[slot].answer)
    BY <2>0 DEF Answering
  <2> QED
    BY <1>0, <1>8, <2>0, <2>1, <2>2 DEF Begin, Progresses, Opens, Waiting, Working
<1>9. ASSUME Commit(slot) PROVE Progresses(slot, "answered", "ok")
  <2>0. /\ request[slot].stage = "work" /\ Decision(route, cookie) = "admitted"
        /\ Holder(slot) # {}
    BY <1>9, WorkingHolds DEF Commit, At, DecisionsHold, Working
  <2>1. Moved(slot, "answered", "ok")
    BY <1>9, <2>0, AnswerMoves DEF Commit, Answer, Stages, Answered
  <2>2. Answering(slot, "answered", "ok")
    BY <2>0 DEF Answering
  <2> QED
    BY <1>0, <1>9, <2>0, <2>1, <2>2 DEF Commit, Progresses, Returns, Waiting, Working
<1>10. ASSUME Throw(slot)
       PROVE  \E answer \in {"refused", "failed"} : Progresses(slot, "failing", answer)
  <2>0. request[slot].stage = "work" /\ Decision(route, cookie) = "admitted"
    BY <1>10 DEF Throw, At, DecisionsHold, Working
  <2>1. PICK answer \in {"refused", "failed"} :
          request' = [ request EXCEPT ![slot].stage = "failing", ![slot].answer = answer ]
    BY <1>10 DEF Throw
  <2>2. Moved(slot, "failing", answer)
    BY <2>0, <2>1, AnswerMoves DEF Stages, Answered, Working
  <2>3. Answering(slot, "failing", answer)
    BY <2>0 DEF Answering
  <2> QED
    BY <1>0, <1>10, <2>0, <2>2, <2>3 DEF Throw, Progresses, Thinks, Waiting, Working
<1>11. ASSUME Rollback(slot) PROVE Progresses(slot, "answered", request[slot].answer)
  <2>0. /\ request[slot].stage = "failing" /\ Decision(route, cookie) = "admitted"
        /\ Holder(slot) # {} /\ request[slot].answer \in {"refused", "failed"}
    BY <1>11, WorkingHolds DEF Rollback, At, DecisionsHold, Working
  <2>1. Moved(slot, "answered", request[slot].answer)
    BY <1>11, <2>0, AnswerMoves DEF Rollback, Answer, Stages, Answered
  <2>2. Answering(slot, "answered", request[slot].answer)
    BY <2>0 DEF Answering
  <2> QED
    BY <1>0, <1>11, <2>0, <2>1, <2>2 DEF Rollback, Progresses, Returns, Waiting, Working
<1> QED
  <2>1. \A stage, answer : Progresses(slot, stage, answer) =>
          stage \in Stages /\ answer \in Answered \cup {None}
    BY DEF Progresses, Moved
  <2>2. \/ Send(slot)
        \/ \E stage, answer : Progresses(slot, stage, answer)
    BY <1>1, <1>2, <1>3, <1>4, <1>5, <1>6, <1>7, <1>8, <1>9, <1>10, <1>11 DEF Serve
  <2> QED
    BY <2>1, <2>2

-----------------------------------------------------------------------------
(***************************************************************************)
(* The pool and its line.                                                  *)
(***************************************************************************)

\* What a request in flight leaves as it was: the others, in every respect.
LEMMA MovedStages ==
    ASSUME NEW slot \in Slots, NEW stage, NEW answer, Moved(slot, stage, answer)
    PROVE  \A other \in Slots :
             request'[other].stage = IF other = slot THEN stage ELSE request[other].stage
  BY DEF Moved

\* Who is in the line, and who holds a connection, in terms of their elements.
LEMMA HolderFacts ==
    ASSUME NEW slot
    PROVE  Holder(slot) # {} <=> \E c \in Connections : pool[c].by = slot
  BY DEF Holder

\* A connection given back or kept.
LEMMA LeaveFacts ==
    ASSUME ServerTypes, NEW slot \in Slots, NEW by \in Slots \cup {None}, NEW open \in BOOLEAN,
           Leave(Holder(slot), by, open)
    PROVE  /\ pool' \in [ Connections -> [ by : Slots \cup {None}, open : BOOLEAN ] ]
           /\ \A c \in Connections :
                pool'[c] = IF pool[c].by = slot THEN [ by |-> by, open |-> open ] ELSE pool[c]
  BY DEF Leave, Holder, ServerTypes

\* The line with one more at its end.
LEMMA AppendFacts ==
    ASSUME ServerTypes, NEW slot \in Slots, queue' = Append(queue, slot)
    PROVE  /\ queue' \in Seq(Slots)
           /\ Len(queue) \in Nat /\ Len(queue') = Len(queue) + 1
           /\ \A i \in 1 .. Len(queue) : queue'[i] = queue[i]
           /\ queue'[Len(queue) + 1] = slot
           /\ \A other : Queued(other)' <=> Queued(other) \/ other = slot
<1>1. /\ queue \in Seq(Slots) /\ Len(queue) \in Nat
      /\ queue' \in Seq(Slots) /\ Len(queue') = Len(queue) + 1
      /\ \A i \in 1 .. Len(queue) : queue'[i] = queue[i]
      /\ queue'[Len(queue) + 1] = slot
  BY DEF ServerTypes
<1>2. ASSUME NEW other PROVE Queued(other)' <=> Queued(other) \/ other = slot
  BY <1>1 DEF Queued
<1> QED
  BY <1>1, <1>2

\* The line without its head.
LEMMA TailFacts ==
    ASSUME ServerTypes, queue # << >>, queue' = Tail(queue)
    PROVE  /\ queue' \in Seq(Slots) /\ Head(queue) \in Slots
           /\ Len(queue) \in Nat \ {0} /\ Len(queue') = Len(queue) - 1
           /\ queue[1] = Head(queue)
           /\ \A i \in 1 .. Len(queue) - 1 : queue'[i] = queue[i + 1]
  BY DEF ServerTypes

\* A step of one request keeps the line and the leases in agreement.
LEMMA ProgressLines ==
    ASSUME ServerTypes, LinesAgree, PoolAssumption, NEW slot \in Slots, NEW stage, NEW answer,
           Progresses(slot, stage, answer)
    PROVE  LinesAgree' /\ ServerTypes'
<1>0. /\ request[slot] \in Served /\ process' = process
      /\ request' \in [ Slots -> {NoRequest} \cup Served ]
      /\ \A other \in Slots :
           request'[other].stage = IF other = slot THEN stage ELSE request[other].stage
  BY MovedStages DEF Progresses, Moved
<1>00. None \notin Slots
  BY DEF PoolAssumption
<1>1. CASE Joins(slot, stage)
  <2>1. /\ queue' \in Seq(Slots)
        /\ Len(queue) \in Nat /\ Len(queue') = Len(queue) + 1
        /\ \A i \in 1 .. Len(queue) : queue'[i] = queue[i]
        /\ queue'[Len(queue) + 1] = slot
        /\ \A other : Queued(other)' <=> Queued(other) \/ other = slot
    BY <1>1, AppendFacts DEF Joins
  <2>2. ~ Queued(slot) /\ Holder(slot) = {} /\ pool' = pool /\ stage \in Waiting
        /\ request[slot].stage \notin Waiting \cup Working
    BY <1>1 DEF Joins, LinesAgree
  <2>3. \A i, j \in 1 .. Len(queue') : queue'[i] = queue'[j] => i = j
    <3>1. \A i \in 1 .. Len(queue) : queue[i] # slot
      BY <2>2 DEF Queued
    <3>2. \A i \in 1 .. Len(queue') : i \in 1 .. Len(queue) \/ i = Len(queue) + 1
      BY <2>1
    <3> QED
      BY <2>1, <3>1, <3>2 DEF LinesAgree
  <2>4. \A c, d \in Connections : pool'[c].by = pool'[d].by /\ pool'[c].by # None => c = d
    BY <2>2 DEF LinesAgree
  <2>5. ASSUME NEW c \in Connections, NEW i \in 1 .. Len(queue')
        PROVE  queue'[i] # pool'[c].by
    <3>1. pool[c].by # slot
      BY <2>2, HolderFacts
    <3>2. CASE i \in 1 .. Len(queue)
      BY <2>1, <2>2, <3>2 DEF LinesAgree
    <3>3. CASE i = Len(queue) + 1
      BY <2>1, <2>2, <3>1, <3>3
    <3> QED
      BY <2>1, <3>2, <3>3
  <2>6. \A other \in Slots : Holder(other)' = Holder(other)
    BY <2>2 DEF Holder
  <2>7. \A other \in Slots : request'[other].stage \in Waiting \cup Working
                               <=> Queued(other)' \/ Holder(other)' # {}
    BY <1>0, <2>1, <2>2, <2>6 DEF LinesAgree
  <2>8. \A other \in Slots : Queued(other)' => request'[other].stage \in Waiting
    BY <1>0, <2>1, <2>2 DEF LinesAgree
  <2>9. \A c \in Connections :
          pool'[c].open <=> pool'[c].by # None /\ request'[pool'[c].by].stage \in Working
    <3> SUFFICES ASSUME NEW c \in Connections
                 PROVE  pool[c].open <=> pool[c].by # None /\ request'[pool[c].by].stage \in Working
      BY <2>2
    <3>1. pool[c].by # slot
      BY <2>2, HolderFacts
    <3>2. pool[c].by # None => pool[c].by \in Slots
      BY DEF ServerTypes
    <3>3. pool[c].by # None => request'[pool[c].by].stage = request[pool[c].by].stage
      BY <1>0, <3>1, <3>2
    <3> QED
      BY <3>3 DEF LinesAgree
  <2> QED
    BY <1>0, <2>1, <2>2, <2>3, <2>4, <2>5, <2>7, <2>8, <2>9 DEF LinesAgree, ServerTypes
<1>2. ASSUME NEW by, NEW open \in BOOLEAN, Leave(Holder(slot), by, open), queue' = queue,
             by \in {None, slot}, Holder(slot) # {}, stage \notin Waiting,
             by = slot <=> stage \in Working, open <=> stage \in Working
      PROVE  LinesAgree' /\ ServerTypes'
  <2>1. /\ pool' \in [ Connections -> [ by : Slots \cup {None}, open : BOOLEAN ] ]
        /\ \A c \in Connections :
             pool'[c] = IF pool[c].by = slot THEN [ by |-> by, open |-> open ] ELSE pool[c]
    BY <1>2, LeaveFacts
  <2>2. \A c \in Connections :
          /\ pool'[c].by = IF pool[c].by = slot THEN by ELSE pool[c].by
          /\ pool'[c].open = IF pool[c].by = slot THEN open ELSE pool[c].open
    BY <2>1
  <2>3. ~ Queued(slot)
    BY <1>2, <1>00, HolderFacts DEF LinesAgree, Queued
  <2>4. \A other : Queued(other)' <=> Queued(other)
    BY <1>2 DEF Queued
  <2>5. \A c, d \in Connections : pool'[c].by = pool'[d].by /\ pool'[c].by # None => c = d
    BY <1>2, <2>2 DEF LinesAgree
  <2>6. ASSUME NEW c \in Connections, NEW i \in 1 .. Len(queue')
        PROVE  queue'[i] # pool'[c].by
    <3>1. queue'[i] = queue[i] /\ i \in 1 .. Len(queue) /\ queue[i] \in Slots
      BY <1>2 DEF ServerTypes
    <3>2. queue[i] # slot /\ queue[i] # pool[c].by
      BY <2>3, <3>1 DEF Queued, LinesAgree
    <3> QED
      BY <1>00, <1>2, <2>2, <3>1, <3>2
  <2>7. ASSUME NEW other \in Slots
        PROVE  Holder(other)' # {} <=> IF other = slot THEN by = slot ELSE Holder(other) # {}
    <3>1. Holder(other)' # {} <=> \E c \in Connections : pool'[c].by = other
      BY DEF Holder
    <3>2. CASE other = slot
      BY <1>00, <1>2, <2>2, <3>1, <3>2, HolderFacts
    <3>3. CASE other # slot
      BY <1>00, <1>2, <2>2, <3>1, <3>3, HolderFacts
    <3> QED
      BY <3>2, <3>3
  <2>8. \A other \in Slots : request'[other].stage \in Waiting \cup Working
                               <=> Queued(other)' \/ Holder(other)' # {}
    BY <1>0, <1>2, <2>3, <2>4, <2>7 DEF LinesAgree
  <2>9. \A other \in Slots : Queued(other)' => request'[other].stage \in Waiting
    BY <1>0, <2>3, <2>4 DEF LinesAgree
  <2>10. ASSUME NEW c \in Connections
         PROVE  pool'[c].open <=> pool'[c].by # None /\ request'[pool'[c].by].stage \in Working
    <3>1. CASE pool[c].by = slot
      <4>1. pool'[c].by = by /\ pool'[c].open = open
        BY <2>2, <3>1
      <4>2. request'[slot].stage = stage
        BY <1>0
      <4> QED
        BY <1>00, <1>2, <4>1, <4>2
    <3>2. CASE pool[c].by # slot
      <4>1. pool'[c].by = pool[c].by /\ pool'[c].open = pool[c].open
        BY <2>2, <3>2
      <4>2. pool[c].by # None => request'[pool[c].by].stage = request[pool[c].by].stage
        BY <1>0, <3>2 DEF ServerTypes
      <4> QED
        BY <4>1, <4>2 DEF LinesAgree
    <3> QED
      BY <3>1, <3>2
  <2>11. LinesAgree'
    BY <1>2, <2>5, <2>6, <2>8, <2>9, <2>10 DEF LinesAgree
  <2> QED
    BY <1>0, <1>2, <2>1, <2>11 DEF ServerTypes
<1>3. CASE Returns(slot, stage)
  <2>1. stage \notin Waiting /\ stage \notin Working
    BY <1>3 DEF Returns
  <2> QED
    BY <1>00, <1>2, <1>3, <2>1 DEF Returns
<1>4. CASE Opens(slot, stage)
  <2>1. stage \notin Waiting /\ stage \in Working
    BY <1>4 DEF Opens, Waiting, Working
  <2> QED
    BY <1>2, <1>4, <2>1 DEF Opens
<1>5. CASE Thinks(slot, stage)
  <2>1. /\ pool' = pool /\ queue' = queue
        /\ \A other \in Slots :
             /\ request'[other].stage \in Waiting <=> request[other].stage \in Waiting
             /\ request'[other].stage \in Working <=> request[other].stage \in Working
    BY <1>0, <1>5 DEF Thinks
  <2>2. /\ \A other : Queued(other)' <=> Queued(other)
        /\ \A other : Holder(other)' = Holder(other)
    BY <2>1 DEF Queued, Holder
  <2>3. \A c \in Connections : pool[c].by # None => pool[c].by \in Slots
    BY DEF ServerTypes
  <2>4. LinesAgree'
    BY <2>1, <2>2, <2>3 DEF LinesAgree
  <2> QED
    BY <1>0, <2>1, <2>4 DEF ServerTypes
<1> QED
  BY <1>1, <1>3, <1>4, <1>5 DEF Progresses

\* A request that comes or goes away has no part in the pool.
LEMMA OutsidePool ==
    ASSUME ServerTypes, LinesAgree, NEW slot \in Slots,
           request' \in [ Slots -> {NoRequest} \cup Served ],
           \A other \in Slots \ {slot} : request'[other] = request[other],
           request[slot].stage \notin Waiting \cup Working,
           request'[slot].stage \notin Waiting \cup Working,
           UNCHANGED << pool, queue, process >>
    PROVE  LinesAgree' /\ ServerTypes'
<1>1. /\ \A other : Queued(other)' <=> Queued(other)
      /\ \A other : Holder(other)' = Holder(other)
  BY DEF Queued, Holder
<1>2. \A other \in Slots :
        /\ request'[other].stage \in Waiting <=> request[other].stage \in Waiting
        /\ request'[other].stage \in Working <=> request[other].stage \in Working
  OBVIOUS
<1>3. \A c \in Connections : pool[c].by # None => pool[c].by \in Slots
  BY DEF ServerTypes
<1>4. LinesAgree'
  BY <1>1, <1>2, <1>3 DEF LinesAgree
<1> QED
  BY <1>4 DEF ServerTypes

\* A free connection goes to the head of the line.
LEMMA ConnectLines ==
    ASSUME ServerTypes, LinesAgree, NEW connection \in Connections, Connect(connection)
    PROVE  LinesAgree' /\ ServerTypes'
<1> DEFINE head == Head(queue)
<1>1. /\ queue # << >> /\ pool[connection].by = None
      /\ pool' = [ pool EXCEPT ![connection].by = head ]
      /\ queue' = Tail(queue) /\ request' = request /\ process' = process
  BY DEF Connect
<1>2. /\ queue' \in Seq(Slots) /\ head \in Slots
      /\ Len(queue) \in Nat \ {0} /\ Len(queue') = Len(queue) - 1
      /\ queue[1] = head
      /\ \A i \in 1 .. Len(queue) - 1 : queue'[i] = queue[i + 1]
  BY <1>1, TailFacts
<1> HIDE DEF head
<1>3. /\ pool' \in [ Connections -> [ by : Slots \cup {None}, open : BOOLEAN ] ]
      /\ \A c \in Connections : /\ pool'[c].by = IF c = connection THEN head ELSE pool[c].by
                                /\ pool'[c].open = pool[c].open
  BY <1>1, <1>2 DEF ServerTypes
<1>4. ServerTypes'
  BY <1>1, <1>2, <1>3 DEF ServerTypes
<1>5. \A i \in 1 .. Len(queue') : /\ i + 1 \in 1 .. Len(queue) /\ i + 1 # 1
                                  /\ queue'[i] = queue[i + 1]
  BY <1>2
<1>6. \A i, j \in 1 .. Len(queue') : queue'[i] = queue'[j] => i = j
  <2> SUFFICES ASSUME NEW i \in 1 .. Len(queue'), NEW j \in 1 .. Len(queue'),
                      queue'[i] = queue'[j]
               PROVE  i = j
    OBVIOUS
  <2>1. i + 1 = j + 1
    BY <1>5 DEF LinesAgree
  <2> QED
    BY <1>2, <2>1
<1>7. \A i \in 1 .. Len(queue') : queue'[i] # head
  BY <1>2, <1>5 DEF LinesAgree
<1>8. ASSUME NEW other \in Slots PROVE Queued(other)' <=> Queued(other) /\ other # head
  <2>1. ASSUME NEW i \in 1 .. Len(queue), queue[i] = other, other # head
        PROVE  \E j \in 1 .. Len(queue') : queue'[j] = other
    <3>1. i # 1
      BY <1>2, <2>1
    <3>2. i - 1 \in 1 .. Len(queue') /\ queue'[i - 1] = queue[i]
      BY <1>2, <3>1
    <3> QED
      BY <2>1, <3>2
  <2>2. ASSUME NEW j \in 1 .. Len(queue'), queue'[j] = other
        PROVE  other # head /\ \E i \in 1 .. Len(queue) : queue[i] = other
    BY <1>5, <1>7, <2>2
  <2> QED
    BY <2>1, <2>2 DEF Queued
<1>9. \A c \in Connections : pool[c].by # head
  BY <1>2 DEF LinesAgree
<1>10. \A c, d \in Connections : pool'[c].by = pool'[d].by /\ pool'[c].by # None => c = d
  BY <1>3, <1>9 DEF LinesAgree
<1>11. \A c \in Connections, i \in 1 .. Len(queue') : queue'[i] # pool'[c].by
  BY <1>3, <1>5, <1>7 DEF LinesAgree
<1>12. ASSUME NEW other \in Slots
       PROVE  Holder(other)' # {} <=> Holder(other) # {} \/ other = head
  <2>1. Holder(other)' # {} <=> \E c \in Connections : pool'[c].by = other
    BY DEF Holder
  <2>2. None \notin Slots
    BY PoolAssumption
  <2> QED
    BY <1>1, <1>3, <2>1, <2>2, HolderFacts
<1>13. Queued(head)
  <2>1. 1 \in 1 .. Len(queue)
    BY <1>2
  <2> QED
    BY <1>2, <2>1 DEF Queued
<1>14. request[head].stage \in Waiting /\ request[head].stage \notin Working
  BY <1>2, <1>13 DEF LinesAgree, Waiting, Working
<1>15. \A other \in Slots : request'[other].stage \in Waiting \cup Working
                              <=> Queued(other)' \/ Holder(other)' # {}
  BY <1>1, <1>8, <1>12, <1>13 DEF LinesAgree
<1>16. \A other \in Slots : Queued(other)' => request'[other].stage \in Waiting
  BY <1>1, <1>8 DEF LinesAgree
<1>17. \A c \in Connections :
         pool'[c].open <=> pool'[c].by # None /\ request'[pool'[c].by].stage \in Working
  BY <1>1, <1>3, <1>14 DEF LinesAgree
<1> QED
  BY <1>4, <1>6, <1>10, <1>11, <1>15, <1>16, <1>17 DEF LinesAgree

-----------------------------------------------------------------------------
(***************************************************************************)
(* The invariant.                                                          *)
(***************************************************************************)

\* Arrivals and answers that leave.
LEMMA ArriveShape ==
    ASSUME ServerTypes, NEW slot \in Slots, NEW route \in Asked, NEW cookie \in Cookies,
           NEW origin \in BOOLEAN, Arrive(slot, route, cookie, origin)
    PROVE  /\ request' \in [ Slots -> {NoRequest} \cup Served ]
           /\ request'[slot] = [ stage |-> "arrived", route |-> route, cookie |-> cookie,
                                 origin |-> origin, answer |-> None ]
           /\ \A other \in Slots \ {slot} : request'[other] = request[other]
           /\ request[slot].stage = "none" /\ process = "up"
           /\ UNCHANGED << pool, queue, process >>
<1> DEFINE arrived == [ stage |-> "arrived", route |-> route, cookie |-> cookie,
                        origin |-> origin, answer |-> None ]
<1>1. arrived \in Served
  BY DEF Served, Stages
<1>2. request' = [ request EXCEPT ![slot] = arrived ]
  BY DEF Arrive
<1> HIDE DEF arrived
<1>3. /\ request' \in [ Slots -> {NoRequest} \cup Served ]
      /\ request'[slot] = arrived
      /\ \A other \in Slots \ {slot} : request'[other] = request[other]
  BY <1>1, <1>2 DEF ServerTypes
<1> QED
  BY <1>3 DEF Arrive, InFlight, arrived

LEMMA SendShape ==
    ASSUME ServerTypes, NEW slot \in Slots, Send(slot)
    PROVE  /\ request' \in [ Slots -> {NoRequest} \cup Served ]
           /\ request'[slot] = NoRequest
           /\ \A other \in Slots \ {slot} : request'[other] = request[other]
           /\ request[slot].stage = "answered"
           /\ UNCHANGED << pool, queue, process >>
  BY DEF Send, At, ServerTypes

\* An outage answers what was in flight, and empties the pool.
LEMMA OutageShape ==
    ASSUME ServerTypes, Outage
    PROVE  /\ request' \in [ Slots -> {NoRequest} \cup Served ]
           /\ \A slot \in Slots :
                IF request[slot].stage = "none" THEN request'[slot] = NoRequest
                ELSE /\ request'[slot].stage = "answered"
                     /\ request'[slot].route = request[slot].route
                     /\ request'[slot].cookie = request[slot].cookie
                     /\ request'[slot].answer = "failed"
<1> SUFFICES ASSUME NEW slot \in Slots
             PROVE  /\ request'[slot] \in {NoRequest} \cup Served
                    /\ IF request[slot].stage = "none" THEN request'[slot] = NoRequest
                       ELSE /\ request'[slot].stage = "answered"
                            /\ request'[slot].route = request[slot].route
                            /\ request'[slot].cookie = request[slot].cookie
                            /\ request'[slot].answer = "failed"
  <2>1. request' = [ s \in Slots |-> request'[s] ]
    BY DEF Outage
  <2> QED
    BY <2>1
<1>1. request'[slot] = IF request[slot].stage # "none"
                       THEN [ request[slot] EXCEPT !.stage = "answered", !.answer = "failed" ]
                       ELSE NoRequest
  BY DEF Outage, InFlight
<1>2. CASE request[slot].stage = "none"
  BY <1>1, <1>2
<1>3. CASE request[slot].stage # "none"
  <2>1. request[slot] \in Served
    BY <1>3, InFlightServed
  <2>2. request'[slot] = [ stage |-> "answered", route |-> request[slot].route,
                           cookie |-> request[slot].cookie, origin |-> request[slot].origin,
                           answer |-> "failed" ]
    BY <1>1, <1>3, <2>1 DEF Served
  <2>3. request'[slot] \in Served
    BY <2>1, <2>2 DEF Served, Stages, Answered
  <2> QED
    BY <1>3, <2>2, <2>3
<1> QED
  BY <1>2, <1>3

LEMMA OutageLines ==
    ASSUME ServerTypes, Outage
    PROVE  LinesAgree' /\ ServerTypes'
<1>1. /\ request' \in [ Slots -> {NoRequest} \cup Served ]
      /\ \A slot \in Slots : request'[slot].stage \in {"none", "answered"}
  BY OutageShape DEF NoRequest
<1>2. /\ pool' = [ connection \in Connections |-> Idle ]
      /\ queue' = << >> /\ process' = "up"
  BY DEF Outage
<1>3. /\ pool' \in [ Connections -> [ by : Slots \cup {None}, open : BOOLEAN ] ]
      /\ \A c \in Connections : pool'[c].by = None /\ pool'[c].open = FALSE
  BY <1>2 DEF Idle
<1>4. Len(queue') = 0 /\ queue' \in Seq(Slots)
  BY <1>2
<1>5. ServerTypes'
  BY <1>1, <1>2, <1>3, <1>4 DEF ServerTypes
<1>6. \A slot \in Slots : ~ Queued(slot)' /\ Holder(slot)' = {}
  BY <1>3, <1>4, PoolAssumption DEF Queued, Holder
<1> QED
  BY <1>1, <1>3, <1>4, <1>5, <1>6 DEF LinesAgree, Waiting, Working

\* Nothing is in flight once the listener has closed.
LEMMA NextInvariant == ServerInv /\ [Next]_vars => ServerInv'
<1> SUFFICES ASSUME ServerTypes, LinesAgree, DecisionsHold, StopsLast, [Next]_vars
             PROVE  ServerTypes' /\ LinesAgree' /\ DecisionsHold' /\ StopsLast'
  BY DEF ServerInv
<1>1. ASSUME NEW slot \in Slots, NEW route \in Asked, NEW cookie \in Cookies,
             NEW origin \in BOOLEAN, Arrive(slot, route, cookie, origin)
      PROVE  ServerTypes' /\ LinesAgree' /\ DecisionsHold' /\ StopsLast'
  <2>0. /\ request' \in [ Slots -> {NoRequest} \cup Served ]
        /\ request'[slot] = [ stage |-> "arrived", route |-> route, cookie |-> cookie,
                              origin |-> origin, answer |-> None ]
        /\ \A other \in Slots \ {slot} : request'[other] = request[other]
        /\ request[slot].stage = "none" /\ process = "up"
        /\ UNCHANGED << pool, queue, process >>
    BY <1>1, ArriveShape
  <2>1. /\ request' \in [ Slots -> {NoRequest} \cup Served ]
        /\ request'[slot].stage = "arrived"
        /\ \A other \in Slots \ {slot} : request'[other] = request[other]
        /\ request[slot].stage = "none" /\ process = "up"
        /\ UNCHANGED << pool, queue, process >>
    BY <2>0
  <2>2. ServerTypes' /\ LinesAgree'
    BY <2>1, OutsidePool DEF Waiting, Working
  <2>3. DecisionsHold'
    BY <2>1 DEF DecisionsHold, Working
  <2>4. StopsLast'
    BY <2>1 DEF StopsLast
  <2> QED
    BY <2>2, <2>3, <2>4
<1>2. ASSUME NEW slot \in Slots, Serve(slot)
      PROVE  ServerTypes' /\ LinesAgree' /\ DecisionsHold' /\ StopsLast'
  <2>1. CASE Send(slot)
    <3>1. /\ request' \in [ Slots -> {NoRequest} \cup Served ]
          /\ request'[slot] = NoRequest
          /\ \A other \in Slots \ {slot} : request'[other] = request[other]
          /\ request[slot].stage = "answered"
          /\ UNCHANGED << pool, queue, process >>
      BY <2>1, SendShape
    <3>2. request'[slot].stage = "none"
      BY <3>1 DEF NoRequest
    <3>3. ServerTypes' /\ LinesAgree'
      BY <3>1, <3>2, OutsidePool DEF Waiting, Working
    <3>4. DecisionsHold'
      BY <3>1, <3>2 DEF DecisionsHold, Working
    <3>5. StopsLast'
      BY <3>1, <3>2 DEF StopsLast, InFlight
    <3> QED
      BY <3>3, <3>4, <3>5
  <2>2. ASSUME NEW stage \in Stages, NEW answer \in Answered \cup {None},
               Progresses(slot, stage, answer)
        PROVE  ServerTypes' /\ LinesAgree' /\ DecisionsHold' /\ StopsLast'
    <3>1. ServerTypes' /\ LinesAgree'
      BY <2>2, ProgressLines, PoolAssumption
    <3>2. /\ request'[slot].stage = stage /\ request'[slot].route = request[slot].route
          /\ request'[slot].cookie = request[slot].cookie /\ request'[slot].answer = answer
          /\ \A other \in Slots \ {slot} : request'[other] = request[other]
          /\ process' = process /\ request[slot] \in Served
      BY <2>2 DEF Progresses, Moved
    <3>3. Answering(slot, stage, answer)
      BY <2>2 DEF Progresses
    <3>4. DecisionsHold'
      <4>1. stage = "answered" => answer \in Answered
        BY <3>3, DecisionType DEF Answering, Answered
      <4>2. /\ stage \in {"handle", "query", "begin"} \cup Working =>
                 Decision(request'[slot].route, request'[slot].cookie) = "admitted"
            /\ stage = "failing" => answer \in {"refused", "failed"}
        BY <3>2, <3>3 DEF Answering
      <4> QED
        BY <3>2, <4>1, <4>2 DEF DecisionsHold
    <3>5. StopsLast'
      <4>1. request[slot].stage # "none"
        BY <3>2 DEF Served, Stages, Waiting, Working
      <4> QED
        BY <3>2, <4>1 DEF StopsLast, InFlight
    <3> QED
      BY <3>1, <3>4, <3>5
  <2> QED
    BY <1>2, <2>1, <2>2, ServeKinds
<1>3. ASSUME NEW connection \in Connections, Connect(connection)
      PROVE  ServerTypes' /\ LinesAgree' /\ DecisionsHold' /\ StopsLast'
  BY <1>3, ConnectLines DEF Connect, DecisionsHold, StopsLast, InFlight
<1>4. ASSUME Outage PROVE ServerTypes' /\ LinesAgree' /\ DecisionsHold' /\ StopsLast'
  <2>1. ServerTypes' /\ LinesAgree'
    BY <1>4, OutageLines
  <2>2. \A slot \in Slots :
          \/ request'[slot].stage = "none"
          \/ request'[slot].stage = "answered" /\ request'[slot].answer = "failed"
    BY <1>4, OutageShape DEF NoRequest
  <2>3. DecisionsHold' /\ StopsLast'
    BY <1>4, <2>2 DEF DecisionsHold, StopsLast, Outage, Working, Answered
  <2> QED
    BY <2>1, <2>3
<1>5. CASE Stop \/ Close \/ EndPool \/ Start
  <2>1. UNCHANGED << request, pool, queue >>
        /\ process' \in {"up", "stopping", "closed", "ended"}
    BY <1>5 DEF Stop, Close, EndPool, Start
  <2>2. ServerTypes'
    BY <2>1 DEF ServerTypes
  <2>3. LinesAgree' /\ DecisionsHold'
    BY <2>1 DEF LinesAgree, DecisionsHold, Queued, Holder
  <2>4. StopsLast'
    BY <1>5 DEF StopsLast, Stop, Close, EndPool, Start, InFlight
  <2> QED
    BY <2>2, <2>3, <2>4
<1>6. CASE UNCHANGED vars
  BY <1>6 DEF vars, ServerTypes, LinesAgree, DecisionsHold, StopsLast, Queued, Holder, InFlight
<1> QED
  BY <1>1, <1>2, <1>3, <1>4, <1>5, <1>6 DEF Next

LEMMA InitInvariant == Init => ServerInv
<1> SUFFICES ASSUME Init PROVE ServerTypes /\ LinesAgree /\ DecisionsHold /\ StopsLast
  BY DEF ServerInv
<1>1. /\ \A slot \in Slots : request[slot].stage = "none"
      /\ \A c \in Connections : pool[c].by = None /\ pool[c].open = FALSE
      /\ Len(queue) = 0 /\ queue \in Seq(Slots) /\ process = "up"
  BY DEF Init, NoRequest, Idle
<1>2. ServerTypes
  BY <1>1 DEF Init, ServerTypes, Idle
<1>3. \A slot \in Slots : ~ Queued(slot) /\ Holder(slot) = {}
  BY <1>1, PoolAssumption DEF Queued, Holder
<1>4. LinesAgree
  BY <1>1, <1>3 DEF LinesAgree, Waiting, Working
<1> QED
  BY <1>1, <1>2, <1>4 DEF DecisionsHold, StopsLast, Working

\* The line, the leases, the decisions and the stop agree in every reachable state.
THEOREM Invariant == Spec => []ServerInv
<1> QED
  BY InitInvariant, NextInvariant, PTL DEF Spec

-----------------------------------------------------------------------------
(***************************************************************************)
(* The pool.                                                               *)
(***************************************************************************)

\* How many of one that are at most one.
LEMMA AtMostOne ==
    ASSUME NEW S, \A x, y \in S : x = y
    PROVE  IsFiniteSet(S) /\ Cardinality(S) = IF S = {} THEN 0 ELSE 1
<1>1. CASE S = {}
  BY <1>1, FS_EmptySet
<1>2. CASE S # {}
  <2>1. PICK x \in S : TRUE
    BY <1>2
  <2>2. S = {x}
    BY <2>1
  <2> QED
    BY <1>2, <2>2, FS_Singleton
<1> QED
  BY <1>1, <1>2

\* A request holds one connection, or waits for one at one place, or neither.
LEMMA PlacesCounted ==
    ASSUME ServerTypes, LinesAgree, NEW slot \in Slots
    PROVE  Cardinality({ i \in 1 .. Len(queue) : queue[i] = slot }) + Cardinality(Holder(slot))
             = IF request[slot].stage \in Waiting \cup Working THEN 1 ELSE 0
<1> DEFINE places == { i \in 1 .. Len(queue) : queue[i] = slot }
           held   == Holder(slot)
<1>1. \A i, j \in places : i = j
  BY DEF LinesAgree
<1>2. \A c, d \in held : c = d
  BY PoolAssumption DEF LinesAgree, Holder
<1>3. places = {} \/ held = {}
  BY DEF LinesAgree, Holder
<1>4. request[slot].stage \in Waiting \cup Working <=> places # {} \/ held # {}
  BY DEF LinesAgree, Queued
<1> HIDE DEF places, held
<1>5. /\ Cardinality(places) = IF places = {} THEN 0 ELSE 1
      /\ Cardinality(held) = IF held = {} THEN 0 ELSE 1
  BY <1>1, <1>2, AtMostOne
<1>6. Cardinality(places) + Cardinality(held) = IF places # {} \/ held # {} THEN 1 ELSE 0
  BY <1>3, <1>5
<1> QED
  BY <1>4, <1>6 DEF places, held

LEMMA InvariantSound == ServerInv => PoolSound
<1> SUFFICES ASSUME ServerInv PROVE PoolSound
  OBVIOUS
<1>1. ServerTypes /\ LinesAgree
  BY DEF ServerInv
<1>2. ASSUME NEW c \in Connections
      PROVE  /\ pool[c].by = None => ~ pool[c].open
             /\ pool[c].by # None =>
                  /\ request[pool[c].by].stage \in Waiting \cup Working
                  /\ pool[c].open <=> request[pool[c].by].stage \in Working
  <2>1. pool[c].by # None => pool[c].by \in Slots
    BY <1>1 DEF ServerTypes
  <2>2. pool[c].by # None => Holder(pool[c].by) # {}
    BY HolderFacts
  <2> QED
    BY <1>1, <2>1, <2>2 DEF LinesAgree
<1>3. process \in {"up", "stopping", "closed", "ended"}
  BY <1>1 DEF ServerTypes
<1> QED
  BY <1>1, <1>2, <1>3, PlacesCounted DEF PoolSound

\* Whatever is thrown, whoever waits and whenever the process stops or dies: no connection
\* goes back with a transaction open, and none is leaked, shared or held by one who waits.
THEOREM PoolAlwaysSound == Spec => []PoolSound
<1> QED
  BY Invariant, InvariantSound, PTL

-----------------------------------------------------------------------------
(***************************************************************************)
(* The refinement of Desk.                                                 *)
(***************************************************************************)

\* The two modules read one table.
LEMMA SameTable ==
    /\ D!Routes = Routes
    /\ D!Cookies = Cookies
    /\ D!Refusals = Refusals
    /\ \A route, cookie : D!Decision(route, cookie) = Decision(route, cookie)
<1>1. D!Access = Access
  <2>1. \A f, g : D!++(f, g) = f ++ g
    BY DEF D!++, ++
  <2>2. /\ D!SessionRoutes = SessionRoutes /\ D!OpsRoutes = OpsRoutes
        /\ D!CraRoutes = CraRoutes /\ D!InvoiceRoutes = InvoiceRoutes
        /\ D!AssignmentRoutes = AssignmentRoutes /\ D!DashboardRoutes = DashboardRoutes
        /\ D!PreFacturierRoutes = PreFacturierRoutes /\ D!EconomicsRoutes = EconomicsRoutes
        /\ D!WebRoutes = WebRoutes /\ D!SpaRoutes = SpaRoutes
    BY DEF D!SessionRoutes, SessionRoutes, D!OpsRoutes, OpsRoutes, D!CraRoutes, CraRoutes,
           D!InvoiceRoutes, InvoiceRoutes, D!AssignmentRoutes, AssignmentRoutes,
           D!DashboardRoutes, DashboardRoutes, D!PreFacturierRoutes, PreFacturierRoutes,
           D!EconomicsRoutes, EconomicsRoutes, D!WebRoutes, WebRoutes, D!SpaRoutes, SpaRoutes,
           D!PUBLIC, PUBLIC, D!Roles, Roles, D!ManagerAndBilling, ManagerAndBilling
  <2> QED
    BY <2>1, <2>2 DEF D!Access, Access
<1>2. D!Routes = Routes
  BY <1>1 DEF D!Routes, Routes
<1>3. \A route, cookie : D!Decision(route, cookie) = Decision(route, cookie)
  BY <1>1 DEF D!Decision, Decision, D!isPublic, isPublic, D!carries, carries, D!PUBLIC, PUBLIC
<1> QED
  BY <1>2, <1>3 DEF D!Cookies, Cookies, D!Refusals, Refusals

\* What Desk sees of a request.
Shown(r) ==
    IF r.stage = "none" THEN [ route |-> None, cookie |-> None, answer |-> None ]
    ELSE [ route |-> r.route, cookie |-> r.cookie,
           answer |-> IF r.stage = "answered" THEN r.answer ELSE None ]

Desks == [ slot \in Slots |-> Shown(request[slot]) ]

LEMMA InitRefines == Init => D!DeskInit
<1> SUFFICES ASSUME Init PROVE D!DeskInit
  OBVIOUS
<1>1. \A slot \in Slots : ~ InFlight(slot)
  BY DEF Init, InFlight, NoRequest
<1>2. process # "ended"
  BY DEF Init
<1> QED
  BY <1>1, <1>2 DEF D!DeskInit, D!NoRequest

\* The mapping, in one piece, before and after a step.
LEMMA DeskView ==
    /\ D!deskVars = << Desks, process = "ended" >>
    /\ (D!deskVars)' = << Desks', process' = "ended" >>
  BY DEF D!deskVars, Desks, Shown, InFlight, At

\* One slot shows something else, the others what they did.
LEMMA OneSeen ==
    ASSUME NEW slot \in Slots, \A other \in Slots \ {slot} : request'[other] = request[other],
           NEW shown, Shown(request'[slot]) = shown
    PROVE  Desks' = [ Desks EXCEPT ![slot] = shown ]
  BY DEF Desks

\* An empty slot, a request in flight and an answered one.
LEMMA ShownFacts ==
    ASSUME ServerTypes, DecisionsHold, NEW slot \in Slots
    PROVE  /\ request[slot].stage = "none" => Shown(request[slot]) = D!NoRequest
           /\ request[slot].stage # "none" => /\ Shown(request[slot]) # D!NoRequest
                                              /\ Shown(request[slot]).route \in Routes
                                              /\ Shown(request[slot]).cookie \in Cookies
           /\ request[slot].stage = "answered" => Shown(request[slot]).answer # None
           /\ request[slot].stage # "answered" => Shown(request[slot]).answer = None
<1>1. CASE request[slot].stage = "none"
  BY <1>1 DEF Shown, D!NoRequest
<1>2. CASE request[slot].stage # "none"
  <2>1. request[slot].route \in Routes /\ request[slot].cookie \in Cookies
    BY <1>2, InFlightServed, PoolAssumption DEF Served
  <2>2. request[slot].stage = "answered" => request[slot].answer \in Answered
    BY DEF DecisionsHold
  <2>3. None \notin Routes /\ None \notin Answered
    BY PoolAssumption, AnswerAssumption DEF Answered
  <2>4. Shown(request[slot]) =
          [ route |-> request[slot].route, cookie |-> request[slot].cookie,
            answer |-> IF request[slot].stage = "answered" THEN request[slot].answer ELSE None ]
    BY <1>2 DEF Shown
  <2> QED
    BY <1>2, <2>1, <2>2, <2>3, <2>4 DEF D!NoRequest
<1> QED
  BY <1>1, <1>2

LEMMA NextRefines == ServerInv /\ [Next]_vars => [D!DeskNext]_(D!deskVars)
<1> SUFFICES ASSUME ServerTypes, DecisionsHold, StopsLast, LinesAgree, [Next]_vars
             PROVE  D!DeskNext \/ UNCHANGED D!deskVars
  BY DEF ServerInv
<1>0. Desks = [ slot \in Slots |->
                  IF ~ InFlight(slot)
                  THEN [ route |-> None, cookie |-> None, answer |-> None ]
                  ELSE [ route  |-> request[slot].route,
                         cookie |-> request[slot].cookie,
                         answer |-> IF At(slot, "answered") THEN request[slot].answer
                                    ELSE None ] ]
  BY DEF Desks, Shown, InFlight, At
<1>00. \A slot \in Slots : Desks[slot] = Shown(request[slot])
  BY DEF Desks
<1>1. ASSUME Desks' = Desks, (process' = "ended") <=> (process = "ended")
      PROVE  UNCHANGED D!deskVars
  BY <1>1, DeskView
<1>2. ASSUME NEW slot \in Slots, NEW route \in Asked, NEW cookie \in Cookies,
             NEW origin \in BOOLEAN, Arrive(slot, route, cookie, origin)
      PROVE  D!DeskNext
  <2>1. /\ request'[slot] = [ stage |-> "arrived", route |-> route, cookie |-> cookie,
                              origin |-> origin, answer |-> None ]
        /\ \A other \in Slots \ {slot} : request'[other] = request[other]
        /\ request[slot].stage = "none" /\ process = "up" /\ process' = process
    BY <1>2, ArriveShape
  <2>2. Shown(request'[slot]) = [ route |-> route, cookie |-> cookie, answer |-> None ]
    BY <2>1 DEF Shown
  <2>3. Desks' = [ Desks EXCEPT ![slot] = [ route |-> route, cookie |-> cookie,
                                            answer |-> None ] ]
    BY <2>1, <2>2, OneSeen
  <2>4. Desks[slot] = D!NoRequest
    BY <1>00, <2>1, ShownFacts
  <2>5. D!Ask(slot, route, cookie)
    BY <2>1, <2>3, <2>4 DEF D!Ask, D!InFlight, Desks, Shown, InFlight, At
  <2>6. route \in D!Routes /\ cookie \in D!Cookies
    BY PoolAssumption, SameTable
  <2> QED
    BY <2>5, <2>6 DEF D!DeskNext
<1>3. ASSUME NEW slot \in Slots, NEW stage \in Stages, NEW answer \in Answered \cup {None},
             Progresses(slot, stage, answer)
      PROVE  D!DeskNext \/ UNCHANGED D!deskVars
  <2>1. /\ request[slot] \in Served /\ request[slot].stage # "answered"
        /\ request'[slot] = [ stage |-> stage, route |-> request[slot].route,
                              cookie |-> request[slot].cookie,
                              origin |-> request[slot].origin, answer |-> answer ]
        /\ \A other \in Slots \ {slot} : request'[other] = request[other]
        /\ process' = process /\ Answering(slot, stage, answer)
    BY <1>3 DEF Progresses, Moved
  <2>2. request[slot].stage # "none" /\ stage # "none"
    BY <2>1 DEF Served, Stages, Waiting, Working
  <2>3. Shown(request'[slot]) = [ route |-> request[slot].route, cookie |-> request[slot].cookie,
                                  answer |-> IF stage = "answered" THEN answer ELSE None ]
    BY <2>1, <2>2 DEF Shown
  <2>4. Shown(request[slot]) = [ route |-> request[slot].route, cookie |-> request[slot].cookie,
                                 answer |-> None ]
    BY <2>1, <2>2 DEF Shown
  <2>5. CASE stage # "answered"
    <3>1. Desks' = Desks
      BY <2>1, <2>3, <2>4, <2>5 DEF Desks
    <3> QED
      BY <1>1, <2>1, <3>1
  <2>6. CASE stage = "answered"
    <3>1. Shown(request'[slot]) = [ Desks[slot] EXCEPT !.answer = answer ]
      BY <1>00, <2>3, <2>4, <2>6
    <3>2. Desks' = [ Desks EXCEPT ![slot].answer = answer ]
      BY <2>1, <3>1, OneSeen
    <3>3. /\ Desks[slot] # D!NoRequest /\ Desks[slot].answer = None
          /\ Desks[slot].route = request[slot].route /\ Desks[slot].cookie = request[slot].cookie
      BY <1>00, <2>1, <2>2, <2>4, ShownFacts
    <3>4. answer \in D!Answers(Desks[slot].route, Desks[slot].cookie)
      BY <2>1, <2>6, <3>3, SameTable DEF Answering, D!Answers, D!Outcomes
    <3>5. answer \in D!Outcomes \cup D!Refusals
      BY <3>4, SameTable, DecisionType DEF D!Answers, D!Outcomes
    <3>6. D!Decide(slot, answer)
      BY <1>0, <2>1, <3>2, <3>3, <3>4
         DEF D!Decide, D!InFlight, D!Answered, Desks, Shown, InFlight, At
    <3> QED
      BY <3>5, <3>6 DEF D!DeskNext
  <2> QED
    BY <2>5, <2>6
<1>4. ASSUME NEW slot \in Slots, Send(slot) PROVE D!DeskNext
  <2>1. /\ request'[slot] = NoRequest
        /\ \A other \in Slots \ {slot} : request'[other] = request[other]
        /\ request[slot].stage = "answered" /\ process' = process
    BY <1>4, SendShape
  <2>2. Shown(request'[slot]) = D!NoRequest
    BY <2>1 DEF Shown, NoRequest, D!NoRequest
  <2>3. Desks' = [ Desks EXCEPT ![slot] = D!NoRequest ]
    BY <2>1, <2>2, OneSeen
  <2>4. Desks[slot].answer # None
    BY <1>00, <2>1, ShownFacts
  <2>5. D!Reply(slot)
    BY <2>1, <2>3, <2>4 DEF D!Reply, D!Answered, Desks, Shown, InFlight, At
  <2> QED
    BY <2>5 DEF D!DeskNext
<1>5. ASSUME Outage PROVE D!DeskNext
  <2>1. \A slot \in Slots :
          IF request[slot].stage = "none" THEN request'[slot] = NoRequest
          ELSE /\ request'[slot].stage = "answered"
               /\ request'[slot].route = request[slot].route
               /\ request'[slot].cookie = request[slot].cookie
               /\ request'[slot].answer = "failed"
    BY <1>5, OutageShape
  <2>2. ASSUME NEW slot \in Slots
        PROVE  Shown(request'[slot]) = IF Desks[slot] # D!NoRequest
                                       THEN [ Desks[slot] EXCEPT !.answer = "failed" ]
                                       ELSE D!NoRequest
    <3>1. CASE request[slot].stage = "none"
      <4>1. Shown(NoRequest) = D!NoRequest
        BY DEF Shown, NoRequest, D!NoRequest
      <4>2. Desks[slot] = D!NoRequest /\ request'[slot] = NoRequest
        BY <1>00, <2>1, <3>1, ShownFacts
      <4> QED
        BY <4>1, <4>2
    <3>2. CASE request[slot].stage # "none"
      <4>1. Desks[slot] # D!NoRequest
        BY <1>00, <3>2, ShownFacts
      <4>2. Desks[slot] = [ route |-> request[slot].route, cookie |-> request[slot].cookie,
                            answer |-> IF request[slot].stage = "answered"
                                       THEN request[slot].answer ELSE None ]
        BY <1>00, <3>2 DEF Shown
      <4>3. [ Desks[slot] EXCEPT !.answer = "failed" ]
              = [ route |-> request[slot].route, cookie |-> request[slot].cookie,
                  answer |-> "failed" ]
        BY <4>2
      <4>4. Shown(request'[slot]) = [ route |-> request[slot].route,
                                      cookie |-> request[slot].cookie, answer |-> "failed" ]
        BY <2>1, <3>2 DEF Shown
      <4> QED
        BY <4>1, <4>3, <4>4
    <3> QED
      BY <3>1, <3>2
  <2>3. Desks' = [ slot \in Slots |-> IF Desks[slot] # D!NoRequest
                                      THEN [ Desks[slot] EXCEPT !.answer = "failed" ]
                                      ELSE D!NoRequest ]
    BY <2>2 DEF Desks
  <2>4. process' = "up"
    BY <1>5 DEF Outage
  <2>5. D!Cut
    BY <2>3, <2>4 DEF D!Cut, D!InFlight, Desks, Shown, InFlight, At
  <2> QED
    BY <2>5 DEF D!DeskNext
<1>6. CASE UNCHANGED vars \/ Stop \/ Close \/ \E connection \in Connections : Connect(connection)
  <2>1. request' = request /\ (process' = "ended" <=> process = "ended")
    BY <1>6 DEF vars, Stop, Close, Connect
  <2>2. Desks' = Desks
    BY <2>1 DEF Desks
  <2> QED
    BY <1>1, <2>1, <2>2
<1>7. CASE EndPool
  <2>1. /\ request' = request /\ process = "closed" /\ process' = "ended"
        /\ \A slot \in Slots : ~ InFlight(slot)
    BY <1>7 DEF EndPool, StopsLast
  <2>2. Desks' = Desks
    BY <2>1 DEF Desks
  <2>3. \A slot \in Slots : Desks[slot] = D!NoRequest
    BY <1>00, <2>1, ShownFacts DEF InFlight
  <2>4. D!Finish
    BY <2>1, <2>2, <2>3 DEF D!Finish, D!InFlight, Desks, Shown, InFlight, At
  <2> QED
    BY <2>4 DEF D!DeskNext
<1>8. CASE Start
  <2>1. request' = request /\ process = "ended" /\ process' = "up"
    BY <1>8 DEF Start
  <2>2. Desks' = Desks
    BY <2>1 DEF Desks
  <2>3. D!Reopen
    BY <2>1, <2>2 DEF D!Reopen, Desks, Shown, InFlight, At
  <2> QED
    BY <2>3 DEF D!DeskNext
<1>9. ASSUME NEW slot \in Slots, Serve(slot) PROVE D!DeskNext \/ UNCHANGED D!deskVars
  BY <1>3, <1>4, <1>9, ServeKinds
<1> QED
  BY <1>2, <1>5, <1>6, <1>7, <1>8, <1>9 DEF Next

\* The promise of Desk: each request is decided once, by the table and the cookie it carried,
\* whatever the pool, the transactions, the outages and the stops behind it.
THEOREM Refinement == Spec => ImplementsDesk
<1> QED
  BY Invariant, InitRefines, NextRefines, PTL DEF Spec, ImplementsDesk, D!DeskSpec

-----------------------------------------------------------------------------
(***************************************************************************)
(* How a step moves the script.                                            *)
(***************************************************************************)

\* The next command of the same script.
LEMMA ProceedMoves ==
    ASSUME script \in Scripts, NEW step \in Steps, Proceed(step)
    PROVE  /\ script' \in Scripts /\ script' # Nothing
           /\ script'.kind = script.kind /\ script'.step = step
           /\ script'.target = script.target /\ script'.displaced = script.displaced
           /\ script'.recovery = script.recovery
<1>1. PICK moved : moved = [ script EXCEPT !.step = step ]
  OBVIOUS
<1>2. moved = [ kind |-> script.kind, step |-> step, target |-> script.target,
                displaced |-> script.displaced, recovery |-> script.recovery ]
  BY <1>1 DEF Scripts
<1>3. moved \in Scripts
  BY <1>2 DEF Scripts
<1>4. script' = moved
  BY <1>1 DEF Proceed
<1> QED
  BY <1>2, <1>3, <1>4, NothingAssumption

\* deploy_digest reads what it displaces.
LEMMA ReadMoves ==
    ASSUME script \in Scripts, current \in Digests,
           script' = [ script EXCEPT !.displaced = current, !.step = "migrate" ]
    PROVE  /\ script' \in Scripts /\ script' # Nothing
           /\ script'.kind = script.kind /\ script'.step = "migrate"
           /\ script'.target = script.target /\ script'.displaced = current
           /\ script'.recovery = script.recovery
<1>1. PICK moved : moved = [ script EXCEPT !.displaced = current, !.step = "migrate" ]
  OBVIOUS
<1>2. moved = [ kind |-> script.kind, step |-> "migrate", target |-> script.target,
                displaced |-> current, recovery |-> script.recovery ]
  BY <1>1 DEF Scripts
<1>3. moved \in Scripts
  BY <1>2 DEF Scripts, Steps
<1>4. script' = moved
  BY <1>1
<1> QED
  BY <1>2, <1>3, <1>4, NothingAssumption

\* The recovery of what a failed release displaced.
LEMMA RestoreMoves ==
    ASSUME script \in Scripts, script.displaced # Nothing,
           script' = [ script EXCEPT !.target = script.displaced, !.step = "read",
                                     !.recovery = TRUE ]
    PROVE  /\ script' \in Scripts /\ script' # Nothing
           /\ script'.kind = script.kind /\ script'.step = "read"
           /\ script'.target = script.displaced /\ script'.displaced = script.displaced
           /\ script'.recovery
<1>1. PICK moved : moved = [ script EXCEPT !.target = script.displaced, !.step = "read",
                                           !.recovery = TRUE ]
  OBVIOUS
<1>2. moved = [ kind |-> script.kind, step |-> "read", target |-> script.displaced,
                displaced |-> script.displaced, recovery |-> TRUE ]
  BY <1>1 DEF Scripts
<1>3. moved \in Scripts
  BY <1>2 DEF Scripts, Steps, Digests
<1>4. script' = moved
  BY <1>1
<1> QED
  BY <1>2, <1>3, <1>4, NothingAssumption

LEMMA StartMoves ==
    ASSUME NEW kind \in Kinds, NEW step \in Steps, NEW target \in Images,
           Launch(kind, step, target)
    PROVE  /\ script' \in Scripts /\ script' # Nothing
           /\ script'.kind = kind /\ script'.step = step /\ script'.target = target
           /\ script'.displaced = Nothing /\ ~ script'.recovery
<1>1. script' = [ kind |-> kind, step |-> step, target |-> target,
                  displaced |-> Nothing, recovery |-> FALSE ]
  BY DEF Launch
<1>2. script' \in Scripts
  BY <1>1 DEF Scripts, Digests
<1> QED
  BY <1>1, <1>2, NothingAssumption

\* What is spent is gone: an interruption is never forgotten.
LEMMA SpendMoves ==
    ASSUME budget \in [ {"pushes", "mishaps", "manual"} -> Nat ],
           NEW what \in {"pushes", "mishaps", "manual"}, Spend(what)
    PROVE  /\ budget' \in [ {"pushes", "mishaps", "manual"} -> Nat ]
           /\ what = "mishaps" => budget'.mishaps = budget.mishaps - 1
           /\ what # "mishaps" => budget'.mishaps = budget.mishaps
<1>1. budget[what] \in Nat \ {0} /\ budget' = [ budget EXCEPT ![what] = budget[what] - 1 ]
  BY DEF Spend
<1> QED
  BY <1>1

(***************************************************************************)
(* The invariant, action by action.                                        *)
(***************************************************************************)

LEMMA ReleaseInit == HInit => ReleaseInv
<1> SUFFICES ASSUME HInit PROVE ReleaseInv
  OBVIOUS
<1>1. TypeOK
  BY BoundsAssumption DEF HInit, TypeOK, Digests
<1>2. Kept /\ Followed
  BY BoundsAssumption DEF HInit, Kept, Followed, OnRecord
<1>3. Prepared /\ Accepted /\ AppHasItsSchema
  BY DEF HInit, Prepared, Accepted, RecordedWereReady, AppHasItsSchema
<1> QED
  BY <1>1, <1>2, <1>3 DEF ReleaseInv

\* The pushes, the visits, and a script that ends or starts: none touches what is recorded.
LEMMA AroundKeeps ==
    ASSUME ReleaseInv, Push \/ Visit \/ Interrupted
    PROVE  ReleaseInv'
<1>0. /\ UNCHANGED << current, previous, app, schema, accepted >>
      /\ data' = data \/ (data # "none" /\ data' = "visited")
      /\ tag' \in Images
  BY DEF ReleaseInv, TypeOK, Push, Visit, Interrupted, host
<1>1. CASE Push \/ Visit
  <2>1. script' = script
    BY <1>1 DEF Push, Visit
  <2>2. /\ budget' \in [ {"pushes", "mishaps", "manual"} -> Nat ]
        /\ budget'.mishaps = budget.mishaps
    BY <1>1, SpendMoves DEF Push, Visit, ReleaseInv, TypeOK
  <2>3. TypeOK' /\ Kept'
    BY <1>0, <2>1, <2>2 DEF ReleaseInv, TypeOK, Kept
  <2>4. Prepared' /\ Accepted' /\ AppHasItsSchema'
    BY <1>0, <2>1 DEF ReleaseInv, Prepared, Accepted, RecordedWereReady, AppHasItsSchema
  <2>5. Followed'
    BY <1>0, <2>1, <2>2 DEF ReleaseInv, Followed, OnRecord
  <2> QED
    BY <2>3, <2>4, <2>5 DEF ReleaseInv
<1>2. CASE Interrupted
  <2>1. script' = Nothing
    BY <1>2 DEF Interrupted, End
  <2>2. /\ budget' \in [ {"pushes", "mishaps", "manual"} -> Nat ]
        /\ budget'.mishaps = budget.mishaps - 1
    BY <1>2, SpendMoves DEF Interrupted, ReleaseInv, TypeOK
  <2>3. budget.mishaps \in Nat /\ budget'.mishaps < MaxMishaps
    BY <2>2, BoundsAssumption DEF ReleaseInv, TypeOK, Kept
  <2>4. TypeOK' /\ Kept'
    BY <1>0, <2>1, <2>2, <2>3, BoundsAssumption DEF ReleaseInv, TypeOK, Kept
  <2>5. Prepared' /\ Accepted' /\ AppHasItsSchema'
    BY <1>0, <2>1 DEF ReleaseInv, Prepared, Accepted, RecordedWereReady, AppHasItsSchema
  <2>6. Followed'
    BY <2>3, BoundsAssumption DEF Followed
  <2> QED
    BY <2>4, <2>5, <2>6 DEF ReleaseInv
<1> QED
  BY <1>1, <1>2

LEMMA StartKeeps == ASSUME ReleaseInv, Poll \/ ManualRollback \/ Reset PROVE ReleaseInv'
<1>1. /\ UNCHANGED << tag, current, previous, app, schema, data, accepted >>
      /\ script = Nothing
  BY DEF Poll, ManualRollback, Reset, host
<1>2. PICK kind \in Kinds, step \in Steps, target \in Images :
        /\ Launch(kind, step, target)
        /\ step = IF kind = "reset" THEN "dump" ELSE "read"
  BY DEF Poll, ManualRollback, Reset, ReleaseInv, TypeOK, Digests, Kinds, Steps
<1>3. /\ script' \in Scripts /\ script' # Nothing
      /\ script'.kind = kind /\ script'.step = step /\ script'.target = target
      /\ script'.displaced = Nothing /\ ~ script'.recovery
  BY <1>2, StartMoves
<1>4. /\ budget' \in [ {"pushes", "mishaps", "manual"} -> Nat ]
      /\ budget'.mishaps = budget.mishaps
  BY SpendMoves DEF Poll, ManualRollback, Reset, ReleaseInv, TypeOK
<1>5. TypeOK' /\ Kept'
  BY <1>1, <1>2, <1>3, <1>4 DEF ReleaseInv, TypeOK, Kept, Before
<1>6. Prepared' /\ Accepted' /\ AppHasItsSchema'
  BY <1>1, <1>2, <1>3
  DEF ReleaseInv, Prepared, Accepted, RecordedWereReady, AppHasItsSchema, Recording
<1>7. Followed'
  BY <1>1, <1>2, <1>3, <1>4 DEF ReleaseInv, Followed, OnRecord, Before, Recording
<1> QED
  BY <1>5, <1>6, <1>7 DEF ReleaseInv

\* The commands before the swap.
LEMMA BeforeKeeps ==
    ASSUME ReleaseInv, ReadDisplaced \/ Dump \/ Migrate \/ MigrationsDone
    PROVE  ReleaseInv'
<1>0. /\ UNCHANGED << tag, current, previous, app, data, accepted, budget >>
      /\ script \in Scripts /\ script # Nothing
      /\ current \in Digests
  BY NothingAssumption
  DEF ReadDisplaced, Dump, Migrate, MigrationsDone, Running, host, ReleaseInv, TypeOK
<1>1. CASE ReadDisplaced
  <2>1. /\ script.step = "read" /\ schema' = schema
        /\ script' = [ script EXCEPT !.displaced = current, !.step = "migrate" ]
    BY <1>1 DEF ReadDisplaced, Running, host
  <2>2. /\ script' \in Scripts /\ script' # Nothing
        /\ script'.kind = script.kind /\ script'.step = "migrate"
        /\ script'.target = script.target /\ script'.displaced = current
        /\ script'.recovery = script.recovery
    BY <1>0, <2>1, ReadMoves
  <2>3. TypeOK' /\ Kept'
    BY <1>0, <2>1, <2>2 DEF ReleaseInv, TypeOK, Kept, Before
  <2>4. Prepared' /\ Accepted' /\ AppHasItsSchema'
    BY <1>0, <2>1, <2>2
    DEF ReleaseInv, Prepared, Accepted, RecordedWereReady, AppHasItsSchema, Recording
  <2>5. Followed'
    BY <1>0, <2>1, <2>2 DEF ReleaseInv, Followed, OnRecord, Before, Recording
  <2> QED
    BY <2>3, <2>4, <2>5 DEF ReleaseInv
<1>2. CASE Dump
  <2>1. script.step = "dump" /\ schema' = schema /\ Proceed("migrate")
    BY <1>2 DEF Dump, Running, host
  <2>2. /\ script' \in Scripts /\ script' # Nothing
        /\ script'.kind = script.kind /\ script'.step = "migrate"
        /\ script'.target = script.target /\ script'.displaced = script.displaced
        /\ script'.recovery = script.recovery
    BY <1>0, <2>1, ProceedMoves DEF Steps
  <2>3. script.kind = "reset"
    BY <1>0, <2>1 DEF ReleaseInv, Kept, Before, Recording
  <2>4. TypeOK' /\ Kept'
    BY <1>0, <2>1, <2>2, <2>3 DEF ReleaseInv, TypeOK, Kept
  <2>5. Prepared' /\ Accepted' /\ AppHasItsSchema'
    BY <1>0, <2>1, <2>2
    DEF ReleaseInv, Prepared, Accepted, RecordedWereReady, AppHasItsSchema, Recording
  <2>6. Followed'
    BY <1>0, <2>1, <2>2, <2>3 DEF ReleaseInv, Followed, OnRecord
  <2> QED
    BY <2>4, <2>5, <2>6 DEF ReleaseInv
<1>3. CASE Migrate
  <2>1. script.step = "migrate" /\ schema' = schema + 1 /\ script' = script
    BY <1>3 DEF Migrate, Running
  <2>2. TypeOK' /\ Kept'
    BY <1>0, <2>1 DEF ReleaseInv, TypeOK, Kept
  <2>3. app # Nothing => Schema[app] \in Nat
    BY <1>0, ImagesAssumption DEF ReleaseInv, TypeOK, Digests
  <2>4. Prepared' /\ Accepted' /\ AppHasItsSchema'
    BY <1>0, <2>1, <2>3
    DEF ReleaseInv, TypeOK, Prepared, Accepted, RecordedWereReady, AppHasItsSchema, Recording
  <2>5. Followed'
    BY <1>0, <2>1 DEF ReleaseInv, Followed, OnRecord
  <2> QED
    BY <2>2, <2>4, <2>5 DEF ReleaseInv
<1>4. CASE MigrationsDone
  <2>1. /\ script.step = "migrate" /\ schema' = schema /\ Migrated
        /\ Proceed(IF Seeds THEN "seed" ELSE "swap")
    BY <1>4 DEF MigrationsDone, Running, host
  <2>2. /\ script' \in Scripts /\ script' # Nothing
        /\ script'.kind = script.kind /\ script'.step = IF Seeds THEN "seed" ELSE "swap"
        /\ script'.target = script.target /\ script'.displaced = script.displaced
        /\ script'.recovery = script.recovery
    BY <1>0, <2>1, ProceedMoves DEF Steps
  <2>3. TypeOK' /\ Kept'
    BY <1>0, <2>1, <2>2 DEF ReleaseInv, TypeOK, Kept, Before, Seeds
  <2>4. Prepared' /\ Accepted' /\ AppHasItsSchema'
    BY <1>0, <2>1, <2>2
    DEF ReleaseInv, Prepared, Accepted, RecordedWereReady, AppHasItsSchema, Recording,
        Seeds, Migrated
  <2>5. Followed'
    BY <1>0, <2>1, <2>2 DEF ReleaseInv, Followed, OnRecord, Before, Recording, Seeds
  <2> QED
    BY <2>3, <2>4, <2>5 DEF ReleaseInv
<1> QED
  BY <1>1, <1>2, <1>3, <1>4

\* The swap, and the rows it needs.
LEMMA SwapKeeps == ASSUME ReleaseInv, Seed \/ Swap \/ SwapFails PROVE ReleaseInv'
<1>0. /\ UNCHANGED << tag, current, previous, schema, accepted >>
      /\ script \in Scripts /\ script # Nothing
  BY NothingAssumption DEF Seed, Swap, SwapFails, Running, ReleaseInv, TypeOK
<1>1. CASE Seed
  <2>1. /\ script.step = "seed" /\ data' = "seed" /\ UNCHANGED << app, budget >>
        /\ IF script.kind = "reset" THEN script' = Nothing ELSE Proceed("swap")
    BY <1>1 DEF Seed, Running, End
  <2>2. CASE script.kind = "reset"
    <3>1. TypeOK' /\ Kept'
      BY <1>0, <2>1, <2>2 DEF ReleaseInv, TypeOK, Kept
    <3>2. Prepared' /\ Accepted' /\ AppHasItsSchema'
      BY <1>0, <2>1, <2>2 DEF ReleaseInv, Prepared, Accepted, RecordedWereReady, AppHasItsSchema
    <3>3. Followed'
      BY <1>0, <2>1, <2>2 DEF ReleaseInv, Followed, OnRecord
    <3> QED
      BY <3>1, <3>2, <3>3 DEF ReleaseInv
  <2>3. CASE script.kind # "reset"
    <3>1. /\ script' \in Scripts /\ script' # Nothing
          /\ script'.kind = script.kind /\ script'.step = "swap"
          /\ script'.target = script.target /\ script'.displaced = script.displaced
          /\ script'.recovery = script.recovery
      BY <1>0, <2>1, <2>3, ProceedMoves DEF Steps
    <3>2. TypeOK' /\ Kept'
      BY <1>0, <2>1, <2>3, <3>1 DEF ReleaseInv, TypeOK, Kept, Before
    <3>3. schema >= Schema[script.target]
      BY <1>0, <2>1, <2>3 DEF ReleaseInv, Prepared
    <3>4. Prepared' /\ Accepted' /\ AppHasItsSchema'
      BY <1>0, <2>1, <3>1, <3>3
      DEF ReleaseInv, Prepared, Accepted, RecordedWereReady, AppHasItsSchema, Recording
    <3>5. Followed'
      BY <1>0, <2>1, <2>3, <3>1 DEF ReleaseInv, Followed, OnRecord, Before, Recording
    <3> QED
      BY <3>2, <3>4, <3>5 DEF ReleaseInv
  <2> QED
    BY <2>2, <2>3
<1>2. CASE Swap
  <2>1. /\ script.step = "swap" /\ app' = script.target /\ Proceed("wait")
        /\ UNCHANGED << data, budget >>
    BY <1>2 DEF Swap, Running
  <2>2. /\ script' \in Scripts /\ script' # Nothing
        /\ script'.kind = script.kind /\ script'.step = "wait"
        /\ script'.target = script.target /\ script'.displaced = script.displaced
        /\ script'.recovery = script.recovery
    BY <1>0, <2>1, ProceedMoves DEF Steps
  <2>3. script.kind # "reset"
    BY <1>0, <2>1 DEF ReleaseInv, Kept
  <2>4. TypeOK' /\ Kept'
    BY <1>0, <2>1, <2>2, <2>3 DEF ReleaseInv, TypeOK, Kept, Scripts, Digests
  <2>5. Prepared' /\ Accepted' /\ AppHasItsSchema'
    BY <1>0, <2>1, <2>2
    DEF ReleaseInv, Prepared, Accepted, RecordedWereReady, AppHasItsSchema, Recording
  <2>6. Followed'
    BY <1>0, <2>1, <2>2, <2>3 DEF ReleaseInv, Followed, OnRecord, Before, Recording
  <2> QED
    BY <2>4, <2>5, <2>6 DEF ReleaseInv
<1>3. CASE SwapFails
  <2>1. script' = Nothing /\ app' = Nothing /\ data' = data
    BY <1>3 DEF SwapFails, End
  <2>2. /\ budget' \in [ {"pushes", "mishaps", "manual"} -> Nat ]
        /\ budget'.mishaps = budget.mishaps - 1
    BY <1>3, SpendMoves DEF SwapFails, ReleaseInv, TypeOK
  <2>3. budget.mishaps \in Nat /\ budget'.mishaps < MaxMishaps
    BY <2>2, BoundsAssumption DEF ReleaseInv, TypeOK, Kept
  <2>4. TypeOK' /\ Kept'
    BY <1>0, <2>1, <2>2, <2>3, BoundsAssumption DEF ReleaseInv, TypeOK, Kept, Digests
  <2>5. Prepared' /\ Accepted' /\ AppHasItsSchema'
    BY <1>0, <2>1 DEF ReleaseInv, Prepared, Accepted, RecordedWereReady, AppHasItsSchema
  <2>6. Followed'
    BY <2>3, BoundsAssumption DEF Followed
  <2> QED
    BY <2>4, <2>5, <2>6 DEF ReleaseInv
<1> QED
  BY <1>1, <1>2, <1>3

\* The readiness check: what came up is recorded, or what it displaced comes back.
LEMMA WaitKeeps == ASSUME ReleaseInv, Ready \/ NotReady PROVE ReleaseInv'
<1>0. /\ UNCHANGED << tag, current, previous, app, schema, data, budget >>
      /\ script \in Scripts /\ script # Nothing /\ script.step = "wait"
  BY NothingAssumption DEF Ready, NotReady, Running, host, ReleaseInv, TypeOK
<1>1. script.kind # "reset" /\ script.target \in Images
  BY <1>0 DEF ReleaseInv, Kept, Scripts
<1>2. CASE Ready
  <2>1. PICK step \in Recording : Proceed(step) /\ accepted' = accepted \cup {script.target}
    BY <1>2 DEF Ready, RecordNext, Recording
  <2>2. /\ script' \in Scripts /\ script' # Nothing
        /\ script'.kind = script.kind /\ script'.step = step
        /\ script'.target = script.target /\ script'.displaced = script.displaced
        /\ script'.recovery = script.recovery
    BY <1>0, <2>1, ProceedMoves DEF Steps, Recording
  <2>3. TypeOK' /\ Kept'
    BY <1>0, <1>1, <2>1, <2>2 DEF ReleaseInv, TypeOK, Kept
  <2>4. Prepared' /\ Accepted' /\ AppHasItsSchema'
    BY <1>0, <2>1, <2>2
    DEF ReleaseInv, Prepared, Accepted, RecordedWereReady, AppHasItsSchema
  <2>5. Followed'
    BY <1>0, <1>1, <2>1, <2>2 DEF ReleaseInv, Followed, Before, Recording
  <2> QED
    BY <2>3, <2>4, <2>5 DEF ReleaseInv
<1>3. CASE NotReady /\ Restores
  <2>1. /\ script' = [ script EXCEPT !.target = script.displaced, !.step = "read",
                                     !.recovery = TRUE ]
        /\ script.displaced # Nothing /\ accepted' = accepted
    BY <1>3 DEF NotReady, Restores
  <2>2. /\ script' \in Scripts /\ script' # Nothing
        /\ script'.kind = script.kind /\ script'.step = "read"
        /\ script'.target = script.displaced /\ script'.displaced = script.displaced
        /\ script'.recovery
    BY <1>0, <2>1, RestoreMoves
  <2>3. TypeOK' /\ Kept'
    BY <1>0, <1>1, <2>1, <2>2 DEF ReleaseInv, TypeOK, Kept, Before
  <2>4. Prepared' /\ Accepted' /\ AppHasItsSchema'
    BY <1>0, <2>1, <2>2
    DEF ReleaseInv, Prepared, Accepted, RecordedWereReady, AppHasItsSchema, Recording
  <2>5. Followed'
    BY <1>0, <1>1, <2>1, <2>2 DEF ReleaseInv, Followed, Before, Recording
  <2> QED
    BY <2>3, <2>4, <2>5 DEF ReleaseInv
<1>4. CASE NotReady /\ ~ Restores
  <2>1. script' = Nothing /\ accepted' = accepted
    BY <1>4 DEF NotReady, End
  <2>2. TypeOK' /\ Kept'
    BY <1>0, <2>1 DEF ReleaseInv, TypeOK, Kept
  <2>3. Prepared' /\ Accepted' /\ AppHasItsSchema'
    BY <1>0, <2>1 DEF ReleaseInv, Prepared, Accepted, RecordedWereReady, AppHasItsSchema
  <2>4. Followed'
    BY <1>0, <1>1, <1>4, <2>1 DEF ReleaseInv, Followed, OnRecord, Restores
  <2> QED
    BY <2>2, <2>3, <2>4 DEF ReleaseInv
<1> QED
  BY <1>2, <1>3, <1>4

\* The digests are recorded one file after the other.
LEMMA RecordKeeps ==
    ASSUME ReleaseInv, RecordPrevious \/ TruncateCurrent \/ RecordCurrent
    PROVE  ReleaseInv'
<1>0. /\ UNCHANGED << tag, app, schema, data, accepted, budget >>
      /\ script \in Scripts /\ script # Nothing /\ script.step \in Recording
  BY NothingAssumption
  DEF RecordPrevious, TruncateCurrent, RecordCurrent, Running, Recording, ReleaseInv, TypeOK
<1>1. /\ script.kind # "reset" /\ script.target \in Images /\ script.displaced \in Digests
      /\ schema >= Schema[script.target] /\ data # "none"
      /\ script.target \in accepted /\ script.displaced \in accepted \cup {Nothing}
  BY <1>0 DEF ReleaseInv, Kept, Recording, Scripts, Prepared, Accepted
<1>2. ASSUME NEW step \in Recording, Proceed(step), current' \in {current, Nothing},
             previous' \in {previous, script.displaced}
      PROVE  ReleaseInv'
  <2>1. /\ script' \in Scripts /\ script' # Nothing
        /\ script'.kind = script.kind /\ script'.step = step
        /\ script'.target = script.target /\ script'.displaced = script.displaced
        /\ script'.recovery = script.recovery
    BY <1>0, <1>2, ProceedMoves DEF Steps, Recording
  <2>2. TypeOK' /\ Kept'
    BY <1>0, <1>1, <1>2, <2>1 DEF ReleaseInv, TypeOK, Kept, Digests
  <2>3. Prepared' /\ Accepted' /\ AppHasItsSchema'
    BY <1>0, <1>1, <1>2, <2>1
    DEF ReleaseInv, Prepared, Accepted, RecordedWereReady, AppHasItsSchema
  <2>4. Followed'
    BY <1>0, <1>1, <1>2, <2>1 DEF ReleaseInv, Followed, Before, Recording
  <2> QED
    BY <2>2, <2>3, <2>4 DEF ReleaseInv
<1>3. CASE RecordPrevious \/ TruncateCurrent
  BY <1>2, <1>3 DEF RecordPrevious, TruncateCurrent, Recording
<1>4. CASE RecordCurrent
  <2>1. script' = Nothing /\ current' = script.target /\ previous' = previous
    BY <1>4 DEF RecordCurrent, End
  <2>2. TypeOK' /\ Kept'
    BY <1>0, <1>1, <2>1 DEF ReleaseInv, TypeOK, Kept, Digests
  <2>3. Prepared' /\ Accepted' /\ AppHasItsSchema'
    BY <1>0, <1>1, <2>1 DEF ReleaseInv, Prepared, Accepted, RecordedWereReady, AppHasItsSchema
  <2>4. Followed'
    BY <1>0, <1>1, <2>1 DEF ReleaseInv, Followed, OnRecord
  <2> QED
    BY <2>2, <2>3, <2>4 DEF ReleaseInv
<1> QED
  BY <1>3, <1>4

LEMMA ReleaseStep == ReleaseInv /\ [HNext]_hvars => ReleaseInv'
<1> SUFFICES ASSUME ReleaseInv, [HNext]_hvars PROVE ReleaseInv'
  OBVIOUS
<1>1. CASE HNext
  BY <1>1, AroundKeeps, StartKeeps, BeforeKeeps, SwapKeeps, WaitKeeps, RecordKeeps
  DEF HNext, Script
<1>2. CASE UNCHANGED hvars
  BY <1>2
  DEF hvars, host, ReleaseInv, TypeOK, Kept, Prepared, Accepted, RecordedWereReady,
      AppHasItsSchema, Followed, OnRecord
<1> QED
  BY <1>1, <1>2

(***************************************************************************)
(* The theorems.                                                           *)
(***************************************************************************)

\* A script is always where its record says, whatever interrupted the ones before it.
THEOREM ReleaseInvariant == HSpec => []ReleaseInv
<1> QED
  BY ReleaseInit, ReleaseStep, PTL DEF HSpec

\* The running app never has a schema older than its own migrations, nor runs on a database
\* that was never seeded, for any history of migrations, also after a rollback
\* (pull-and-redeploy.sh migrates and seeds before it swaps).
THEOREM SchemaBeforeApp == HSpec => []AppHasItsSchema
<1>1. ReleaseInv => AppHasItsSchema
  BY DEF ReleaseInv
<1> QED
  BY <1>1, ReleaseInvariant, PTL

\* What a rollback or a recovery deploys has passed a readiness check on this host (ADR-0029).
THEOREM OnlyAcceptedIsRecorded == HSpec => []RecordedWereReady
<1>1. ReleaseInv => RecordedWereReady
  BY DEF ReleaseInv, Accepted
<1> QED
  BY <1>1, ReleaseInvariant, PTL

\* With no script at work and nothing interrupted, what runs is what is on record, after
\* releases that failed and recoveries too.
THEOREM RecordIsWhatRuns == HSpec => []RunsWhatIsRecorded
<1>1. ReleaseInv => RunsWhatIsRecorded
  BY DEF ReleaseInv, Followed, OnRecord, RunsWhatIsRecorded
<1> QED
  BY <1>1, ReleaseInvariant, PTL

=============================================================================
