------------------------------- MODULE Server -------------------------------
(***************************************************************************)
(* One process of the API: a request passes the origin check, the lookup   *)
(* of its persona, the access table and its handler (server.ts, access.ts),*)
(* on connections it shares with every other request (unit-of-work.ts,     *)
(* composition.ts), until a signal stops it (main.ts).  What a transaction *)
(* does inside is Issuance, Timesheet, Staffing or Readings.               *)
(***************************************************************************)
EXTENDS Access, Naturals, Sequences, FiniteSets

CONSTANTS
    Slots,         \* the requests that may be in flight together
    Connections,   \* the pool's
    Asked          \* the routes that are asked of this instance

ASSUME PoolAssumption == Asked \subseteq Routes /\ None \notin Slots \cup Routes

VARIABLES
    request,    \* slot -> NoRequest, or route, cookie, origin, stage and answer
    pool,       \* connection -> the slot it is leased to, and whether a transaction is open
    queue,      \* the slots that wait for a connection, first come first served
    process     \* "up", "stopping", "closed" (app.close() resolved), "ended" (pool.end() too)

vars == << request, pool, queue, process >>

NoRequest == [ stage |-> "none" ]
Idle      == [ by |-> None, open |-> FALSE ]

\* The handlers that reach no database, and those that ask it one thing outside a transaction.
Direct  == {"session", "clear", "healthz", "stylesheet", "spa", "calendar"}
Lookups == {"personas", "choose", "readyz"}

Waiting == {"lookup", "query", "begin"}    \* a connection is asked for, or held
Working == {"work", "failing"}             \* between BEGIN and COMMIT or ROLLBACK

InFlight(slot) == request[slot].stage # "none"
At(slot, stage) == request[slot].stage = stage
Holder(slot)   == { connection \in Connections : pool[connection].by = slot }

Init ==
    /\ request = [ slot \in Slots |-> NoRequest ]
    /\ pool = [ connection \in Connections |-> Idle ]
    /\ queue = << >>
    /\ process = "up"

-----------------------------------------------------------------------------
(* The pool.  connect() and query() wait in one line; release() puts the   *)
(* connection back as the last statement left it.                          *)

Wait(slot, stage) ==
    /\ request' = [ request EXCEPT ![slot].stage = stage ]
    /\ queue' = Append(queue, slot)
    /\ UNCHANGED << pool, process >>

Connect(connection) ==
    /\ queue # << >>
    /\ pool[connection].by = None
    /\ pool' = [ pool EXCEPT ![connection].by = Head(queue) ]
    /\ queue' = Tail(queue)
    /\ UNCHANGED << request, process >>

\* The slot's connection after a statement, kept or given back.
Leave(connections, by, open) ==
    pool' = [ connection \in Connections |->
                IF connection \in connections THEN [ by |-> by, open |-> open ]
                ELSE pool[connection] ]

Answer(slot, answer) ==
    request' = [ request EXCEPT ![slot].stage = "answered", ![slot].answer = answer ]

-----------------------------------------------------------------------------
(* A request, up to its handler.                                           *)

\* A signal closes the listener: nothing arrives any more.
Arrive(slot, route, cookie, origin) ==
    /\ process = "up"
    /\ ~ InFlight(slot)
    /\ request' = [ request EXCEPT ![slot] =
                      [ stage |-> "arrived", route |-> route, cookie |-> cookie,
                        origin |-> origin, answer |-> None ] ]
    /\ UNCHANGED << pool, queue, process >>

RefuseOrigin(slot) ==
    /\ At(slot, "arrived")
    /\ request[slot].route \in StateChanging /\ ~ request[slot].origin
    /\ Answer(slot, "refused")
    /\ UNCHANGED << pool, queue, process >>

\* A cookie that unsigns is looked up on every route, the public ones included.
ReadCookie(slot) ==
    /\ At(slot, "arrived")
    /\ request[slot].route \in StateChanging => request[slot].origin
    /\ IF request[slot].cookie \in Signed THEN Wait(slot, "lookup")
       ELSE /\ request' = [ request EXCEPT ![slot].stage = "enforce" ]
            /\ UNCHANGED << pool, queue, process >>

\* The lookup keeps its connection for the handler, which waits for one of its own.
ByKey_Kept(slot) ==
    /\ At(slot, "lookup")
    /\ Holder(slot) # {}
    /\ request' = [ request EXCEPT ![slot].stage = "enforce" ]
    /\ UNCHANGED << pool, queue, process >>

\* pool.query: one statement, and the connection goes back whether it fails or not.
ByKey(slot) ==
    /\ At(slot, "lookup")
    /\ Holder(slot) # {}
    /\ Leave(Holder(slot), None, FALSE)
    /\ \/ request' = [ request EXCEPT ![slot].stage = "enforce" ]
       \/ Answer(slot, "failed")
    /\ UNCHANGED << queue, process >>

Enforce(slot) ==
    /\ At(slot, "enforce")
    /\ LET decision == Decision(request[slot].route, request[slot].cookie)
       IN  IF decision = "admitted"
           THEN request' = [ request EXCEPT ![slot].stage = "handle" ]
           ELSE Answer(slot, decision)
    /\ UNCHANGED << pool, queue, process >>

-----------------------------------------------------------------------------
(* The handler.                                                            *)

\* What is malformed is refused before the database is asked anything.
Refuse(slot) ==
    /\ At(slot, "handle")
    /\ request[slot].route \notin Direct
    /\ Answer(slot, "refused")
    /\ UNCHANGED << pool, queue, process >>

Handle(slot) ==
    /\ At(slot, "handle")
    /\ CASE request[slot].route \in Direct ->
              Answer(slot, "ok") /\ UNCHANGED << pool, queue, process >>
         [] request[slot].route \in Lookups -> Wait(slot, "query")
         [] OTHER -> Wait(slot, "begin")

\* The catalogue or the probe: an unknown key is a 404, a failure a 500 or a 503.
Query(slot) ==
    /\ At(slot, "query")
    /\ Holder(slot) # {}
    /\ Leave(Holder(slot), None, FALSE)
    /\ \E answer \in {"ok", "refused", "failed"} : Answer(slot, answer)
    /\ UNCHANGED << queue, process >>

Begin(slot) ==
    /\ At(slot, "begin")
    /\ Holder(slot) # {}
    /\ Leave(Holder(slot), slot, TRUE)
    /\ request' = [ request EXCEPT ![slot].stage = "work" ]
    /\ UNCHANGED << queue, process >>

\* COMMIT, then the finally: release() and the answer.
Commit(slot) ==
    /\ At(slot, "work")
    /\ Leave(Holder(slot), None, FALSE)
    /\ Answer(slot, "ok")
    /\ UNCHANGED << queue, process >>

\* A rule refuses, a record is not there or out of scope, a statement fails.
Throw(slot) ==
    /\ At(slot, "work")
    /\ \E answer \in {"refused", "failed"} :
         request' = [ request EXCEPT ![slot].stage = "failing", ![slot].answer = answer ]
    /\ UNCHANGED << pool, queue, process >>

\* The connection goes back without its ROLLBACK.
Rollback_Skipped(slot) ==
    /\ At(slot, "failing")
    /\ Leave(Holder(slot), None, TRUE)
    /\ Answer(slot, request[slot].answer)
    /\ UNCHANGED << queue, process >>

\* ROLLBACK, then the finally, and the error handler answers what was thrown.
Rollback(slot) ==
    /\ At(slot, "failing")
    /\ Leave(Holder(slot), None, FALSE)
    /\ Answer(slot, request[slot].answer)
    /\ UNCHANGED << queue, process >>

Send(slot) ==
    /\ At(slot, "answered")
    /\ request' = [ request EXCEPT ![slot] = NoRequest ]
    /\ UNCHANGED << pool, queue, process >>

-----------------------------------------------------------------------------
(* The process.                                                            *)

\* The database is gone: its connections emit an error nobody listens to, the process exits
\* and its container starts another.  The connections' transactions end with them.
Outage ==
    /\ process # "ended"
    /\ request' = [ slot \in Slots |->
                      IF InFlight(slot)
                      THEN [ request[slot] EXCEPT !.stage = "answered", !.answer = "failed" ]
                      ELSE NoRequest ]
    /\ pool' = [ connection \in Connections |-> Idle ]
    /\ queue' = << >>
    /\ process' = "up"

Stop ==
    /\ process = "up"
    /\ process' = "stopping"
    /\ UNCHANGED << request, pool, queue >>

\* app.close() resolves once no request is left.
Close ==
    /\ process = "stopping"
    /\ \A slot \in Slots : ~ InFlight(slot)
    /\ process' = "closed"
    /\ UNCHANGED << request, pool, queue >>

\* pool.end() in the tick of the signal.
EndPool_First ==
    /\ process \in {"stopping", "closed"}
    /\ process' = "ended"
    /\ UNCHANGED << request, pool, queue >>

\* .then(() => pool.end())
EndPool ==
    /\ process = "closed"
    /\ process' = "ended"
    /\ UNCHANGED << request, pool, queue >>

\* The next release of the container.
Start ==
    /\ process = "ended"
    /\ process' = "up"
    /\ UNCHANGED << request, pool, queue >>

Serve(slot) ==
    \/ RefuseOrigin(slot) \/ ReadCookie(slot) \/ ByKey(slot) \/ Enforce(slot)
    \/ Refuse(slot) \/ Handle(slot) \/ Query(slot) \/ Begin(slot) \/ Commit(slot)
    \/ Throw(slot) \/ Rollback(slot) \/ Send(slot)

Next ==
    \/ \E slot \in Slots :
         \/ \E route \in Asked, cookie \in Cookies, origin \in BOOLEAN :
              /\ route \in StateChanging \/ origin
              /\ Arrive(slot, route, cookie, origin)
         \/ Serve(slot)
    \/ \E connection \in Connections : Connect(connection)
    \/ Outage \/ Stop \/ Close \/ EndPool \/ Start

Spec == Init /\ [][Next]_vars

\* Node runs what is ready, the database answers each statement, with rows or with an error, and a
\* connection that is free goes to the head of the line.
LiveSpec ==
    /\ Spec
    /\ \A slot \in Slots : WF_vars(Serve(slot))
    /\ \A connection \in Connections : WF_vars(Connect(connection))

-----------------------------------------------------------------------------
(* Properties.                                                             *)

\* Types; and what the pool lends comes back clean: a connection nobody holds has no
\* transaction open, a request that waits in the line holds no connection (or the pool could
\* wait on itself), one that asked for a connection waits or holds exactly one, and only a
\* unit of work has a transaction (unit-of-work.ts, catalogue.ts).
PoolSound ==
    /\ process \in {"up", "stopping", "closed", "ended"}
    /\ \A connection \in Connections :
         LET slot == pool[connection].by IN
         /\ slot = None => ~ pool[connection].open
         /\ slot # None => /\ request[slot].stage \in Waiting \cup Working
                           /\ pool[connection].open <=> request[slot].stage \in Working
    /\ \A slot \in Slots :
         Cardinality({ i \in 1 .. Len(queue) : queue[i] = slot }) + Cardinality(Holder(slot))
           = IF request[slot].stage \in Waiting \cup Working THEN 1 ELSE 0

\* What is in the line or on a connection is answered in the end, on a pool of any size: no
\* request waits for a connection that another one holds for good (catalogue.ts: the lookup is
\* no part of a unit of work).
EveryRequestAnswered == \A slot \in Slots : InFlight(slot) ~> ~ InFlight(slot)

\* The promise of Desk: one decision per request, by the table and the cookie it carried, and
\* a stop that cuts none off (access.ts, main.ts).
D == INSTANCE Desk WITH
       request <- [ slot \in Slots |->
                      IF ~ InFlight(slot)
                      THEN [ route |-> None, cookie |-> None, answer |-> None ]
                      ELSE [ route  |-> request[slot].route,
                             cookie |-> request[slot].cookie,
                             answer |-> IF At(slot, "answered") THEN request[slot].answer
                                        ELSE None ] ],
       over <- process = "ended"

ImplementsDesk == D!DeskSpec

-----------------------------------------------------------------------------
(* The inductive invariant of the proofs (HostProofs).                     *)

Stages   == {"arrived", "enforce", "handle", "answered"} \cup Waiting \cup Working
Answered == {"ok", "refused", "failed"} \cup Refusals

Served == [ stage : Stages, route : Asked, cookie : Cookies, origin : BOOLEAN,
            answer : Answered \cup {None} ]

ServerTypes ==
    /\ request \in [ Slots -> {NoRequest} \cup Served ]
    /\ pool \in [ Connections -> [ by : Slots \cup {None}, open : BOOLEAN ] ]
    /\ queue \in Seq(Slots)
    /\ process \in {"up", "stopping", "closed", "ended"}

\* A request is in the line once, or on one connection, or neither: never both.
Queued(slot) == \E i \in 1 .. Len(queue) : queue[i] = slot

LinesAgree ==
    /\ \A i, j \in 1 .. Len(queue) : queue[i] = queue[j] => i = j
    /\ \A c, d \in Connections : pool[c].by = pool[d].by /\ pool[c].by # None => c = d
    /\ \A c \in Connections, i \in 1 .. Len(queue) : queue[i] # pool[c].by
    /\ \A slot \in Slots :
         request[slot].stage \in Waiting \cup Working <=> Queued(slot) \/ Holder(slot) # {}
    /\ \A slot \in Slots : Queued(slot) => request[slot].stage \in Waiting
    /\ \A c \in Connections :
         pool[c].open <=> pool[c].by # None /\ request[pool[c].by].stage \in Working

\* A handler runs what the table admits, and an answer is on its way once it is thrown.
DecisionsHold ==
    \A slot \in Slots :
        /\ request[slot].stage \in {"handle", "query", "begin"} \cup Working =>
             Decision(request[slot].route, request[slot].cookie) = "admitted"
        /\ request[slot].stage = "failing" => request[slot].answer \in {"refused", "failed"}
        /\ request[slot].stage = "answered" => request[slot].answer \in Answered

\* The pool ends after the last answer.
StopsLast == process \in {"closed", "ended"} => \A slot \in Slots : ~ InFlight(slot)

ServerInv == ServerTypes /\ LinesAgree /\ DecisionsHold /\ StopsLast

=============================================================================
