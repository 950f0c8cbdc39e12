-------------------------------- MODULE Desk --------------------------------
(***************************************************************************)
(* What the API promises of a request, whatever the pool, the transactions *)
(* and the stops behind it: it is decided once, by the access table and    *)
(* the cookie it carried when it was sent, and a stop leaves none behind.  *)
(* Server implements it; Browser asks it.                                  *)
(***************************************************************************)
EXTENDS Access

CONSTANT Slots      \* the requests that may be in flight together

VARIABLES
    request,        \* slot -> NoRequest, or its route, its cookie and its answer so far
    over            \* the process has stopped of its own accord

deskVars == << request, over >>

NoRequest  == [ route |-> None, cookie |-> None, answer |-> None ]
Outcomes   == {"ok", "refused", "failed"}
InFlight(slot)  == request[slot] # NoRequest
Answered(slot)  == request[slot].answer # None

\* refused is a 4xx of the handler or of the origin check, failed a 5xx or no answer at all.
Answers(route, cookie) ==
    LET decision == Decision(route, cookie)
    IN  IF decision = "admitted" THEN Outcomes ELSE {decision, "refused", "failed"}

DeskInit ==
    /\ request = [ slot \in Slots |-> NoRequest ]
    /\ over = FALSE

Ask(slot, route, cookie) ==
    /\ ~ over
    /\ ~ InFlight(slot)
    /\ request' = [ request EXCEPT ![slot] =
                      [ route |-> route, cookie |-> cookie, answer |-> None ] ]
    /\ UNCHANGED over

Decide(slot, answer) ==
    /\ InFlight(slot) /\ ~ Answered(slot)
    /\ answer \in Answers(request[slot].route, request[slot].cookie)
    /\ request' = [ request EXCEPT ![slot].answer = answer ]
    /\ UNCHANGED over

Reply(slot) ==
    /\ Answered(slot)
    /\ request' = [ request EXCEPT ![slot] = NoRequest ]
    /\ UNCHANGED over

\* The process dies, or its host: what was done stays done, and no answer arrives.
Cut ==
    /\ request' = [ slot \in Slots |->
                      IF InFlight(slot) THEN [ request[slot] EXCEPT !.answer = "failed" ]
                      ELSE NoRequest ]
    /\ over' = FALSE

Finish == over' = TRUE /\ UNCHANGED request /\ \A slot \in Slots : ~ InFlight(slot)

Reopen == over /\ over' = FALSE /\ UNCHANGED request

DeskNext ==
    \/ \E slot \in Slots :
         \/ \E route \in Routes, cookie \in Cookies : Ask(slot, route, cookie)
         \/ \E answer \in Outcomes \cup Refusals : Decide(slot, answer)
         \/ Reply(slot)
    \/ Cut \/ Finish \/ Reopen

DeskSpec == DeskInit /\ [][DeskNext]_deskVars

=============================================================================
