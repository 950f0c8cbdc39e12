--------------------------- MODULE BrowserProofs ----------------------------
(***************************************************************************)
(* Theorems about Browser, for every catalogue of personas, any number of  *)
(* requests in flight, any walk through the screens, and any number of     *)
(* changes of persona in this tab, in another, or by lapse.                *)
(***************************************************************************)
EXTENDS Browser, TLAPS

(***************************************************************************)
(* What the steps have in common.                                          *)
(***************************************************************************)

Same(slot) == request'[slot] = request[slot] /\ what'[slot] = what[slot]

\* What may become of a slot in a step that neither carries out a command nor receives the
\* answer to a command or a choice that was: what is asked is asked for the cookie's persona.
Steady(slot) ==
    \/ Same(slot)
    \/ /\ ~ ChosenIn(slot)
       /\ ~ (what[slot].kind = "command" /\ request[slot].answer = "ok")
       /\ what'[slot].kind = "fetch" =>
            /\ Settled => request'[slot].cookie = cookie
            /\ what'[slot].behind = "behind" => Overtaken(what'[slot].key)

\* And of an answer: kept, marked or dropped, or replaced by one asked for the cookie's persona.
Fresh(key) ==
    \/ cache'[key] = cache[key]
    \/ cache'[key].marked
    \/ /\ Settled => cache'[key].by = cookie
       /\ cache'[key].behind = "behind" => Overtaken(key)

LEMMA SteadyKeeps ==
    ASSUME TabInv, \A slot \in Slots : Steady(slot), \A key \in Queries : Fresh(key),
           ~ Settled' \/ (cookie' = cookie /\ news' = news)
    PROVE  AllHis' /\ NoneForgotten'
<1>1. \A key : Overtaken(key) => Overtaken(key)'
  BY DEF Overtaken, LeftBehind, Steady, Same
<1>2. Settled' => Settled /\ cookie' = cookie
  BY DEF Settled, Steady, Same, ChosenIn
<1>3. AllHis'
  <2> SUFFICES ASSUME Settled'
               PROVE  /\ \A key \in Queries : ~ cache'[key].marked => cache'[key].by = cookie'
                      /\ \A slot \in Slots : what'[slot].kind = "fetch" =>
                                               request'[slot].cookie = cookie'
    BY DEF AllHis
  <2> QED
    BY <1>2 DEF TabInv, AllHis, Fresh, Steady, Same
<1>4. NoneForgotten'
  <2>1. ASSUME NEW key \in Queries, ~ cache'[key].marked, cache'[key].behind = "behind"
        PROVE  Overtaken(key)'
    BY <1>1, <2>1 DEF TabInv, NoneForgotten, Fresh
  <2>2. ASSUME NEW slot \in Slots, what'[slot].kind = "fetch", what'[slot].behind = "behind",
               NEW key, key = what'[slot].key
        PROVE  Overtaken(key)'
    <3>1. Overtaken(key)
      BY <2>2 DEF TabInv, NoneForgotten, Steady, Same
    <3> QED
      BY <1>1, <3>1
  <2>3. \A slot \in Slots : what'[slot].kind = "fetch" /\ what'[slot].behind = "behind" =>
                             Overtaken(what[slot].key)'
    BY <2>2
  <2> QED
    BY <2>1, <2>3 DEF NoneForgotten
<1> QED
  BY <1>3, <1>4

\* Nothing held for good and nothing asked: there is nothing of anybody's.
LEMMA EmptiedKeeps ==
    ASSUME \A key \in Queries : cache'[key].marked,
           \A slot \in Slots : what'[slot].kind # "fetch"
    PROVE  AllHis' /\ NoneForgotten'
  BY DEF AllHis, NoneForgotten

LEMMA Unanswered ==
    /\ None # "ok" /\ NoRequest.answer = None /\ NoRequest \in Requests
    /\ Nothing.kind = "none" /\ Nothing \in Meanings
    /\ NoData.marked /\ NoMove.to = None
<1>1. None # "ok"
  BY AnswerAssumption
<1> QED
  BY <1>1 DEF NoRequest, Requests, Cookies, Nothing, Meanings, NoData, NoMove

\* What a meaning is, by its kind.
LEMMA MeaningOf ==
    ASSUME NEW meaning \in Meanings
    PROVE  /\ meaning.kind = "fetch" => meaning \in Fetches
           /\ meaning.kind = "command" => meaning.command \in Given
           /\ meaning.kind = "choose" => meaning.persona \in Personas
  BY DEF Meanings, Fetches, Nothing

LEMMA ForgetSteady ==
    ASSUME TabTypes, NEW slots, Forget(slots),
           \A slot \in Slots \cap slots :
             ~ ChosenIn(slot) /\ ~ (what[slot].kind = "command" /\ request[slot].answer = "ok")
    PROVE  /\ request' \in [ Slots -> Requests ] /\ what' \in [ Slots -> Meanings ]
           /\ \A slot \in Slots : Steady(slot)
           /\ \A slot \in Slots : slot \notin slots => Same(slot)
           /\ \A slot \in Slots : slot \in slots => what'[slot].kind = "none"
<1>1. \A slot \in Slots : /\ slot \in slots => request'[slot] = NoRequest
                                               /\ what'[slot] = Nothing
                          /\ slot \notin slots => Same(slot)
  BY DEF Forget, Same
<1>2. request' \in [ Slots -> Requests ] /\ what' \in [ Slots -> Meanings ]
  BY Unanswered DEF Forget, TabTypes
<1>3. \A slot \in Slots : Steady(slot)
  BY <1>1, Unanswered DEF Steady, ChosenIn
<1> QED
  BY <1>1, <1>2, <1>3, Unanswered

\* A slot that is free has been asked nothing.
LEMMA AskSteady ==
    ASSUME TabTypes, NEW slot \in Slots, NEW meaning \in Meanings,
           NEW route \in Queries \cup {"economics", "choose", "clear"} \cup Given,
           Ask(slot, route, cookie), what' = [ what EXCEPT ![slot] = meaning ],
           meaning.kind = "fetch" => meaning.behind = "no"
    PROVE  /\ request' \in [ Slots -> Requests ] /\ what' \in [ Slots -> Meanings ]
           /\ \A other \in Slots : Steady(other)
<1>1. /\ request[slot] = NoRequest
      /\ request' = [ request EXCEPT ![slot] =
                        [ route |-> route, cookie |-> cookie, answer |-> None ] ]
  BY DEF Ask, InFlight
<1>2. PICK asked : asked = [ route |-> route, cookie |-> cookie, answer |-> None ]
  OBVIOUS
<1>3. asked \in Requests /\ asked.cookie = cookie /\ asked.answer = None
  BY <1>2 DEF Requests, TabTypes
<1>4. request' \in [ Slots -> Requests ] /\ what' \in [ Slots -> Meanings ]
  BY <1>1, <1>2, <1>3 DEF TabTypes
<1>5. \A other \in Slots \ {slot} : Same(other)
  BY <1>1 DEF Same, TabTypes
<1>6. request'[slot] = asked /\ what'[slot] = meaning
  BY <1>1, <1>2 DEF TabTypes
<1>7. Steady(slot)
  BY <1>1, <1>3, <1>6, Unanswered DEF Steady, ChosenIn
<1> QED
  BY <1>4, <1>5, <1>7 DEF Steady

\* An answer is dropped, or marked.
LEMMA MarkedCopies ==
    ASSUME TabTypes, NEW keys, NEW dropped,
           cache' = [ key \in Queries |->
                        IF key \in keys /\ Has(key) THEN [ cache[key] EXCEPT !.marked = TRUE ]
                        ELSE IF dropped THEN NoData ELSE cache[key] ]
    PROVE  /\ cache' \in [ Queries -> {NoData} \cup Copies ]
           /\ \A key \in Queries : cache'[key].marked \/ (cache'[key] = cache[key] /\ ~ dropped)
           /\ \A key \in Queries : key \in keys => cache'[key].marked
<1>1. ASSUME NEW key \in Queries, Has(key)
      PROVE  /\ [ cache[key] EXCEPT !.marked = TRUE ] \in Copies
             /\ [ cache[key] EXCEPT !.marked = TRUE ].marked
  <2>1. cache[key] \in Copies
    BY <1>1 DEF TabTypes, Has
  <2> QED
    BY <2>1 DEF Copies
<1>2. ASSUME NEW key \in Queries
      PROVE  /\ cache'[key] \in {NoData} \cup Copies
             /\ cache'[key].marked \/ (cache'[key] = cache[key] /\ ~ dropped)
             /\ key \in keys => cache'[key].marked
  <2>1. cache[key] \in {NoData} \cup Copies
    BY DEF TabTypes
  <2>2. CASE key \in keys /\ Has(key)
    <3>1. cache'[key] = [ cache[key] EXCEPT !.marked = TRUE ]
      BY <2>2
    <3> QED
      BY <1>1, <2>2, <3>1
  <2>3. CASE ~ (key \in keys /\ Has(key))
    <3>1. cache'[key] = IF dropped THEN NoData ELSE cache[key]
      BY <2>3
    <3>2. ~ Has(key) => cache[key] = NoData
      BY DEF Has
    <3> QED
      BY <2>1, <2>3, <3>1, <3>2, Unanswered
  <2> QED
    BY <2>2, <2>3
<1> QED
  BY <1>2

LEMMA InvalidateAllKeeps ==
    ASSUME TabTypes, NEW slots, InvalidateAll(slots), cookie' \in Cookies
    PROVE  TabInv'
<1>1. /\ cache' \in [ Queries -> {NoData} \cup Copies ]
      /\ \A key \in Queries : cache'[key].marked
  <2>1. cache' = [ key \in Queries |->
                     IF key \in Active /\ Has(key) THEN [ cache[key] EXCEPT !.marked = TRUE ]
                     ELSE IF TRUE THEN NoData ELSE cache[key] ]
    BY DEF InvalidateAll
  <2> QED
    BY <2>1, MarkedCopies
<1>2. /\ request' \in [ Slots -> Requests ] /\ what' \in [ Slots -> Meanings ]
      /\ \A slot \in Slots : what'[slot].kind # "fetch"
  <2>1. \A slot \in Slots : what'[slot] = Nothing
                            \/ (what'[slot] = what[slot] /\ what[slot].kind # "fetch")
    BY DEF InvalidateAll, Forget
  <2>2. request' \in [ Slots -> Requests ] /\ what' \in [ Slots -> Meanings ]
    BY Unanswered DEF InvalidateAll, Forget, TabTypes
  <2> QED
    BY <2>1, <2>2, Unanswered
<1> QED
  BY <1>1, <1>2, EmptiedKeeps DEF TabInv, TabTypes

LEMMA LoadKeeps ==
    ASSUME TabTypes, NEW path, NEW offered, Load(path, offered)
    PROVE  TabInv'
<1>1. /\ cache' = [ key \in Queries |-> NoData ] /\ cookie' = cookie
      /\ what' = [ slot \in Slots |-> Nothing ]
      /\ request' = [ slot \in Slots |-> NoRequest ]
  BY DEF Load
<1>2. /\ \A key \in Queries : cache'[key].marked
      /\ \A slot \in Slots : what'[slot].kind # "fetch"
  BY <1>1, Unanswered
<1> QED
  BY <1>1, <1>2, Unanswered, EmptiedKeeps DEF TabInv, TabTypes

(***************************************************************************)
(* What the API does.                                                      *)
(***************************************************************************)

LEMMA Decided ==
    ASSUME TabTypes, NEW slot \in Slots, NEW answer \in {"ok", "failed"} \cup Refusals,
           Decide(slot, answer)
    PROVE  /\ request' \in [ Slots -> Requests ]
           /\ \A other \in Slots \ {slot} : request'[other] = request[other]
           /\ request'[slot].cookie = request[slot].cookie
           /\ request'[slot].answer = answer
           /\ request[slot].answer = None
<1>1. /\ request[slot].answer = None
      /\ request' = [ request EXCEPT ![slot].answer = answer ]
      /\ request[slot] \in Requests
  BY DEF Decide, Answered, TabTypes
<1>2. PICK moved : moved = [ request[slot] EXCEPT !.answer = answer ]
  OBVIOUS
<1>3. moved = [ route |-> request[slot].route, cookie |-> request[slot].cookie,
                answer |-> answer ]
  BY <1>1, <1>2 DEF Requests
<1>4. moved \in Requests
  BY <1>1, <1>3 DEF Requests, Outcomes
<1>5. request' = [ request EXCEPT ![slot] = moved ]
  BY <1>1, <1>2
<1> QED
  BY <1>1, <1>3, <1>4, <1>5 DEF TabTypes

\* A command that was carried out leaves behind the answers there are to what it touches,
\* those held and those on their way.
LEMMA LeaveBehindKeeps ==
    ASSUME TabInv, NEW slot \in Slots, what[slot].kind = "command", Decide(slot, "ok"),
           LeaveBehind(what[slot].command), cookie' = cookie, news' = news
    PROVE  TabInv'
<1> DEFINE command == what[slot].command
           Late(key, before, after) == after = IF key \in Listed(command) THEN "behind" ELSE before
<1>1. /\ request' \in [ Slots -> Requests ]
      /\ \A other \in Slots \ {slot} : request'[other] = request[other]
      /\ request'[slot].cookie = request[slot].cookie
      /\ request'[slot].answer = "ok" /\ request[slot].answer = None
  BY Decided DEF TabInv
<1>2. ASSUME NEW key \in Queries
      PROVE  /\ cache'[key] \in {NoData} \cup Copies
             /\ ~ cache'[key].marked =>
                  /\ ~ cache[key].marked /\ cache'[key].by = cache[key].by
                  /\ Late(key, cache[key].behind, cache'[key].behind)
  <2>1. CASE Has(key)
    <3>1. cache[key] \in Copies
      BY <2>1 DEF TabInv, TabTypes, Has
    <3>2. PICK late \in Wakes : Late(key, cache[key].behind, late)
      BY <3>1 DEF Copies, Wakes
    <3>3. cache'[key] = [ cache[key] EXCEPT !.behind = late ]
      BY <2>1, <3>2 DEF LeaveBehind, Behind
    <3> HIDE DEF Late
    <3>4. cache'[key] = [ by |-> cache[key].by, marked |-> cache[key].marked, behind |-> late ]
      BY <3>1, <3>3 DEF Copies
    <3>5. cache'[key] \in Copies
      BY <3>1, <3>4 DEF Copies
    <3> QED
      BY <3>2, <3>4, <3>5
  <2>2. CASE ~ Has(key)
    <3>1. cache'[key] = NoData
      BY <2>2 DEF LeaveBehind
    <3> QED
      BY <3>1, Unanswered
  <2> QED
    BY <2>1, <2>2
<1>3. ASSUME NEW other \in Slots
      PROVE  /\ what'[other] \in Meanings /\ what'[other].kind = what[other].kind
             /\ what'[other].kind = "fetch" =>
                  /\ what'[other].key = what[other].key
                  /\ what'[other].behind = what[other].behind
                     \/ Late(what[other].key, what[other].behind, what'[other].behind)
             /\ what'[other].kind # "fetch" => what'[other] = what[other]
  <2>1. CASE what[other].kind = "fetch" /\ Answered(other)
    <3>1. what[other] \in Fetches
      BY <2>1, MeaningOf DEF TabInv, TabTypes
    <3>2. PICK late \in Wakes : Late(what[other].key, what[other].behind, late)
      BY <3>1 DEF Fetches, Wakes
    <3>3. what'[other] = [ what[other] EXCEPT !.behind = late ]
      BY <2>1, <3>2 DEF LeaveBehind, Behind
    <3> HIDE DEF Late
    <3>4. what'[other] = [ kind |-> "fetch", key |-> what[other].key, behind |-> late,
                           astray |-> what[other].astray ]
      BY <3>1, <3>3 DEF Fetches
    <3>5. what'[other] \in Fetches
      BY <3>1, <3>4 DEF Fetches
    <3> QED
      BY <2>1, <3>2, <3>4, <3>5 DEF Meanings
  <2>2. CASE ~ (what[other].kind = "fetch" /\ Answered(other))
    <3>1. what'[other] = what[other]
      BY <2>2 DEF LeaveBehind
    <3> QED
      BY <3>1 DEF TabInv, TabTypes
  <2> QED
    BY <2>1, <2>2
<1>4. TabTypes'
  <2>1. cache' \in [ Queries -> {NoData} \cup Copies ]
    <3>1. cache' = [ key \in Queries |-> cache'[key] ]
      BY DEF LeaveBehind
    <3> QED
      BY <1>2, <3>1
  <2>2. what' \in [ Slots -> Meanings ]
    <3>1. what' = [ other \in Slots |-> what'[other] ]
      BY DEF LeaveBehind
    <3> QED
      BY <1>3, <3>1
  <2> QED
    BY <1>1, <2>1, <2>2 DEF TabInv, TabTypes
<1>5. what'[slot] = what[slot] /\ command = what'[slot].command
  BY <1>3
<1> HIDE DEF command
<1>6. Settled' => Settled
  BY <1>1, <1>3, <1>5 DEF Settled, ChosenIn
<1>7. AllHis'
  <2> SUFFICES ASSUME Settled'
               PROVE  /\ \A key \in Queries : ~ cache'[key].marked => cache'[key].by = cookie'
                      /\ \A other \in Slots : what'[other].kind = "fetch" =>
                                                request'[other].cookie = cookie'
    BY DEF AllHis
  <2> QED
    BY <1>1, <1>2, <1>3, <1>6 DEF TabInv, AllHis
<1>8. \A key : key \in Listed(command) \/ Overtaken(key) => Overtaken(key)'
  <2>1. \A key : key \in Listed(command) => LeftBehind(slot, key)'
    BY <1>1, <1>5 DEF LeftBehind
  <2>2. \A key : \A other \in Slots : LeftBehind(other, key) => LeftBehind(other, key)'
    BY <1>1, <1>3, Unanswered DEF LeftBehind
  <2> QED
    BY <2>1, <2>2 DEF Overtaken
<1>9. NoneForgotten'
  <2>1. ASSUME NEW key \in Queries, ~ cache'[key].marked, cache'[key].behind = "behind"
        PROVE  Overtaken(key)'
    BY <1>2, <1>8, <2>1 DEF TabInv, NoneForgotten
  <2>2. ASSUME NEW other \in Slots, what'[other].kind = "fetch", what'[other].behind = "behind",
               NEW key, key = what'[other].key
        PROVE  Overtaken(key)'
    <3>1. Overtaken(key) \/ key \in Listed(command)
      BY <1>3, <2>2 DEF TabInv, NoneForgotten
    <3> QED
      BY <1>8, <3>1
  <2>3. \A other \in Slots : what'[other].kind = "fetch" /\ what'[other].behind = "behind" =>
                             Overtaken(what[other].key)'
    BY <2>2
  <2> QED
    BY <2>1, <2>3 DEF NoneForgotten
<1> QED
  BY <1>4, <1>7, <1>9 DEF TabInv

LEMMA ServeKeeps ==
    ASSUME TabInv, NEW slot \in Slots, NEW answer \in {"ok", "failed"} \cup Refusals,
           Serve(slot, answer)
    PROVE  TabInv'
<1>1. /\ request' \in [ Slots -> Requests ]
      /\ \A other \in Slots \ {slot} : request'[other] = request[other]
      /\ request'[slot].cookie = request[slot].cookie
      /\ request'[slot].answer = answer /\ request[slot].answer = None
  BY Decided DEF Serve, TabInv
<1>2. news' = news /\ Decide(slot, answer)
  BY DEF Serve
<1>3. CASE what[slot].kind = "command" /\ answer = "ok"
  BY <1>2, <1>3, LeaveBehindKeeps DEF Serve
<1>4. CASE ~ (what[slot].kind = "command" /\ answer = "ok")
  <2>1. what' = what /\ cache' = cache
    BY <1>4 DEF Serve
  <2>2. \/ cookie' = cookie /\ ~ (what[slot].kind = "choose" /\ answer = "ok")
        \/ cookie' = what[slot].persona /\ what[slot].kind = "choose" /\ answer = "ok"
        \/ cookie' = None
    BY <1>4 DEF Serve
  <2>3. cookie' \in Cookies
    BY <2>2, MeaningOf DEF TabInv, TabTypes, Cookies
  <2>4. ~ Settled' \/ (cookie' = cookie /\ news' = news)
    BY <1>1, <1>2, <2>1, <2>2, PersonasAssumption DEF Settled, ChosenIn
  <2>5. \A other \in Slots : Steady(other)
    <3>1. \A other \in Slots \ {slot} : Steady(other)
      BY <1>1, <2>1 DEF Steady, Same
    <3>2. Steady(slot)
      BY <1>1, <2>1, Unanswered DEF Steady, ChosenIn, TabInv, AllHis, NoneForgotten
    <3> QED
      BY <3>1, <3>2
  <2>6. \A key \in Queries : Fresh(key)
    BY <2>1 DEF Fresh
  <2>7. TabTypes'
    BY <1>1, <2>1, <2>3 DEF TabInv, TabTypes
  <2> QED
    BY <2>4, <2>5, <2>6, <2>7, SteadyKeeps DEF TabInv
<1> QED
  BY <1>3, <1>4

(***************************************************************************)
(* The answers.                                                            *)
(***************************************************************************)

LEMMA ReceiveAnswerKeeps ==
    ASSUME TabInv, NEW slot \in Slots, ReceiveAnswer(slot) \/ ReceiveRefusal(slot)
    PROVE  TabInv'
<1>1. /\ what[slot].kind = "fetch" /\ Forget({slot})
      /\ cookie' = cookie /\ news' = news
  BY DEF ReceiveAnswer, ReceiveRefusal, Received
<1>2. what[slot] \in Fetches /\ request[slot] \in Requests
  BY <1>1, MeaningOf DEF TabInv, TabTypes
<1>3. /\ request' \in [ Slots -> Requests ] /\ what' \in [ Slots -> Meanings ]
      /\ \A other \in Slots : Steady(other)
  BY <1>1, ForgetSteady DEF TabInv, ChosenIn
<1>4. CASE ReceiveAnswer(slot)
  <2>1. PICK copy : copy = [ by |-> request[slot].cookie, marked |-> what[slot].key = "marge",
                             behind |-> what[slot].behind ]
    OBVIOUS
  <2>2. cache' = [ cache EXCEPT ![what[slot].key] = copy ]
    BY <1>4, <2>1 DEF ReceiveAnswer
  <2>3. /\ copy \in Copies /\ copy.by = request[slot].cookie
        /\ copy.behind = what[slot].behind
    BY <1>2, <2>1 DEF Copies, Fetches, Requests
  <2>4. /\ Settled => copy.by = cookie
        /\ copy.behind = "behind" => Overtaken(what[slot].key)
    BY <1>1, <2>3 DEF TabInv, AllHis, NoneForgotten
  <2>5. TabTypes'
    BY <1>1, <1>2, <1>3, <2>2, <2>3 DEF TabInv, TabTypes, Fetches
  <2>6. \A key \in Queries : Fresh(key)
    BY <1>2, <2>2, <2>4 DEF Fresh, TabInv, TabTypes, Fetches
  <2> QED
    BY <1>1, <1>3, <2>5, <2>6, SteadyKeeps DEF TabInv
<1>5. CASE ReceiveRefusal(slot)
  <2>1. cache' = cache
    BY <1>5 DEF ReceiveRefusal
  <2>2. \A key \in Queries : Fresh(key)
    BY <2>1 DEF Fresh
  <2>3. TabTypes'
    BY <1>1, <1>3, <2>1 DEF TabInv, TabTypes
  <2> QED
    BY <1>1, <1>3, <2>2, <2>3, SteadyKeeps DEF TabInv
<1> QED
  BY <1>4, <1>5

\* The hooks name every projection the table lists.
LEMMA HooksCoverTable == \A command : Listed(command) \subseteq Invalidates(command)
  BY DEF Listed, Invalidates, AfterSave, AfterDecision, AfterIssue, AfterAssignment

\* onSuccess: what is named is marked, its refetch is cancelled, and its first fetch, behind
\* or not, is overtaken.
LEMMA InvalidateKeeps ==
    ASSUME TabInv, NEW slot \in Slots, what[slot].kind = "command", request[slot].answer = "ok",
           Invalidate(slot, Invalidates(what[slot].command)), cookie' = cookie, news' = news
    PROVE  TabInv'
<1> DEFINE named == Invalidates(what[slot].command)
           gone == {slot} \cup { other \in Slots : /\ what[other].kind = "fetch"
                                                   /\ what[other].key \in named
                                                   /\ Has(what[other].key) }
           Overtakes(other) == /\ what[other].kind = "fetch" /\ what[other].key \in named
                               /\ what[other].behind = "behind"
<1>1. /\ cache' \in [ Queries -> {NoData} \cup Copies ]
      /\ \A key \in Queries : cache'[key].marked \/ cache'[key] = cache[key]
      /\ \A key \in Queries : key \in named => cache'[key].marked
  <2>1. cache' = [ key \in Queries |->
                     IF key \in named /\ Has(key) THEN [ cache[key] EXCEPT !.marked = TRUE ]
                     ELSE IF FALSE THEN NoData ELSE cache[key] ]
    BY DEF Invalidate
  <2> HIDE DEF named
  <2> QED
    BY <2>1, MarkedCopies DEF TabInv
<1>2. /\ request' = [ other \in Slots |-> IF other \in gone THEN NoRequest ELSE request[other] ]
      /\ what' = [ other \in Slots |->
                     IF other \in gone THEN Nothing
                     ELSE IF Overtakes(other)
                          THEN [ what[other] EXCEPT !.behind = "overtaken" ]
                          ELSE what[other] ]
  BY DEF Invalidate
<1>3. ASSUME NEW other \in Slots, Overtakes(other)
      PROVE  [ what[other] EXCEPT !.behind = "overtaken" ]
               = [ kind |-> "fetch", key |-> what[other].key, behind |-> "overtaken",
                   astray |-> what[other].astray ]
  BY <1>3, MeaningOf DEF Fetches, TabInv, TabTypes
<1>4. ASSUME NEW other \in Slots, Overtakes(other)
      PROVE  [ what[other] EXCEPT !.behind = "overtaken" ] \in Fetches
  BY <1>3, <1>4, MeaningOf DEF Fetches, TabInv, TabTypes, Wakes
<1> HIDE DEF gone, Overtakes
<1>5. TabTypes'
  <2>1. request' \in [ Slots -> Requests ]
    BY <1>2, Unanswered DEF TabInv, TabTypes
  <2>2. what' \in [ Slots -> Meanings ]
    BY <1>2, <1>4, Unanswered DEF TabInv, TabTypes, Meanings
  <2> QED
    BY <1>1, <2>1, <2>2 DEF TabInv, TabTypes
<1>6. ASSUME NEW other \in Slots
      PROVE  \/ other \in gone /\ what'[other].kind = "none"
             \/ other \notin gone /\ request'[other] = request[other] /\ what[other].kind = "fetch"
                /\ what'[other].kind = "fetch" /\ what'[other].behind = "overtaken"
             \/ other \notin gone /\ Same(other) /\ ~ Overtakes(other)
  <2>1. CASE other \notin gone /\ Overtakes(other)
    <3>1. what'[other] = [ kind |-> "fetch", key |-> what[other].key, behind |-> "overtaken",
                           astray |-> what[other].astray ]
      BY <1>2, <1>3, <2>1
    <3> QED
      BY <1>2, <2>1, <3>1 DEF Overtakes
  <2> QED
    BY <1>2, <2>1, Unanswered DEF Same
<1>7. \A other \in Slots : other \in gone => ~ ChosenIn(other)
  BY DEF gone, ChosenIn
<1>8. Settled' => Settled
  BY <1>6, <1>7 DEF Settled, ChosenIn, Same
<1>9. AllHis'
  <2> SUFFICES ASSUME Settled'
               PROVE  /\ \A key \in Queries : ~ cache'[key].marked => cache'[key].by = cookie'
                      /\ \A other \in Slots : what'[other].kind = "fetch" =>
                                                request'[other].cookie = cookie'
    BY DEF AllHis
  <2> QED
    BY <1>1, <1>6, <1>8 DEF TabInv, AllHis, Same
<1>10. ASSUME NEW key, key \notin named, Overtaken(key)
       PROVE  Overtaken(key)'
  <2>1. PICK other \in Slots : LeftBehind(other, key)
    BY <1>10 DEF Overtaken
  <2>2. other # slot
    BY <1>10, <2>1, HooksCoverTable DEF LeftBehind
  <2>3. other \notin gone /\ what[other].kind = "command"
    BY <2>1, <2>2 DEF gone, LeftBehind
  <2>4. Same(other)
    BY <1>6, <2>3
  <2>5. LeftBehind(other, key)'
    BY <2>1, <2>4 DEF LeftBehind, Same
  <2> QED
    BY <2>5 DEF Overtaken
<1>11. NoneForgotten'
  <2>1. ASSUME NEW key \in Queries, ~ cache'[key].marked, cache'[key].behind = "behind"
        PROVE  Overtaken(key)'
    BY <1>1, <1>10, <2>1 DEF TabInv, NoneForgotten
  <2>2. ASSUME NEW other \in Slots, what'[other].kind = "fetch", what'[other].behind = "behind",
               NEW key, key = what'[other].key
        PROVE  Overtaken(key)'
    <3>1. Same(other) /\ ~ Overtakes(other)
      BY <1>6, <2>2
    <3>2. key \notin named /\ Overtaken(key)
      BY <2>2, <3>1 DEF Same, Overtakes, TabInv, NoneForgotten
    <3> QED
      BY <1>10, <3>2
  <2>3. \A other \in Slots : what'[other].kind = "fetch" /\ what'[other].behind = "behind" =>
                             Overtaken(what[other].key)'
    BY <2>2
  <2> QED
    BY <2>1, <2>3 DEF NoneForgotten
<1> QED
  BY <1>5, <1>9, <1>11 DEF TabInv

LEMMA ReceiveCommandKeeps ==
    ASSUME TabInv, NEW slot \in Slots, ReceiveCommand(slot)
    PROVE  TabInv'
<1>1. what[slot].kind = "command" /\ cookie' = cookie /\ news' = news
  BY DEF ReceiveCommand
<1>2. CASE request[slot].answer = "ok"
  <2>1. Invalidate(slot, Invalidates(what[slot].command))
    BY <1>2 DEF ReceiveCommand
  <2> QED
    BY <1>1, <1>2, <2>1, InvalidateKeeps
<1>3. CASE request[slot].answer # "ok"
  <2>1. Forget({slot}) /\ cache' = cache
    BY <1>3 DEF ReceiveCommand
  <2>2. /\ request' \in [ Slots -> Requests ] /\ what' \in [ Slots -> Meanings ]
        /\ \A other \in Slots : Steady(other)
    BY <1>3, <2>1, ForgetSteady DEF TabInv, ChosenIn
  <2>3. \A key \in Queries : Fresh(key)
    BY <2>1 DEF Fresh
  <2>4. TabTypes'
    BY <1>1, <2>1, <2>2 DEF TabInv, TabTypes
  <2> QED
    BY <1>1, <2>2, <2>3, <2>4, SteadyKeeps DEF TabInv
<1> QED
  BY <1>2, <1>3

\* The refusals that end the session, and the page's own way out of one.
LEMMA GuardKeeps ==
    ASSUME TabInv, NEW slot \in Slots, Guard(slot) \/ GuardCleared(slot)
    PROVE  TabInv'
<1>1. CASE Load("selector", {})
  BY <1>1, LoadKeeps DEF TabInv
<1>2. CASE ~ Load("selector", {})
  <2>0. /\ Guard(slot) /\ UNCHANGED << cookie, news, cache >>
        /\ what[slot].kind \in {"fetch", "command"} /\ request[slot].answer # "ok"
    BY <1>2 DEF Guard, GuardCleared
  <2>1. \A key \in Queries : Fresh(key)
    BY <2>0 DEF Fresh
  <2>2. CASE Forget({slot})
    <3>1. /\ request' \in [ Slots -> Requests ] /\ what' \in [ Slots -> Meanings ]
          /\ \A other \in Slots : Steady(other)
      BY <2>0, <2>2, ForgetSteady DEF TabInv, ChosenIn
    <3>2. TabTypes'
      BY <2>0, <3>1 DEF TabInv, TabTypes
    <3> QED
      BY <2>0, <2>1, <3>1, <3>2, SteadyKeeps DEF TabInv
  <2>3. CASE /\ request' = [ request EXCEPT ![slot] =
                               [ route |-> "clear", cookie |-> cookie, answer |-> None ] ]
             /\ what' = [ what EXCEPT ![slot] = [ kind |-> "guardClear" ] ]
    <3>1. /\ [ route |-> "clear", cookie |-> cookie, answer |-> None ] \in Requests
          /\ [ kind |-> "guardClear" ] \in Meanings
      BY DEF Requests, Meanings, TabInv, TabTypes
    <3>2. TabTypes'
      BY <2>0, <2>3, <3>1 DEF TabInv, TabTypes
    <3>3. \A other \in Slots \ {slot} : Same(other)
      BY <2>3 DEF Same, TabInv, TabTypes
    <3>4. Steady(slot)
      BY <2>0, <2>3 DEF Steady, ChosenIn, TabInv, TabTypes
    <3> QED
      BY <2>0, <2>1, <3>2, <3>3, <3>4, SteadyKeeps DEF TabInv, Steady
  <2> QED
    BY <1>2, <2>0, <2>2, <2>3 DEF Guard
<1> QED
  BY <1>1, <1>2

(***************************************************************************)
(* The page, the queries and the personas.                                 *)
(***************************************************************************)

\* What changes neither the requests nor the answers, but perhaps the screen, or the cookie
\* out of this tab's sight.
LEMMA ElsewhereKeeps ==
    ASSUME TabInv, UNCHANGED << request, cache, what >>,
           cookie' \in Cookies, ~ Settled' \/ (cookie' = cookie /\ news' = news)
    PROVE  TabInv'
<1>1. \A slot \in Slots : Steady(slot)
  BY DEF Steady, Same
<1>2. \A key \in Queries : Fresh(key)
  BY DEF Fresh
<1>3. TabTypes'
  BY DEF TabInv, TabTypes
<1> QED
  BY <1>1, <1>2, <1>3, SteadyKeeps DEF TabInv

\* A navigation ends: the fetches nobody waits for any more are cancelled.
LEMMA EnterKeeps ==
    ASSUME TabInv, Enter \/ TurnAway
    PROVE  TabInv'
<1>1. /\ UNCHANGED << cookie, news, cache >>
      /\ \E mounted : Leave(mounted)
  BY DEF Enter, TurnAway
<1>2. PICK slots : /\ Forget(slots)
                   /\ \A slot \in Slots \cap slots : what[slot].kind = "fetch"
  BY <1>1 DEF Leave
<1>3. /\ request' \in [ Slots -> Requests ] /\ what' \in [ Slots -> Meanings ]
      /\ \A slot \in Slots : Steady(slot)
  BY <1>2, ForgetSteady DEF TabInv, ChosenIn
<1>4. \A key \in Queries : Fresh(key)
  BY <1>1 DEF Fresh
<1>5. TabTypes'
  BY <1>1, <1>3 DEF TabInv, TabTypes
<1> QED
  BY <1>1, <1>3, <1>4, <1>5, SteadyKeeps DEF TabInv

LEMMA CollectKeeps ==
    ASSUME TabInv, NEW key \in Keys, Collect(key)
    PROVE  TabInv'
<1>1. /\ UNCHANGED << request, what, cookie, news >>
      /\ cache' = [ cache EXCEPT ![key] = NoData ]
  BY DEF Collect, deskVars
<1>2. \A other \in Queries : Fresh(other)
  BY <1>1, Unanswered DEF Fresh, TabInv, TabTypes
<1>3. \A slot \in Slots : Steady(slot)
  BY <1>1 DEF Steady, Same
<1>4. TabTypes'
  BY <1>1 DEF TabInv, TabTypes
<1> QED
  BY <1>1, <1>2, <1>3, <1>4, SteadyKeeps DEF TabInv

LEMMA AskKeeps ==
    ASSUME TabInv, NEW slot \in Slots, NEW meaning \in Meanings,
           NEW route \in Queries \cup {"economics", "choose", "clear"} \cup Given,
           Ask(slot, route, cookie), what' = [ what EXCEPT ![slot] = meaning ],
           meaning.kind = "fetch" => meaning.behind = "no",
           UNCHANGED << cookie, news, cache >>
    PROVE  TabInv'
<1>1. /\ request' \in [ Slots -> Requests ] /\ what' \in [ Slots -> Meanings ]
      /\ \A other \in Slots : Steady(other)
  BY AskSteady DEF TabInv
<1>2. \A key \in Queries : Fresh(key)
  BY DEF Fresh
<1>3. TabTypes'
  BY <1>1 DEF TabInv, TabTypes
<1> QED
  BY <1>1, <1>2, <1>3, SteadyKeeps DEF TabInv

LEMMA QueryKeeps ==
    ASSUME TabInv, NEW slot \in Slots, NEW key \in Queries,
           FetchQuery(slot, key) \/ EnsureQuery(slot, key)
    PROVE  TabInv'
<1>1. PICK astray \in BOOLEAN :
        Send(slot, RouteOfKey(key),
             [ kind |-> "fetch", key |-> key, behind |-> "no", astray |-> astray ])
  BY DEF FetchQuery, EnsureQuery
<1>2. PICK meaning : meaning = [ kind |-> "fetch", key |-> key, behind |-> "no",
                                 astray |-> astray ]
  OBVIOUS
<1>3. meaning \in Meanings /\ meaning.behind = "no"
  BY <1>2 DEF Meanings, Fetches, Wakes
<1>4. RouteOfKey(key) \in Queries \cup {"economics", "choose", "clear"} \cup Given
  BY DEF RouteOfKey
<1>5. /\ Ask(slot, RouteOfKey(key), cookie) /\ what' = [ what EXCEPT ![slot] = meaning ]
      /\ UNCHANGED << cookie, news, cache >>
  BY <1>1, <1>2 DEF Send
<1> QED
  BY <1>3, <1>4, <1>5, AskKeeps

LEMMA CommandKeeps ==
    ASSUME TabInv, NEW slot \in Slots,
           \/ \E command \in Given : Command(slot, command)
           \/ \E persona \in Personas : Choose(slot, persona)
           \/ Clear(slot)
    PROVE  TabInv'
<1>1. PICK meaning \in Meanings,
           route \in Queries \cup {"economics", "choose", "clear"} \cup Given :
        /\ Ask(slot, route, cookie) /\ what' = [ what EXCEPT ![slot] = meaning ]
        /\ meaning.kind # "fetch"
        /\ UNCHANGED << cookie, news, cache >>
  <2>1. ASSUME NEW command \in Given, Command(slot, command)
        PROVE  \E meaning \in Meanings : /\ Ask(slot, command, cookie)
                                         /\ what' = [ what EXCEPT ![slot] = meaning ]
                                         /\ meaning.kind # "fetch"
                                         /\ UNCHANGED << cookie, news, cache >>
    <3>1. PICK astray \in BOOLEAN :
            Send(slot, command,
                 [ kind |-> "command", command |-> command, astray |-> astray ])
      BY <2>1 DEF Command
    <3>2. PICK meaning : meaning = [ kind |-> "command", command |-> command, astray |-> astray ]
      OBVIOUS
    <3>3. meaning \in Meanings /\ meaning.kind # "fetch"
      BY <3>2 DEF Meanings
    <3> QED
      BY <3>1, <3>2, <3>3 DEF Send
  <2>2. ASSUME NEW persona \in Personas, Choose(slot, persona)
        PROVE  \E meaning \in Meanings : /\ Ask(slot, "choose", cookie)
                                         /\ what' = [ what EXCEPT ![slot] = meaning ]
                                         /\ meaning.kind # "fetch"
                                         /\ UNCHANGED << cookie, news, cache >>
    <3>1. PICK meaning : meaning = [ kind |-> "choose", persona |-> persona ]
      OBVIOUS
    <3>2. meaning \in Meanings /\ meaning.kind # "fetch"
      BY <3>1 DEF Meanings
    <3> QED
      BY <2>2, <3>1, <3>2 DEF Choose
  <2>3. ASSUME Clear(slot)
        PROVE  \E meaning \in Meanings : /\ Ask(slot, "clear", cookie)
                                         /\ what' = [ what EXCEPT ![slot] = meaning ]
                                         /\ meaning.kind # "fetch"
                                         /\ UNCHANGED << cookie, news, cache >>
    <3>1. PICK meaning : meaning = [ kind |-> "clear" ]
      OBVIOUS
    <3>2. meaning \in Meanings /\ meaning.kind # "fetch"
      BY <3>1 DEF Meanings
    <3> QED
      BY <2>3, <3>1, <3>2 DEF Clear, Send
  <2> QED
    BY <2>1, <2>2, <2>3
<1> QED
  BY <1>1, AskKeeps

\* A choice and a clear come back, or another tab's news: everything is asked again.
LEMMA ChangeKeeps ==
    ASSUME TabInv, HearNews \/ \E slot \in Slots : ReceiveChoice(slot)
    PROVE  TabInv'
<1>1. cookie' = cookie /\ cookie' \in Cookies
  BY DEF HearNews, ReceiveChoice, TabInv, TabTypes
<1>2. CASE \E slots : InvalidateAll(slots)
  BY <1>1, <1>2, InvalidateAllKeeps DEF TabInv
<1>3. CASE ~ \E slots : InvalidateAll(slots)
  <2>1. PICK slot \in Slots : /\ request[slot].answer # "ok" /\ Forget({slot})
                              /\ what[slot].kind \in {"choose", "clear"}
                              /\ cache' = cache /\ news' = news
    BY <1>3 DEF HearNews, ReceiveChoice
  <2>2. /\ request' \in [ Slots -> Requests ] /\ what' \in [ Slots -> Meanings ]
        /\ \A other \in Slots : Steady(other)
    BY <2>1, ForgetSteady DEF TabInv, ChosenIn
  <2>3. \A key \in Queries : Fresh(key)
    BY <2>1 DEF Fresh
  <2>4. TabTypes'
    BY <1>1, <2>1, <2>2 DEF TabInv, TabTypes
  <2> QED
    BY <1>1, <2>1, <2>2, <2>3, <2>4, SteadyKeeps DEF TabInv
<1> QED
  BY <1>2, <1>3

LEMMA TabInit == Init => TabInv
<1> SUFFICES ASSUME Init PROVE TabInv
  OBVIOUS
<1>1. TabTypes
  BY Unanswered DEF Init, DeskInit, TabTypes
<1>2. /\ \A key \in Queries : cache[key].marked
      /\ \A slot \in Slots : what[slot].kind # "fetch"
  BY Unanswered DEF Init
<1> QED
  BY <1>1, <1>2 DEF TabInv, AllHis, NoneForgotten

LEMMA TabStep == TabInv /\ [Next]_vars => TabInv'
<1> SUFFICES ASSUME TabInv, [Next]_vars PROVE TabInv'
  OBVIOUS
<1>0. cookie \in Cookies
  BY DEF TabInv, TabTypes
<1>1. CASE Reload
  BY <1>1, LoadKeeps DEF Reload, TabInv
<1>2. CASE GoHome \/ (\E path \in Visited : Go(path)) \/ UNCHANGED vars
  BY <1>0, <1>2, ElsewhereKeeps DEF GoHome, Go, vars, deskVars
<1>3. CASE Enter \/ TurnAway
  BY <1>3, EnterKeeps
<1>4. CASE HearNews \/ \E slot \in Slots : ReceiveChoice(slot)
  BY <1>4, ChangeKeeps
<1>5. CASE Lapse
  <2>1. UNCHANGED << request, cache, what >> /\ cookie' \in {None, Unknown}
    BY <1>5 DEF Lapse, deskVars
  <2> QED
    BY <2>1, ElsewhereKeeps, PersonasAssumption DEF Settled, Cookies
<1>6. CASE \E persona \in Personas \cup {None} : OtherTab(persona)
  <2>1. UNCHANGED << request, cache, what >> /\ cookie' \in Personas \cup {None} /\ news'
    BY <1>6 DEF OtherTab, deskVars
  <2> QED
    BY <2>1, ElsewhereKeeps DEF Settled, Cookies
<1>7. ASSUME NEW key \in Keys, Collect(key) PROVE TabInv'
  BY <1>7, CollectKeeps
<1>8. ASSUME NEW slot \in Slots,
             \/ \E key \in Keys : FetchQuery(slot, key)
             \/ \E key \in Queries : EnsureQuery(slot, key)
      PROVE  TabInv'
  BY <1>8, QueryKeeps DEF Queries
<1>9. ASSUME NEW slot \in Slots,
             \/ \E command \in Given : Command(slot, command)
             \/ \E persona \in Personas : Choose(slot, persona)
             \/ Clear(slot)
      PROVE  TabInv'
  BY <1>9, CommandKeeps
<1>10. ASSUME NEW slot \in Slots, NEW answer \in {"ok", "failed"} \cup Refusals,
              Serve(slot, answer)
       PROVE  TabInv'
  BY <1>10, ServeKeeps
<1>11. ASSUME NEW slot \in Slots,
              \/ ReceiveAnswer(slot) \/ ReceiveRefusal(slot) \/ ReceiveCommand(slot)
              \/ Guard(slot) \/ GuardCleared(slot)
       PROVE  TabInv'
  BY <1>11, ReceiveAnswerKeeps, ReceiveCommandKeeps, GuardKeeps
<1> QED
  BY <1>1, <1>2, <1>3, <1>4, <1>5, <1>6, <1>7, <1>8, <1>9, <1>10, <1>11 DEF Next

(***************************************************************************)
(* The theorems.                                                           *)
(***************************************************************************)

\* What is held and what is under way is the cookie's persona's and not behind, but for what
\* this tab is still to hear of.
THEOREM Invariant == Spec => []TabInv
<1> QED
  BY TabInit, TabStep, PTL DEF Spec

\* Once this tab has heard of the last change of persona, no answer it holds for good is
\* another persona's, however many requests the change overtook (cross-tab-sync.ts).
THEOREM NoLateAnswerStays == Spec => []NoLateAnswer
<1>1. TabInv => NoLateAnswer
  <2> SUFFICES ASSUME TabInv, cookie \in Personas, ~ news, ~ Changing
               PROVE  \A key \in Queries : ~ cache[key].marked => cache[key].by = cookie
    BY DEF NoLateAnswer
  <2>1. Settled
    BY DEF Settled, Changing, ChosenIn
  <2> QED
    BY <2>1 DEF TabInv, AllHis
<1> QED
  BY <1>1, Invariant, PTL

\* Once a command's answer is received, no listed answer it leaves behind is held for good,
\* unless its first fetch was in flight then (the features' hooks, ADR-0113).
THEOREM ProjectionsFollow == Spec => []ListedProjectionsFollow
<1>1. TabInv => ListedProjectionsFollow
  <2> SUFFICES ASSUME TabInv, NEW key \in Keys, ~ cache[key].marked,
                      cache[key].behind = "behind"
               PROVE  \E slot \in Slots :
                        what[slot].kind = "command" /\ key \in Listed(what[slot].command)
    BY DEF ListedProjectionsFollow
  <2>1. Overtaken(key)
    BY DEF TabInv, NoneForgotten, Queries
  <2> QED
    BY <2>1 DEF Overtaken, LeftBehind
<1> QED
  BY <1>1, Invariant, PTL

(***************************************************************************)
(* The access table, role by role.                                         *)
(***************************************************************************)

\* The routes of a file are routes of the whole, and carried alike.
Within(file, whole) ==
    \A route \in DOMAIN file : route \in DOMAIN whole /\ whole[route] = file[route]

LEMMA Joined ==
    ASSUME NEW f, NEW g, DOMAIN f \cap DOMAIN g = {}
    PROVE  /\ DOMAIN (f ++ g) = DOMAIN f \cup DOMAIN g
           /\ Within(f, f ++ g) /\ Within(g, f ++ g)
  BY DEF ++, Within

LEMMA WithinWhole ==
    ASSUME NEW file, NEW some, NEW whole, Within(file, some), Within(some, whole)
    PROVE  Within(file, whole)
  BY DEF Within

LEMMA Files ==
    /\ DOMAIN SessionRoutes = {"session", "personas", "choose", "clear"}
    /\ DOMAIN OpsRoutes = {"healthz", "readyz"}
    /\ DOMAIN CraRoutes = {"cras", "roster", "cra", "calendar", "grid", "managerGrid", "save",
                           "validate", "refuse"}
    /\ DOMAIN InvoiceRoutes = {"invoices", "invoice", "history", "issue"}
    /\ DOMAIN AssignmentRoutes = {"assignments", "createAssignment", "updateAssignment"}
    /\ DOMAIN DashboardRoutes = {"orgChart", "dashboard"}
    /\ DOMAIN PreFacturierRoutes = {"preFacturier"}
    /\ DOMAIN EconomicsRoutes = {"economics"}
    /\ DOMAIN WebRoutes = {"stylesheet", "craPage", "invoicePage"}
    /\ DOMAIN SpaRoutes = {"spa"}
  BY DEF SessionRoutes, OpsRoutes, CraRoutes, InvoiceRoutes, AssignmentRoutes,
         DashboardRoutes, PreFacturierRoutes, EconomicsRoutes, WebRoutes, SpaRoutes

\* No route is declared in two files.
LEMMA Declared ==
    /\ Within(SessionRoutes, Access) /\ Within(CraRoutes, Access)
    /\ Within(InvoiceRoutes, Access) /\ Within(AssignmentRoutes, Access)
    /\ Within(DashboardRoutes, Access) /\ Within(PreFacturierRoutes, Access)
    /\ Within(EconomicsRoutes, Access)
<1> DEFINE two   == SessionRoutes ++ OpsRoutes
           three == two ++ CraRoutes
           four  == three ++ InvoiceRoutes
           five  == four ++ AssignmentRoutes
           six   == five ++ DashboardRoutes
           seven == six ++ PreFacturierRoutes
           eight == seven ++ EconomicsRoutes
           nine  == eight ++ WebRoutes
<1>0. Access = nine ++ SpaRoutes
  BY DEF Access
<1> HIDE DEF two, three, four, five, six, seven, eight, nine
<1>1. /\ DOMAIN two = DOMAIN SessionRoutes \cup DOMAIN OpsRoutes
      /\ Within(SessionRoutes, two) /\ Within(OpsRoutes, two)
  <2>1. DOMAIN SessionRoutes \cap DOMAIN OpsRoutes = {}
    BY Files
  <2> QED
    BY <2>1, Joined DEF two
<1>2. /\ DOMAIN three = DOMAIN two \cup DOMAIN CraRoutes
      /\ Within(two, three) /\ Within(CraRoutes, three)
  <2>1. DOMAIN two \cap DOMAIN CraRoutes = {}
    BY Files, <1>1
  <2> QED
    BY <2>1, Joined DEF three
<1>3. /\ DOMAIN four = DOMAIN three \cup DOMAIN InvoiceRoutes
      /\ Within(three, four) /\ Within(InvoiceRoutes, four)
  <2>1. DOMAIN three \cap DOMAIN InvoiceRoutes = {}
    BY Files, <1>1, <1>2
  <2> QED
    BY <2>1, Joined DEF four
<1>4. /\ DOMAIN five = DOMAIN four \cup DOMAIN AssignmentRoutes
      /\ Within(four, five) /\ Within(AssignmentRoutes, five)
  <2>1. DOMAIN four \cap DOMAIN AssignmentRoutes = {}
    BY Files, <1>1, <1>2, <1>3
  <2> QED
    BY <2>1, Joined DEF five
<1>5. /\ DOMAIN six = DOMAIN five \cup DOMAIN DashboardRoutes
      /\ Within(five, six) /\ Within(DashboardRoutes, six)
  <2>1. DOMAIN five \cap DOMAIN DashboardRoutes = {}
    BY Files, <1>1, <1>2, <1>3, <1>4
  <2> QED
    BY <2>1, Joined DEF six
<1>6. /\ DOMAIN seven = DOMAIN six \cup DOMAIN PreFacturierRoutes
      /\ Within(six, seven) /\ Within(PreFacturierRoutes, seven)
  <2>1. DOMAIN six \cap DOMAIN PreFacturierRoutes = {}
    BY Files, <1>1, <1>2, <1>3, <1>4, <1>5
  <2> QED
    BY <2>1, Joined DEF seven
<1>7. /\ DOMAIN eight = DOMAIN seven \cup DOMAIN EconomicsRoutes
      /\ Within(seven, eight) /\ Within(EconomicsRoutes, eight)
  <2>1. DOMAIN seven \cap DOMAIN EconomicsRoutes = {}
    BY Files, <1>1, <1>2, <1>3, <1>4, <1>5, <1>6
  <2> QED
    BY <2>1, Joined DEF eight
<1>8. /\ DOMAIN nine = DOMAIN eight \cup DOMAIN WebRoutes
      /\ Within(eight, nine) /\ Within(WebRoutes, nine)
  <2>1. DOMAIN eight \cap DOMAIN WebRoutes = {}
    BY Files, <1>1, <1>2, <1>3, <1>4, <1>5, <1>6, <1>7
  <2> QED
    BY <2>1, Joined DEF nine
<1>9. Within(nine, Access)
  <2>1. DOMAIN nine \cap DOMAIN SpaRoutes = {}
    BY Files, <1>1, <1>2, <1>3, <1>4, <1>5, <1>6, <1>7, <1>8
  <2> QED
    BY <1>0, <2>1, Joined
<1>10. /\ Within(eight, Access) /\ Within(seven, Access) /\ Within(six, Access)
       /\ Within(five, Access) /\ Within(four, Access) /\ Within(three, Access)
       /\ Within(two, Access)
  BY <1>2, <1>3, <1>4, <1>5, <1>6, <1>7, <1>8, <1>9, WithinWhole
<1> QED
  BY <1>1, <1>2, <1>3, <1>4, <1>5, <1>6, <1>7, <1>8, <1>10, WithinWhole

\* The routes the tab asks, by who carries them.
LEMMA Table ==
    /\ \A route \in {"session", "choose", "clear"} : isPublic(route)
    /\ \A role \in Roles :
         /\ carries("cras", role) /\ carries("dashboard", role)
         /\ \A route \in {"roster", "managerGrid", "validate", "refuse", "economics",
                          "assignments", "createAssignment", "updateAssignment"} :
              carries(route, role) <=> role = "manager"
         /\ \A route \in {"preFacturier", "invoices", "invoice"} :
              carries(route, role) <=> role \in {"manager", "billing"}
         /\ carries("issue", role) <=> role = "billing"
         /\ \A route \in {"grid", "save"} : carries(route, role) <=> role = "consultant"
         /\ carries("orgChart", role) <=> role \in {"consultant", "manager"}
  BY Files, Declared DEF Within, isPublic, carries, Roles, PUBLIC, ManagerAndBilling,
     SessionRoutes, CraRoutes, InvoiceRoutes, AssignmentRoutes, DashboardRoutes,
     PreFacturierRoutes, EconomicsRoutes

(***************************************************************************)
(* What the screens offer, when all that is on them is for one role.       *)
(***************************************************************************)

LEMMA NavigationCarried ==
    \A role \in Roles : \A path \in navigationForRole(role) : carries(RouteOfKey(path), role)
  BY Table DEF navigationForRole, RouteOfKey, Roles

LEMMA LeadsCarried ==
    ASSUME NEW path, NEW role \in Roles, NEW shown \in {"none", role},
           NEW onward \in Leads(path, role, shown),
           shown = role => carries(RouteOfKey(path), role)
    PROVE  carries(RouteOfKey(onward), role)
<1>1. shown = role
  BY DEF Leads, DashboardLeads, WorkQueue, ConsultantCards, ManagerCards, StaffingPanel,
         CraListLeads, PreFacturierLeads, MonthNav, ManagerGridLeads, MargeLeads,
         InvoiceListLeads, Roles
<1>2. CASE path = "dashboard"
  BY <1>1, <1>2, Table DEF Leads, DashboardLeads, WorkQueue, ConsultantCards, ManagerCards,
     StaffingPanel, RouteOfKey, Roles
<1>3. CASE path \in {"cras", "preFacturier", "grid"}
  BY <1>1, <1>3, Table DEF Leads, CraListLeads, PreFacturierLeads, MonthNav, RouteOfKey, Roles
<1>4. CASE path \in {"managerGrid", "marge", "invoices"}
  BY <1>1, <1>4, Table DEF Leads, ManagerGridLeads, MargeLeads, InvoiceListLeads, RouteOfKey, Roles
<1> QED
  BY <1>2, <1>3, <1>4 DEF Leads

LEMMA ReadsCarried ==
    ASSUME NEW path, NEW role \in Roles, NEW shown, NEW key \in Reads(path, role, shown),
           key = "orgChart" => shown \in {"none", role},
           path \in Keys => carries(RouteOfKey(path), role)
    PROVE  carries(RouteOfKey(key), role)
  BY Table DEF Reads, DashboardReads, CraListReads, RouteOfKey, Roles

LEMMA CommandsCarried ==
    ASSUME NEW path, NEW role \in Roles, NEW shown \in {"none", role},
           NEW command \in Commands(path, role, shown),
           shown = role => carries(RouteOfKey(path), role)
    PROVE  carries(command, role)
  BY Table DEF Commands, GridCommands, ManagerGridCommands, PreFacturierCommands,
     InvoiceCommands, AssignmentCommands, RouteOfKey, Roles

\* The answer on the screen, when it is the shell's persona's or nobody's.
LEMMA ShownRole ==
    ASSUME RightsInv, NEW persona \in Personas, Shown \subseteq {persona}
    PROVE  /\ RoleOf[persona] \in Roles
           /\ shownRole \in {"none", RoleOf[persona]}
           /\ shownRole = RoleOf[persona] => carries(RouteOfKey(screen), RoleOf[persona])
<1>0. RoleOf[persona] \in Roles
  BY PersonasAssumption
<1>1. CASE Shown = {}
  BY <1>0, <1>1 DEF shownRole, Roles
<1>2. CASE Shown # {}
  <2>1. Shown = {persona}
    BY <1>2
  <2>2. (CHOOSE other \in Shown : TRUE) = persona
    BY <2>1
  <2>3. shownRole = RoleOf[persona]
    BY <1>2, <2>2 DEF shownRole
  <2>4. screen \in Keys /\ Has(screen) /\ cache[screen].by = persona
    BY <2>1 DEF Shown
  <2>5. carries(RouteOfKey(screen), RoleOf[persona])
    BY <2>4 DEF RightsInv, Readable
  <2> QED
    BY <1>0, <2>3, <2>5
<1> QED
  BY <1>1, <1>2

(***************************************************************************)
(* How the screens, the answers and the requests move.                     *)
(***************************************************************************)

\* An answer is dropped, or kept for whom it was, or received by one who may read it.
Rightful(key) ==
    \/ cache'[key] = NoData
    \/ Has(key) /\ cache'[key].by = cache[key].by
    \/ Readable(key, cache'[key])

\* What the tab knows of a request but whether it is behind.
Alike(slot) ==
    /\ request'[slot] = request[slot]
    /\ what'[slot].kind = what[slot].kind
    /\ what[slot].kind = "fetch" => what'[slot].key = what[slot].key
    /\ what[slot].kind \in {"fetch", "command"} => what'[slot].astray = what[slot].astray

Walk == Reaches(screen, trail) /\ Reaches(going.to, going.trail)

LEMMA RightsKept ==
    ASSUME RightsInv, Walk', \A key \in Keys : Rightful(key),
           \A slot \in Slots : Alike(slot) \/ InRight(request'[slot], what'[slot])
    PROVE  RightsInv'
<1>1. \A key \in Keys : cache'[key] # NoData => Readable(key, cache'[key])
  BY DEF RightsInv, Rightful, Readable, Has
<1>2. \A slot \in Slots : InRight(request'[slot], what'[slot])
  <2>1. ASSUME NEW slot \in Slots, Alike(slot)
        PROVE  InRight(request'[slot], what'[slot])
    <3>1. InRight(request[slot], what[slot])
      BY DEF RightsInv
    <3> QED
      BY <2>1, <3>1 DEF Alike, InRight
  <2> QED
    BY <2>1
<1> QED
  BY <1>1, <1>2 DEF RightsInv, Walk, Has

\* The ways onto a path that no link leads to.
LEMMA AtRest ==
    \A path : path \notin Keys \/ path = "dashboard" => Reaches(path, {})
  BY Table, PersonasAssumption DEF Reaches

LEMMA Elsewhere ==
    /\ Reaches(None, {}) /\ Reaches("selector", {}) /\ Reaches("error", {})
    /\ Reaches("dashboard", {})
  BY AtRest, NowhereAssumption DEF Keys

LEMMA NothingAsked == InRight(NoRequest, Nothing)
<1>1. NoRequest.answer = None /\ Nothing.kind = "none"
  BY DEF NoRequest, Nothing
<1> QED
  BY <1>1, AnswerAssumption DEF InRight, Refusals

LEMMA ForgetInRight ==
    ASSUME NEW slots, Forget(slots)
    PROVE  \A slot \in Slots : Alike(slot) \/ InRight(request'[slot], what'[slot])
<1>1. \A slot \in Slots : \/ request'[slot] = NoRequest /\ what'[slot] = Nothing
                          \/ request'[slot] = request[slot] /\ what'[slot] = what[slot]
  BY DEF Forget
<1> QED
  BY <1>1, NothingAsked DEF Alike

\* What is asked is in right when what asked it is, or knows that it is not.
LEMMA AskInRight ==
    ASSUME TabTypes, NEW slot \in Slots, NEW route, NEW meaning,
           Ask(slot, route, cookie), what' = [ what EXCEPT ![slot] = meaning ],
           meaning.kind \in {"fetch", "command"} \/ isPublic(route),
           meaning.kind \in {"fetch", "command", "choose", "clear"},
           meaning.kind = "fetch" => route = RouteOfKey(meaning.key),
           meaning.kind \in {"fetch", "command"} /\ ~ meaning.astray /\ cookie \in Personas =>
             carries(route, RoleOf[cookie])
    PROVE  \A other \in Slots : Alike(other) \/ InRight(request'[other], what'[other])
<1>1. PICK asked : asked = [ route |-> route, cookie |-> cookie, answer |-> None ]
  OBVIOUS
<1>2. request' = [ request EXCEPT ![slot] = asked ]
  BY <1>1 DEF Ask
<1>3. request'[slot] = asked /\ what'[slot] = meaning
  BY <1>2 DEF TabTypes
<1>4. \A other \in Slots \ {slot} : Alike(other)
  BY <1>2 DEF Alike, TabTypes
<1>5. asked.route = route /\ asked.cookie = cookie /\ asked.answer = None
  BY <1>1
<1>6. InRight(asked, meaning)
  BY <1>5, AnswerAssumption DEF InRight, Refusals
<1> QED
  BY <1>3, <1>4, <1>6

LEMMA LoadRights ==
    ASSUME RightsInv, NEW path, NEW offered, Load(path, offered), Reaches(path, offered)
    PROVE  RightsInv'
<1>1. Walk'
  BY Elsewhere DEF Load, Walk, NoMove
<1>2. \A slot \in Slots : InRight(request'[slot], what'[slot])
  BY NothingAsked DEF Load
<1>3. \A key \in Keys : Rightful(key)
  BY DEF Load, Rightful, Queries
<1> QED
  BY <1>1, <1>2, <1>3, RightsKept

\* A step of the page alone.
LEMMA WalkRights ==
    ASSUME RightsInv, UNCHANGED << request, what, cache >>, Walk'
    PROVE  RightsInv'
<1>1. \A key \in Keys : Rightful(key)
  BY DEF Rightful, Has
<1>2. \A slot \in Slots : Alike(slot)
  BY DEF Alike
<1> QED
  BY <1>1, <1>2, RightsKept

LEMMA InvalidateAllRights ==
    ASSUME RightsInv, TabTypes, NEW slots, InvalidateAll(slots), Walk'
    PROVE  RightsInv'
<1>1. \A key \in Keys : Rightful(key)
  <2>1. ASSUME NEW key \in Queries, Has(key)
        PROVE  [ cache[key] EXCEPT !.marked = TRUE ].by = cache[key].by
    <3>1. cache[key] \in Copies
      BY <2>1 DEF Has, TabTypes
    <3> QED
      BY <3>1 DEF Copies
  <2> QED
    BY <2>1 DEF InvalidateAll, Rightful, Queries
<1>2. \A slot \in Slots : Alike(slot) \/ InRight(request'[slot], what'[slot])
  BY ForgetInRight DEF InvalidateAll
<1> QED
  BY <1>1, <1>2, RightsKept

(***************************************************************************)
(* The steps keep everyone in right.                                       *)
(***************************************************************************)

\* The sidebar leads where the role may read, and a screen's links where its answer's may.
LEMMA GoRights ==
    ASSUME RightsInv, NEW path, Go(path)
    PROVE  RightsInv'
<1>1. shell \in Personas /\ going'.to = path
  BY DEF Go
<1>2. Shown \subseteq Personas
  BY DEF Shown
<1>3. CASE path \in navigationForRole(RoleOf[shell]) /\ going'.trail = {shell}
  <2>1. carries(RouteOfKey(path), RoleOf[shell])
    BY <1>1, <1>3, NavigationCarried, PersonasAssumption
  <2>2. Reaches(path, {shell})
    BY <1>1, <2>1 DEF Reaches
  <2> QED
    BY <1>1, <1>3, <2>2, WalkRights DEF Go, RightsInv, Walk, deskVars
<1>4. CASE path \in Leads(screen, RoleOf[shell], shownRole) /\ going'.trail = {shell} \cup Shown
  <2>1. ASSUME NEW persona \in Personas, {shell} \cup Shown = {persona}
        PROVE  carries(RouteOfKey(path), RoleOf[persona])
    <3>1. shell = persona /\ Shown \subseteq {persona}
      BY <2>1
    <3> QED
      BY <1>4, <3>1, ShownRole, LeadsCarried
  <2>2. Reaches(path, {shell} \cup Shown)
    BY <1>1, <1>2, <2>1 DEF Reaches
  <2> QED
    BY <1>1, <1>4, <2>2, WalkRights DEF Go, RightsInv, Walk, deskVars
<1> QED
  BY <1>3, <1>4 DEF Go

LEMMA EnterRights ==
    ASSUME RightsInv, Enter \/ TurnAway
    PROVE  RightsInv'
<1>1. cache' = cache /\ \E slots : Forget(slots)
  BY DEF Enter, TurnAway, Leave
<1>2. Walk'
  BY Elsewhere DEF Enter, TurnAway, Walk, RightsInv, NoMove
<1>3. \A slot \in Slots : Alike(slot) \/ InRight(request'[slot], what'[slot])
  BY <1>1, ForgetInRight
<1>4. \A key \in Keys : Rightful(key)
  BY <1>1 DEF Rightful, Has
<1> QED
  BY <1>2, <1>3, <1>4, RightsKept

LEMMA CollectRights ==
    ASSUME RightsInv, TabTypes, NEW key \in Keys, Collect(key)
    PROVE  RightsInv'
<1>1. /\ UNCHANGED << request, what, pageVars >>
      /\ cache' = [ cache EXCEPT ![key] = NoData ]
  BY DEF Collect, deskVars
<1>2. Walk'
  BY <1>1 DEF pageVars, Walk, RightsInv
<1>3. \A slot \in Slots : Alike(slot)
  BY <1>1 DEF Alike
<1>4. \A other \in Keys : Rightful(other)
  BY <1>1 DEF Rightful, Has, TabTypes, Queries
<1> QED
  BY <1>2, <1>3, <1>4, RightsKept

\* A request of the tab: the screen and the answers stay.
LEMMA AskRights ==
    ASSUME RightsInv, UNCHANGED << pageVars, cache >>,
           \A slot \in Slots : Alike(slot) \/ InRight(request'[slot], what'[slot])
    PROVE  RightsInv'
<1>1. Walk'
  BY DEF pageVars, Walk, RightsInv
<1>2. \A key \in Keys : Rightful(key)
  BY DEF Rightful, Has
<1> QED
  BY <1>1, <1>2, RightsKept

\* A screen that was drawn and reached for the cookie's persona reads what the role carries.
LEMMA FetchRights ==
    ASSUME RightsInv, TabTypes, NEW slot \in Slots, NEW key \in Keys, FetchQuery(slot, key)
    PROVE  RightsInv'
<1>1. PICK meaning : meaning = [ kind |-> "fetch", key |-> key, behind |-> "no",
                                 astray |-> Offered(key) # {cookie} ]
  OBVIOUS
<1>2. /\ Ask(slot, RouteOfKey(key), cookie) /\ what' = [ what EXCEPT ![slot] = meaning ]
      /\ UNCHANGED << pageVars, cache >>
      /\ key \in Active
  BY <1>1 DEF FetchQuery, Send
<1>3. meaning.kind = "fetch" /\ meaning.key = key /\ meaning.astray = (Offered(key) # {cookie})
  BY <1>1
<1>4. ASSUME ~ meaning.astray, cookie \in Personas
      PROVE  carries(RouteOfKey(key), RoleOf[cookie])
  <2>1. Offered(key) = {cookie}
    BY <1>3, <1>4
  <2>2. /\ shell = cookie /\ trail \subseteq {cookie}
        /\ key = "orgChart" => Shown \subseteq {cookie}
    BY <2>1 DEF Offered
  <2>3. key \in Reads(screen, RoleOf[cookie], shownRole)
    BY <1>2, <1>4, <2>2 DEF Active, Mounted
  <2>4. screen \in Keys => carries(RouteOfKey(screen), RoleOf[cookie])
    <3>1. CASE trail = {}
      BY <1>4, <3>1, Table, PersonasAssumption DEF RightsInv, Reaches, RouteOfKey
    <3>2. CASE trail = {cookie}
      BY <1>4, <3>2 DEF RightsInv, Reaches
    <3> QED
      BY <2>2, <3>1, <3>2
  <2>5. key = "orgChart" => shownRole \in {"none", RoleOf[cookie]}
    BY <1>4, <2>2, ShownRole
  <2>6. RoleOf[cookie] \in Roles
    BY <1>4, PersonasAssumption
  <2> QED
    BY <2>3, <2>4, <2>5, <2>6, ReadsCarried
<1>5. \A other \in Slots : Alike(other) \/ InRight(request'[other], what'[other])
  BY <1>2, <1>3, <1>4, AskInRight
<1> QED
  BY <1>2, <1>5, AskRights

\* The session's query is public, and every role carries the list of the Cras.
LEMMA EnsureRights ==
    ASSUME RightsInv, TabTypes, NEW slot \in Slots, NEW key \in Queries, EnsureQuery(slot, key)
    PROVE  RightsInv'
<1>1. PICK meaning : meaning = [ kind |-> "fetch", key |-> key, behind |-> "no",
                                 astray |-> FALSE ]
  OBVIOUS
<1>2. /\ Ask(slot, RouteOfKey(key), cookie) /\ what' = [ what EXCEPT ![slot] = meaning ]
      /\ UNCHANGED << pageVars, cache >>
      /\ key \in {"session", "cras"}
  BY <1>1 DEF EnsureQuery, Send, Needs, session
<1>3. meaning.kind = "fetch" /\ meaning.key = key
  BY <1>1
<1>4. cookie \in Personas => carries(RouteOfKey(key), RoleOf[cookie])
  BY <1>2, Table, PersonasAssumption DEF RouteOfKey, carries
<1>5. \A other \in Slots : Alike(other) \/ InRight(request'[other], what'[other])
  BY <1>2, <1>3, <1>4, AskInRight
<1> QED
  BY <1>2, <1>5, AskRights

LEMMA CommandRights ==
    ASSUME RightsInv, TabTypes, NEW slot \in Slots, NEW command \in Given, Command(slot, command)
    PROVE  RightsInv'
<1>1. PICK meaning : meaning = [ kind |-> "command", command |-> command,
                                 astray |-> trail \cup {shell} \cup Shown # {cookie} ]
  OBVIOUS
<1>2. /\ Ask(slot, command, cookie) /\ what' = [ what EXCEPT ![slot] = meaning ]
      /\ UNCHANGED << pageVars, cache >>
      /\ command \in Commands(screen, RoleOf[shell], shownRole)
  BY <1>1 DEF Command, Send
<1>3. meaning.kind = "command" /\ meaning.astray = (trail \cup {shell} \cup Shown # {cookie})
  BY <1>1
<1>4. ASSUME ~ meaning.astray, cookie \in Personas
      PROVE  carries(command, RoleOf[cookie])
  <2>1. shell = cookie /\ Shown \subseteq {cookie}
    BY <1>3, <1>4
  <2> QED
    BY <1>2, <1>4, <2>1, ShownRole, CommandsCarried
<1>5. \A other \in Slots : Alike(other) \/ InRight(request'[other], what'[other])
  BY <1>2, <1>3, <1>4, AskInRight
<1> QED
  BY <1>2, <1>5, AskRights

LEMMA ChooseRights ==
    ASSUME RightsInv, TabTypes, NEW slot \in Slots,
           Clear(slot) \/ \E persona \in Personas : Choose(slot, persona)
    PROVE  RightsInv'
<1>1. CASE Clear(slot)
  <2>1. /\ Ask(slot, "clear", cookie) /\ what' = [ what EXCEPT ![slot] = [ kind |-> "clear" ] ]
        /\ UNCHANGED << pageVars, cache >>
    BY <1>1 DEF Clear, Send
  <2>2. \A other \in Slots : Alike(other) \/ InRight(request'[other], what'[other])
    BY <2>1, Table, AskInRight
  <2> QED
    BY <2>1, <2>2, AskRights
<1>2. ASSUME NEW persona \in Personas, Choose(slot, persona)
      PROVE  RightsInv'
  <2>1. /\ Ask(slot, "choose", cookie)
        /\ what' = [ what EXCEPT ![slot] = [ kind |-> "choose", persona |-> persona ] ]
        /\ UNCHANGED << pageVars, cache >>
    BY <1>2 DEF Choose
  <2>2. \A other \in Slots : Alike(other) \/ InRight(request'[other], what'[other])
    BY <2>1, Table, AskInRight
  <2> QED
    BY <2>1, <2>2, AskRights
<1> QED
  BY <1>1, <1>2

\* The API answers by the access table and the cookie the request carried.
LEMMA DecideInRight ==
    ASSUME RightsInv, TabTypes, NEW slot \in Slots,
           NEW answer \in {"ok", "failed"} \cup Refusals, Decide(slot, answer),
           what'[slot] = what[slot]
    PROVE  InRight(request'[slot], what'[slot])
<1>1. /\ request'[slot].cookie = request[slot].cookie
      /\ request'[slot].route = request[slot].route
      /\ request'[slot].answer = answer
  <2>1. request[slot] \in Requests /\ request' = [ request EXCEPT ![slot].answer = answer ]
    BY DEF Decide, TabTypes
  <2> QED
    BY <2>1 DEF Requests, TabTypes
<1>2. /\ answer = "ok" => Decision(request[slot].route, request[slot].cookie) = "admitted"
      /\ answer = "insufficientRole" =>
           Decision(request[slot].route, request[slot].cookie) = "insufficientRole"
  BY DEF Decide, Answers, Decision, Outcomes
<1>3. InRight(request[slot], what[slot]) /\ what[slot].kind # "none"
  BY DEF RightsInv, InRight, Decide, InFlight
<1> QED
  BY <1>1, <1>2, <1>3 DEF InRight

LEMMA ServeRights ==
    ASSUME RightsInv, TabTypes, NEW slot \in Slots,
           NEW answer \in {"ok", "failed"} \cup Refusals, Serve(slot, answer)
    PROVE  RightsInv'
<1>1. Decide(slot, answer) /\ UNCHANGED pageVars
  BY DEF Serve
<1>2. Walk'
  BY <1>1 DEF pageVars, Walk, RightsInv
<1>3. \A other \in Slots \ {slot} : request'[other] = request[other]
  BY <1>1 DEF Decide, TabTypes
<1>4. CASE what[slot].kind = "command" /\ answer = "ok"
  <2>1. LeaveBehind(what[slot].command)
    BY <1>4 DEF Serve
  <2>2. \A key \in Keys : Rightful(key)
    <3>1. ASSUME NEW key \in Queries, Has(key), NEW late
          PROVE  [ cache[key] EXCEPT !.behind = late ].by = cache[key].by
      <4>1. cache[key] \in Copies
        BY <3>1 DEF Has, TabTypes
      <4> QED
        BY <4>1 DEF Copies
    <3> QED
      BY <2>1, <3>1 DEF LeaveBehind, Rightful, Queries
  <2>3. ASSUME NEW other \in Slots
        PROVE  /\ what'[other].kind = what[other].kind
               /\ what[other].kind = "fetch" => /\ what'[other].key = what[other].key
                                                /\ what'[other].astray = what[other].astray
               /\ what[other].kind # "fetch" => what'[other] = what[other]
    <3>1. CASE what[other].kind = "fetch" /\ Answered(other)
      <4>1. what[other] \in Fetches
        BY <3>1, MeaningOf DEF TabTypes
      <4>2. PICK late : what'[other] = [ what[other] EXCEPT !.behind = late ]
        BY <2>1, <3>1 DEF LeaveBehind
      <4> QED
        BY <3>1, <4>1, <4>2 DEF Fetches
    <3>2. CASE ~ (what[other].kind = "fetch" /\ Answered(other))
      BY <2>1, <3>2 DEF LeaveBehind
    <3> QED
      BY <3>1, <3>2
  <2>4. \A other \in Slots \ {slot} : Alike(other)
    BY <1>3, <2>3 DEF Alike
  <2>5. InRight(request'[slot], what'[slot])
    BY <1>1, <1>4, <2>3, DecideInRight
  <2> QED
    BY <1>2, <2>2, <2>4, <2>5, RightsKept
<1>5. CASE ~ (what[slot].kind = "command" /\ answer = "ok")
  <2>1. what' = what /\ cache' = cache
    BY <1>5 DEF Serve
  <2>2. InRight(request'[slot], what'[slot])
    BY <1>1, <2>1, DecideInRight
  <2>3. \A other \in Slots \ {slot} : Alike(other)
    BY <1>3, <2>1 DEF Alike
  <2>4. \A key \in Keys : Rightful(key)
    BY <2>1 DEF Rightful, Has
  <2> QED
    BY <1>2, <2>2, <2>3, <2>4, RightsKept
<1> QED
  BY <1>4, <1>5

\* An answer that was given is good for who asked; a refusal leaves what there was.
LEMMA ReceiveRights ==
    ASSUME RightsInv, TabTypes, NEW slot \in Slots, ReceiveAnswer(slot) \/ ReceiveRefusal(slot)
    PROVE  RightsInv'
<1>1. what[slot].kind = "fetch" /\ Forget({slot})
  BY DEF ReceiveAnswer, ReceiveRefusal, Received
<1>2. \A other \in Slots : Alike(other) \/ InRight(request'[other], what'[other])
  BY <1>1, ForgetInRight
<1>3. Walk'
  BY Elsewhere DEF ReceiveAnswer, ReceiveRefusal, Fail, pageVars, Walk, RightsInv, NoMove
<1>4. CASE ReceiveAnswer(slot)
  <2>0. PICK copy : copy = [ by |-> request[slot].cookie, marked |-> what[slot].key = "marge",
                             behind |-> what[slot].behind ]
    OBVIOUS
  <2>1. /\ cache' = [ cache EXCEPT ![what[slot].key] = copy ]
        /\ copy.by = request[slot].cookie
    BY <1>4, <2>0 DEF ReceiveAnswer
  <2>2. Readable(what[slot].key, copy)
    <3>1. /\ request[slot].route = RouteOfKey(what[slot].key)
          /\ Decision(request[slot].route, request[slot].cookie) = "admitted"
      BY <1>1, <1>4 DEF ReceiveAnswer, Received, RightsInv, InRight
    <3> QED
      BY <2>1, <3>1, PersonasAssumption DEF Decision, Readable, carries
  <2>3. \A key \in Keys : Rightful(key)
    BY <2>1, <2>2 DEF Rightful, Has, TabTypes, Queries
  <2> QED
    BY <1>2, <1>3, <2>3, RightsKept
<1>5. CASE ReceiveRefusal(slot)
  <2>1. \A key \in Keys : Rightful(key)
    BY <1>5 DEF ReceiveRefusal, Rightful, Has
  <2> QED
    BY <1>2, <1>3, <2>1, RightsKept
<1> QED
  BY <1>4, <1>5

LEMMA ReceiveCommandRights ==
    ASSUME RightsInv, TabTypes, NEW slot \in Slots, ReceiveCommand(slot)
    PROVE  RightsInv'
<1>1. UNCHANGED pageVars
  BY DEF ReceiveCommand
<1>2. Walk'
  BY <1>1 DEF pageVars, Walk, RightsInv
<1>3. CASE request[slot].answer = "ok"
  <2>1. PICK named : Invalidate(slot, named)
    BY <1>3 DEF ReceiveCommand
  <2>2. \A key \in Keys : Rightful(key)
    <3>1. ASSUME NEW key \in Queries, Has(key)
          PROVE  [ cache[key] EXCEPT !.marked = TRUE ].by = cache[key].by
      <4>1. cache[key] \in Copies
        BY <3>1 DEF Has, TabTypes
      <4> QED
        BY <4>1 DEF Copies
    <3>2. \A key \in Queries : \/ Has(key) /\ cache'[key] = [ cache[key] EXCEPT !.marked = TRUE ]
                               \/ cache'[key] = cache[key]
      BY <2>1 DEF Invalidate
    <3> QED
      BY <3>1, <3>2 DEF Rightful, Queries, Has
  <2>3. ASSUME NEW other \in Slots
        PROVE  Alike(other) \/ InRight(request'[other], what'[other])
    <3>1. \/ request'[other] = NoRequest /\ what'[other] = Nothing
          \/ request'[other] = request[other] /\ what'[other] = what[other]
          \/ /\ request'[other] = request[other] /\ what[other].kind = "fetch"
             /\ what'[other] = [ what[other] EXCEPT !.behind = "overtaken" ]
      BY <2>1 DEF Invalidate
    <3>2. what[other].kind = "fetch" =>
            [ what[other] EXCEPT !.behind = "overtaken" ]
              = [ kind |-> "fetch", key |-> what[other].key, behind |-> "overtaken",
                  astray |-> what[other].astray ]
      BY MeaningOf DEF TabTypes, Fetches
    <3> QED
      BY <3>1, <3>2, NothingAsked DEF Alike
  <2> QED
    BY <1>2, <2>2, <2>3, RightsKept
<1>4. CASE request[slot].answer # "ok"
  <2>1. Forget({slot}) /\ cache' = cache
    BY <1>4 DEF ReceiveCommand
  <2>2. \A key \in Keys : Rightful(key)
    BY <2>1 DEF Rightful, Has
  <2> QED
    BY <1>2, <2>1, <2>2, ForgetInRight, RightsKept
<1> QED
  BY <1>3, <1>4

LEMMA GuardRights ==
    ASSUME RightsInv, TabTypes, NEW slot \in Slots, Guard(slot) \/ GuardCleared(slot)
    PROVE  RightsInv'
<1>1. CASE Load("selector", {})
  BY <1>1, Elsewhere, LoadRights
<1>2. CASE ~ Load("selector", {})
  <2>1. Guard(slot) /\ UNCHANGED << screen, trail, going, cache >>
    BY <1>2 DEF Guard, GuardCleared, pageVars
  <2>2. Walk'
    BY <2>1 DEF Walk, RightsInv
  <2>3. \A key \in Keys : Rightful(key)
    BY <2>1 DEF Rightful, Has
  <2>4. CASE Forget({slot})
    BY <2>2, <2>3, <2>4, ForgetInRight, RightsKept
  <2>5. CASE /\ request' = [ request EXCEPT ![slot] =
                               [ route |-> "clear", cookie |-> cookie, answer |-> None ] ]
             /\ what' = [ what EXCEPT ![slot] = [ kind |-> "guardClear" ] ]
    <3>1. \A other \in Slots \ {slot} : Alike(other)
      BY <2>5 DEF Alike, TabTypes
    <3>2. PICK asked : asked = [ route |-> "clear", cookie |-> cookie, answer |-> None ]
      OBVIOUS
    <3>3. request'[slot] = asked /\ what'[slot] = [ kind |-> "guardClear" ]
      BY <2>5, <3>2 DEF TabTypes
    <3>4. InRight(asked, [ kind |-> "guardClear" ])
      <4>1. asked.route = "clear" /\ asked.answer = None
        BY <3>2
      <4> QED
        BY <4>1, Table, AnswerAssumption DEF InRight, Refusals
    <3> QED
      BY <2>2, <2>3, <3>1, <3>3, <3>4, RightsKept
  <2> QED
    BY <1>2, <2>1, <2>4, <2>5 DEF Guard
<1> QED
  BY <1>1, <1>2

LEMMA ChangeRights ==
    ASSUME RightsInv, TabTypes, HearNews \/ \E slot \in Slots : ReceiveChoice(slot)
    PROVE  RightsInv'
<1>1. Walk'
  <2>1. CASE UNCHANGED pageVars
    BY <2>1 DEF pageVars, Walk, RightsInv
  <2>2. CASE ~ UNCHANGED pageVars
    <3>1. /\ screen' \in {"error", "selector"} /\ trail' = {}
          /\ going' = NoMove \/ going' = [ NoMove EXCEPT !.to = "dashboard" ]
      BY <2>2 DEF HearNews, ReceiveChoice, Fail
    <3>2. going'.to \in {None, "dashboard"} /\ going'.trail = {}
      BY <3>1 DEF NoMove
    <3> QED
      BY <3>1, <3>2, Elsewhere DEF Walk
  <2> QED
    BY <2>1, <2>2
<1>2. CASE \E slots : InvalidateAll(slots)
  BY <1>1, <1>2, InvalidateAllRights
<1>3. CASE ~ \E slots : InvalidateAll(slots)
  <2>1. cache' = cache /\ \E slot \in Slots : Forget({slot})
    BY <1>3 DEF HearNews, ReceiveChoice
  <2>2. \A key \in Keys : Rightful(key)
    BY <2>1 DEF Rightful, Has
  <2> QED
    BY <1>1, <2>1, <2>2, ForgetInRight, RightsKept
<1> QED
  BY <1>2, <1>3

LEMMA RightsInit == Init => RightsInv
<1> SUFFICES ASSUME Init PROVE RightsInv
  OBVIOUS
<1>1. Reaches(screen, trail) /\ Reaches(going.to, going.trail)
  BY Elsewhere DEF Init, NoMove
<1>2. \A slot \in Slots : InRight(request[slot], what[slot])
  BY NothingAsked DEF Init, DeskInit
<1> QED
  BY <1>1, <1>2 DEF Init, RightsInv, Has, Queries

LEMMA RightsStep == TabTypes /\ RightsInv /\ [Next]_vars => RightsInv'
<1> SUFFICES ASSUME TabTypes, RightsInv, [Next]_vars PROVE RightsInv'
  OBVIOUS
<1>1. CASE Reload
  BY <1>1, LoadRights DEF Reload, RightsInv
<1>2. CASE \/ GoHome \/ Lapse \/ UNCHANGED vars
           \/ \E persona \in Personas \cup {None} : OtherTab(persona)
  <2>1. UNCHANGED << request, what, cache >>
    BY <1>2 DEF GoHome, Lapse, OtherTab, vars, deskVars
  <2>2. Walk'
    BY <1>2, Elsewhere DEF GoHome, Lapse, OtherTab, vars, pageVars, Walk, RightsInv, NoMove
  <2> QED
    BY <2>1, <2>2, WalkRights
<1>3. CASE \E path \in Visited : Go(path)
  BY <1>3, GoRights
<1>4. CASE Enter \/ TurnAway
  BY <1>4, EnterRights
<1>5. CASE HearNews \/ \E slot \in Slots : ReceiveChoice(slot)
  BY <1>5, ChangeRights
<1>6. ASSUME NEW key \in Keys, Collect(key) PROVE RightsInv'
  BY <1>6, CollectRights
<1>7. ASSUME NEW slot \in Slots,
             \/ \E key \in Keys : FetchQuery(slot, key)
             \/ \E key \in Queries : EnsureQuery(slot, key)
             \/ \E command \in Given : Command(slot, command)
             \/ \E persona \in Personas : Choose(slot, persona)
             \/ Clear(slot)
      PROVE  RightsInv'
  BY <1>7, FetchRights, EnsureRights, CommandRights, ChooseRights
<1>8. ASSUME NEW slot \in Slots, NEW answer \in {"ok", "failed"} \cup Refusals,
             Serve(slot, answer)
      PROVE  RightsInv'
  BY <1>8, ServeRights
<1>9. ASSUME NEW slot \in Slots,
             \/ ReceiveAnswer(slot) \/ ReceiveRefusal(slot) \/ ReceiveCommand(slot)
             \/ Guard(slot) \/ GuardCleared(slot)
      PROVE  RightsInv'
  BY <1>9, ReceiveRights, ReceiveCommandRights, GuardRights
<1> QED
  BY <1>1, <1>2, <1>3, <1>4, <1>5, <1>6, <1>7, <1>8, <1>9 DEF Next

\* A request is refused for its role only when the screen that sent it was drawn, or reached,
\* for another persona than the cookie's: what every screen offers a role, in any answer the
\* role may be shown, is what the routes' forRoles carry (navigation.ts, access.ts).
THEOREM DeniedOnlyAcross == Spec => []DeniedOnlyAcrossPersonas
<1>1. RightsInv => DeniedOnlyAcrossPersonas
  <2> SUFFICES ASSUME RightsInv, NEW slot \in Slots,
                      request[slot].answer = "insufficientRole"
               PROVE  what[slot].astray
    BY DEF DeniedOnlyAcrossPersonas
  <2>1. InRight(request[slot], what[slot])
    BY DEF RightsInv
  <2>2. Decision(request[slot].route, request[slot].cookie) = "insufficientRole"
    BY <2>1 DEF InRight
  <2>3. /\ ~ isPublic(request[slot].route) /\ request[slot].cookie \in Personas
        /\ ~ carries(request[slot].route, RoleOf[request[slot].cookie])
    BY <2>2, PersonasAssumption DEF Decision
  <2>4. what[slot].kind \in {"fetch", "command"}
    <3>1. request[slot] # NoRequest
      BY AnswerAssumption DEF NoRequest, Refusals
    <3> QED
      BY <2>1, <2>3, <3>1 DEF InRight
  <2> QED
    BY <2>1, <2>3, <2>4 DEF InRight
<1>2. TabInv => TabTypes
  BY DEF TabInv
<1> QED
  BY <1>1, <1>2, Invariant, RightsInit, RightsStep, PTL DEF Spec

=============================================================================
