------------------------------- MODULE Browser -------------------------------
(***************************************************************************)
(* One tab of the application: the navigation and its guard (routes/       *)
(* _shell.tsx), the query cache (lib/query-client.ts), the choice of a     *)
(* persona here or in another tab (features/session), the commands and     *)
(* what they invalidate (the features' hooks), against an API that answers *)
(* as Desk promises.  Which screen asks, leads and offers what is Screens. *)
(***************************************************************************)
EXTENDS Desk, Screens, Naturals, FiniteSets

CONSTANTS
    Visited,      \* the paths of this instance
    Given,        \* the commands of this instance
    MaxKept,      \* bound: cached answers that no screen shows
    MaxChanges    \* bound: changes of the cookie, but for the clears of this tab

ASSUME NowhereAssumption == None \notin Keys     \* no screen is none of the screens

VARIABLES
    cookie,     \* the persona's, shared by the tabs
    news,       \* another tab's broadcast that this one has not heard
    changes,    \* those that count so far
    screen,     \* the path on the screen, None while there is nothing on it
    shell,      \* the persona the shell is drawn for: the route's context
    trail,      \* the personas the links to this screen were drawn for
    going,      \* NoMove, or the navigation that waits, and its trail
    cache,      \* query -> NoData, or whose the answer is, whether it is marked, and behind
    what,       \* slot -> what the tab makes of the answer
    handled     \* session-guard.ts: this page is being left

session == "session"
Queries == Keys \cup {session}
NoData  == [ marked |-> TRUE ]
NoMove  == [ to |-> None, trail |-> {} ]
Nothing == [ kind |-> "none" ]

pageVars == << screen, shell, trail, going, handled >>
vars == << deskVars, cookie, news, changes, pageVars, cache, what >>

Has(key) == cache[key] # NoData

\* The query whose answer the screen shows, and the role it was answered to.
Shown ==
    IF screen \in Keys /\ Has(screen) /\ cache[screen].by \in Personas
    THEN {cache[screen].by} ELSE {}
shownRole == IF Shown = {} THEN "none" ELSE RoleOf[CHOOSE persona \in Shown : TRUE]

Mounted(path, persona, shown) ==
    IF persona \notin Personas THEN {} ELSE Reads(path, RoleOf[persona], shown)
Active == Mounted(screen, shell, shownRole)

Fetching(key) == \E slot \in Slots : what[slot].kind = "fetch" /\ what[slot].key = key
Free(slot)    == ~ InFlight(slot)
Changing      == \E slot \in Slots : what[slot].kind \in {"choose", "clear"}
Commanding    == \E slot \in Slots : what[slot].kind = "command"

Init ==
    /\ DeskInit
    /\ cookie \in Cookies \ {Forged}
    /\ news = FALSE /\ changes = 0
    /\ screen = None /\ shell = None /\ trail = {}
    /\ going = [ NoMove EXCEPT !.to = "dashboard" ]
    /\ cache = [ key \in Queries |-> NoData ]
    /\ what = [ slot \in Slots |-> Nothing ]
    /\ handled = FALSE

-----------------------------------------------------------------------------
(* The page.                                                               *)

\* A document load: nothing of the page is left, its requests included.
Load(path, offered) ==
    /\ request' = [ slot \in Slots |-> NoRequest ]
    /\ what' = [ slot \in Slots |-> Nothing ]
    /\ cache' = [ key \in Queries |-> NoData ]
    /\ shell' = None /\ handled' = FALSE
    /\ IF path = "selector"
       THEN screen' = path /\ trail' = {} /\ going' = NoMove
       ELSE screen' = None /\ trail' = {} /\ going' = [ to |-> path, trail |-> offered ]
    /\ UNCHANGED << over, cookie, news, changes >>

Reload ==
    /\ screen \in Paths \ {"error"} /\ ~ Changing
    /\ Load(screen, trail)

\* The sidebar's entries and the screen's own links.
Go(path) ==
    /\ shell \in Personas
    /\ path \in Visited
    /\ \/ /\ path \in navigationForRole(RoleOf[shell])
          /\ going' = [ to |-> path, trail |-> {shell} ]
       \/ /\ path \in Leads(screen, RoleOf[shell], shownRole)
          /\ going' = [ to |-> path, trail |-> {shell} \cup Shown ]
    /\ UNCHANGED << deskVars, cookie, news, changes, screen, shell, trail, handled, cache, what >>

\* The error boundary's way out.
GoHome ==
    /\ screen = "error"
    /\ screen' = "selector" /\ trail' = {} /\ going' = NoMove
    /\ UNCHANGED << deskVars, cookie, news, changes, shell, handled, cache, what >>

Forget(slots) ==
    /\ request' = [ slot \in Slots |-> IF slot \in slots THEN NoRequest ELSE request[slot] ]
    /\ what' = [ slot \in Slots |-> IF slot \in slots THEN Nothing ELSE what[slot] ]

\* Every queryFn takes the signal: a query that loses its last observer is cancelled.
Leave(mounted) ==
    Forget({ slot \in Slots : /\ what[slot].kind = "fetch"
                              /\ what[slot].key \in Active \ mounted })

Kept(mounted) == { key \in Keys \ mounted : Has(key) }

\* The period of the pre-facturier is read off the list of the Cras.
Needs(path) == {session} \cup { key \in {"cras"} : path = "preFacturier" }

\* beforeLoad of the shell: ensureQueryData takes the answer it has, marked or not.
Enter ==
    /\ going # NoMove /\ Has(session) /\ cache[session].by \in Personas
    /\ \A key \in Needs(going.to) : Has(key)
    /\ LET persona == cache[session].by
           shown   == IF going.to \in Keys /\ Has(going.to) THEN RoleOf[cache[going.to].by]
                      ELSE "none"
           mounted == Mounted(going.to, persona, shown)
       IN  /\ Cardinality(Kept(mounted)) <= MaxKept
           /\ Leave(mounted)
           /\ shell' = persona
    /\ screen' = going.to /\ trail' = going.trail /\ going' = NoMove
    /\ UNCHANGED << over, cookie, news, changes, handled, cache >>

\* redirect({ to: '/' })
TurnAway ==
    /\ going # NoMove /\ Has(session) /\ cache[session].by \notin Personas
    /\ Leave({})
    /\ screen' = "selector" /\ shell' = None /\ trail' = {} /\ going' = NoMove
    /\ UNCHANGED << over, cookie, news, changes, handled, cache >>

\* gcTime of an answer nobody shows.
Collect(key) ==
    /\ Has(key) /\ key \notin Active /\ ~ Fetching(key)
    /\ cache' = [ cache EXCEPT ![key] = NoData ]
    /\ UNCHANGED << deskVars, cookie, news, changes, pageVars, what >>

-----------------------------------------------------------------------------
(* The queries.                                                            *)

\* astray: what offered the request was drawn for another persona than the cookie's.
Send(slot, route, meaning) ==
    /\ Ask(slot, route, cookie)
    /\ what' = [ what EXCEPT ![slot] = meaning ]
    /\ UNCHANGED << cookie, news, changes, pageVars, cache >>

Offered(key) ==
    trail \cup {shell} \cup { persona \in Shown : key \in {"orgChart"} }

\* On mount, on focus, or because the answer was marked.
FetchQuery(slot, key) ==
    /\ key \in Active /\ ~ Fetching(key)
    /\ Send(slot, RouteOfKey(key),
            [ kind |-> "fetch", key |-> key, behind |-> "no",
              astray |-> Offered(key) # {cookie} ])

EnsureQuery(slot, key) ==
    /\ going # NoMove
    /\ key \in Needs(going.to) /\ ~ Has(key) /\ ~ Fetching(key)
    /\ key # session => Has(session) /\ cache[session].by \in Personas
    /\ Send(slot, RouteOfKey(key),
            [ kind |-> "fetch", key |-> key, behind |-> "no", astray |-> FALSE ])

\* The navigation that waits on a query fails with it.
Waits(key) == going # NoMove /\ key \in Needs(going.to) /\ ~ Has(key)

Fail ==
    /\ screen' = "error" /\ shell' = None /\ trail' = {} /\ going' = NoMove
    /\ UNCHANGED handled

-----------------------------------------------------------------------------
(* What the API does with a request.                                       *)

\* ghost: the answers a committed command leaves behind, read already or about to be received.
Behind(command, key, before) == IF key \in Listed(command) THEN "behind" ELSE before

LeaveBehind(command) ==
    /\ cache' = [ key \in Queries |->
                    IF Has(key)
                    THEN [ cache[key] EXCEPT !.behind = Behind(command, key, @) ]
                    ELSE NoData ]
    /\ what' = [ slot \in Slots |->
                   IF what[slot].kind = "fetch" /\ Answered(slot)
                   THEN [ what[slot] EXCEPT !.behind = Behind(command, what[slot].key, @) ]
                   ELSE what[slot] ]

\* A choice and a clear set the cookie with their answer.  A refusal of the handler is to the
\* tab what a failure is.
Serve(slot, answer) ==
    /\ Decide(slot, answer)
    /\ CASE what[slot].kind = "command" /\ answer = "ok" ->
              LeaveBehind(what[slot].command) /\ UNCHANGED cookie
         [] what[slot].kind = "choose" /\ answer = "ok" ->
              cookie' = what[slot].persona /\ UNCHANGED << cache, what >>
         [] what[slot].kind \in {"clear", "guardClear"} /\ answer = "ok" ->
              cookie' = None /\ UNCHANGED << cache, what >>
         [] OTHER -> UNCHANGED << cookie, cache, what >>
    /\ UNCHANGED << news, changes, pageVars >>

-----------------------------------------------------------------------------
(* The answers.                                                            *)

Received(slot, kind, answers) ==
    /\ what[slot].kind = kind
    /\ request[slot].answer \in answers

\* invalidateOnPersonaChange without cancelQueries: a first fetch goes on, and only the fetch
\* of an answer that is held and shown is cancelled and asked again.
InvalidateAll_NotCancelled(slots) ==
    /\ cache' = [ key \in Queries |->
                    IF Has(key) /\ key \in Active THEN [ cache[key] EXCEPT !.marked = TRUE ]
                    ELSE NoData ]
    /\ Forget(slots \cup { slot \in Slots : /\ what[slot].kind = "fetch"
                                            /\ Has(what[slot].key) })

\* invalidateOnPersonaChange: everything in flight is cancelled, what is shown is marked, what
\* is not is removed.
InvalidateAll(slots) ==
    /\ cache' = [ key \in Queries |->
                    IF Has(key) /\ key \in Active THEN [ cache[key] EXCEPT !.marked = TRUE ]
                    ELSE NoData ]
    /\ Forget(slots \cup { slot \in Slots : what[slot].kind = "fetch" })

\* A command's onSuccess: what it names is marked; the fetch of an answer that is held is
\* cancelled, to be asked again, and a first fetch goes on and clears the mark.
Invalidate(slot, named) ==
    /\ cache' = [ key \in Queries |->
                    IF Has(key) /\ key \in named THEN [ cache[key] EXCEPT !.marked = TRUE ]
                    ELSE cache[key] ]
    /\ LET gone == {slot} \cup { other \in Slots : /\ what[other].kind = "fetch"
                                                   /\ what[other].key \in named
                                                   /\ Has(what[other].key) }
       IN  /\ request' = [ other \in Slots |->
                             IF other \in gone THEN NoRequest ELSE request[other] ]
           /\ what' = [ other \in Slots |->
                          CASE other \in gone -> Nothing
                            [] other \notin gone /\ what[other].kind = "fetch"
                               /\ what[other].key \in named /\ what[other].behind = "behind"
                                 -> [ what[other] EXCEPT !.behind = "overtaken" ]
                            [] OTHER -> what[other] ]

\* staleTime is 0 for marge: an answer is as good as marked when it comes.
ReceiveAnswer(slot) ==
    /\ Received(slot, "fetch", {"ok"})
    /\ cache' = [ cache EXCEPT ![what[slot].key] =
                    [ by |-> request[slot].cookie, marked |-> what[slot].key = "marge",
                      behind |-> what[slot].behind ] ]
    /\ Forget({slot})
    /\ UNCHANGED << over, cookie, news, changes, pageVars >>

\* A refusal or a failure leaves the answer there was; it may be asked again.
ReceiveRefusal(slot) ==
    /\ Received(slot, "fetch", {"insufficientRole", "failed"})
    /\ Forget({slot})
    /\ IF Waits(what[slot].key) THEN Fail ELSE UNCHANGED pageVars
    /\ UNCHANGED << over, cookie, news, changes, cache >>

ReceiveCommand(slot) ==
    /\ what[slot].kind = "command"
    /\ \/ /\ request[slot].answer = "ok"
          /\ Invalidate(slot, Invalidates(what[slot].command))
       \/ /\ request[slot].answer \in {"insufficientRole", "failed"}
          /\ Forget({slot}) /\ UNCHANGED cache
    /\ UNCHANGED << over, cookie, news, changes, pageVars >>

\* session-guard.ts, whatever query or command was refused; it acts once on a page.
Guard(slot) ==
    /\ what[slot].kind \in {"fetch", "command"}
    /\ \/ /\ request[slot].answer = "noPersona" /\ ~ handled
          /\ Load("selector", {})
       \/ /\ request[slot].answer = "unknownPersona" /\ ~ handled
          /\ handled' = TRUE
          /\ request' = [ request EXCEPT ![slot] =
                            [ route |-> "clear", cookie |-> cookie, answer |-> None ] ]
          /\ what' = [ what EXCEPT ![slot] = [ kind |-> "guardClear" ] ]
          /\ UNCHANGED << over, cookie, news, changes, screen, shell, trail, going, cache >>
       \/ /\ request[slot].answer \in {"noPersona", "unknownPersona"} /\ handled
          /\ Forget({slot})
          /\ UNCHANGED << over, cookie, news, changes, pageVars, cache >>

GuardCleared(slot) ==
    /\ what[slot].kind = "guardClear" /\ Answered(slot)
    /\ Load("selector", {})

-----------------------------------------------------------------------------
(* The personas.                                                           *)

Choose(slot, persona) ==
    /\ screen = "selector" /\ ~ Changing /\ changes < MaxChanges
    /\ Ask(slot, "choose", cookie)
    /\ what' = [ what EXCEPT ![slot] = [ kind |-> "choose", persona |-> persona ] ]
    /\ changes' = changes + 1
    /\ UNCHANGED << cookie, news, pageVars, cache >>

Clear(slot) ==
    /\ shell \in Personas /\ ~ Changing
    /\ Send(slot, "clear", [ kind |-> "clear" ])

\* onSuccess, then the navigation of the page that asked, or its toast.
ReceiveChoice(slot) ==
    /\ what[slot].kind \in {"choose", "clear"} /\ Answered(slot)
    /\ IF request[slot].answer = "ok"
       THEN /\ InvalidateAll({slot})
            /\ shell' = None /\ screen' = "selector" /\ trail' = {}
            /\ going' = IF what[slot].kind = "choose" THEN [ NoMove EXCEPT !.to = "dashboard" ]
                        ELSE NoMove
            /\ UNCHANGED handled
       ELSE Forget({slot}) /\ UNCHANGED << cache, pageVars >>
    /\ UNCHANGED << over, cookie, news, changes >>

\* Another tab chooses, or clears, and broadcasts it.
OtherTab(persona) ==
    /\ ~ news /\ changes < MaxChanges
    /\ cookie' = persona /\ news' = TRUE
    /\ changes' = changes + 1
    /\ UNCHANGED << deskVars, pageVars, cache, what >>

\* The storage event.  A navigation that waits on a query that is cancelled fails with it.
HearNews ==
    /\ news
    /\ news' = FALSE
    /\ InvalidateAll({})
    /\ IF \E key \in Queries : Waits(key) /\ Fetching(key) THEN Fail ELSE UNCHANGED pageVars
    /\ UNCHANGED << over, cookie, changes >>

\* Max-Age passes, or the catalogue the cookie's key was of is replaced.
Lapse ==
    /\ cookie \in Personas /\ changes < MaxChanges
    /\ cookie' \in {None, Unknown}
    /\ changes' = changes + 1
    /\ UNCHANGED << deskVars, news, pageVars, cache, what >>

Command(slot, command) ==
    /\ shell \in Personas /\ ~ Commanding
    /\ command \in Commands(screen, RoleOf[shell], shownRole)
    /\ Send(slot, command,
            [ kind |-> "command", command |-> command,
              astray |-> trail \cup {shell} \cup Shown # {cookie} ])

-----------------------------------------------------------------------------

Next ==
    \/ Reload \/ GoHome \/ Enter \/ TurnAway \/ HearNews \/ Lapse
    \/ \E path \in Visited : Go(path)
    \/ \E key \in Keys : Collect(key)
    \/ \E slot \in Slots :
         \/ \E key \in Keys : FetchQuery(slot, key)
         \/ \E key \in Queries : EnsureQuery(slot, key)
         \/ \E command \in Given : Command(slot, command)
         \/ \E persona \in Personas : Choose(slot, persona)
         \/ Clear(slot)
         \/ \E answer \in {"ok", "failed"} \cup Refusals : Serve(slot, answer)
         \/ ReceiveAnswer(slot) \/ ReceiveRefusal(slot) \/ ReceiveCommand(slot)
         \/ ReceiveChoice(slot) \/ Guard(slot) \/ GuardCleared(slot)
    \/ \E persona \in Personas \cup {None} : OtherTab(persona)

Spec == Init /\ [][Next]_vars

-----------------------------------------------------------------------------
(* Properties.                                                             *)

\* Once this tab has heard of the last change, no answer it holds for good is another persona's:
\* not one asked for before the change and received after it, the session's included
\* (cross-tab-sync.ts: cancelQueries before invalidateQueries).
NoLateAnswer ==
    cookie \in Personas /\ ~ news /\ ~ Changing =>
        \A key \in Queries : Has(key) /\ ~ cache[key].marked => cache[key].by = cookie

\* What a screen offers its persona, the API carries: a request is refused for its role only
\* when the screen that sent it was drawn, or reached, for another persona than the cookie's
\* (navigation.ts and the screens against the routes' forRoles).
DeniedOnlyAcrossPersonas ==
    \A slot \in Slots : request[slot].answer = "insufficientRole" => what[slot].astray

\* Once a command's answer is received, no answer it leaves behind is held for good, of those
\* the table of ADR-0113 lists, unless its first fetch was in flight then (the features' hooks).
ListedProjectionsFollow ==
    \A key \in Keys :
        Has(key) /\ ~ cache[key].marked /\ cache[key].behind = "behind" =>
            \E slot \in Slots :
                what[slot].kind = "command" /\ key \in Listed(what[slot].command)

\* Not so: the shell may be drawn for a persona that another tab has replaced.
ShellFollowsCookie ==
    cookie \in Personas /\ ~ news /\ ~ Changing /\ going = NoMove /\ shell \in Personas =>
        shell = cookie

-----------------------------------------------------------------------------
(* The inductive invariant of NoLateAnswer and ListedProjectionsFollow.    *)

Wakes    == {"no", "behind", "overtaken"}
Copies   == [ by : Cookies, marked : BOOLEAN, behind : Wakes ]
Fetches  == [ kind : {"fetch"}, key : Queries, behind : Wakes, astray : BOOLEAN ]
Meanings ==
    {Nothing} \cup Fetches
    \cup [ kind : {"command"}, command : Given, astray : BOOLEAN ]
    \cup [ kind : {"choose"}, persona : Personas ]
    \cup [ kind : {"clear", "guardClear"} ]
Requests ==
    [ route  : Queries \cup {"economics", "choose", "clear", None} \cup Given,
      cookie : Cookies,
      answer : Outcomes \cup Refusals \cup {None} ]

TabTypes ==
    /\ cookie \in Cookies
    /\ cache \in [ Queries -> {NoData} \cup Copies ]
    /\ what \in [ Slots -> Meanings ]
    /\ request \in [ Slots -> Requests ]

\* No change of persona is still to be heard of: not another tab's, nor a choice of this one
\* that the API has carried out.
ChosenIn(slot) == what[slot].kind = "choose" /\ request[slot].answer = "ok"
Settled == cookie \in Personas /\ ~ news /\ \A slot \in Slots : ~ ChosenIn(slot)

\* Then the cookie's is every answer held for good, and every answer still to come.
AllHis ==
    Settled =>
        /\ \A key \in Queries : ~ cache[key].marked => cache[key].by = cookie
        /\ \A slot \in Slots : what[slot].kind = "fetch" => request[slot].cookie = cookie

\* A command was carried out that leaves the answer to key behind, and this tab is still to
\* receive that.
LeftBehind(slot, key) ==
    /\ what[slot].kind = "command" /\ request[slot].answer = "ok"
    /\ key \in Listed(what[slot].command)
Overtaken(key) == \E slot \in Slots : LeftBehind(slot, key)

\* So is every answer that is behind, held or still to come.
NoneForgotten ==
    /\ \A key \in Queries : ~ cache[key].marked /\ cache[key].behind = "behind" => Overtaken(key)
    /\ \A slot \in Slots :
         what[slot].kind = "fetch" /\ what[slot].behind = "behind" => Overtaken(what[slot].key)

TabInv == TabTypes /\ AllHis /\ NoneForgotten

-----------------------------------------------------------------------------
(* The inductive invariant of DeniedOnlyAcrossPersonas.                    *)

\* A persona who reaches a path by links drawn for nobody else may read it.
Reaches(path, offered) ==
    /\ offered \subseteq Personas
    /\ path \in Keys => /\ offered = {} => path = "dashboard"
                        /\ \A persona \in Personas : offered = {persona} =>
                             carries(RouteOfKey(path), RoleOf[persona])

\* An answer was given to one who may read it.
Readable(key, copy) == copy.by \in Personas => carries(RouteOfKey(key), RoleOf[copy.by])

\* What the tab makes of a request is what was asked, and a screen drawn for the cookie's
\* persona asked what the persona's role carries; its answer is the table's.
InRight(asked, meaning) ==
    /\ CASE meaning.kind = "none"    -> asked = NoRequest
         [] meaning.kind = "fetch"   -> asked.route = RouteOfKey(meaning.key)
         [] meaning.kind = "command" -> TRUE
         [] OTHER                    -> isPublic(asked.route)
    /\ meaning.kind \in {"fetch", "command"} /\ ~ meaning.astray /\ asked.cookie \in Personas =>
         carries(asked.route, RoleOf[asked.cookie])
    /\ asked.answer = "ok" => Decision(asked.route, asked.cookie) = "admitted"
    /\ asked.answer = "insufficientRole" =>
         Decision(asked.route, asked.cookie) = "insufficientRole"

RightsInv ==
    /\ Reaches(screen, trail) /\ Reaches(going.to, going.trail)
    /\ \A key \in Keys : Has(key) => Readable(key, cache[key])
    /\ \A slot \in Slots : InRight(request[slot], what[slot])

=============================================================================
