----------------------------- MODULE Deployment -----------------------------
(***************************************************************************)
(* The host side of a release (ADR-0029, ADR-0032): a timer that deploys   *)
(* what the moving tag points to, a manual rollback, and the nightly       *)
(* reset, one at a time under the flock of $STATE_DIR/deploy.lock.  A      *)
(* script is a sequence of commands under set -e: a command that fails, or *)
(* a host that goes down, ends it wherever it is, and what it did stays.   *)
(***************************************************************************)
EXTENDS Naturals, FiniteSets

CONSTANTS
    Images,          \* the digests the registry holds
    Schema,          \* how many migrations each image carries
    Healthy,         \* the images whose container always comes up ready
    Nothing,         \* an empty or absent file; no container; no script
    MaxPushes,       \* bound: pushes of the tag
    MaxMishaps,      \* bound: failed commands and host crashes
    MaxManual        \* bound: rollbacks and resets

ASSUME ImagesAssumption == /\ Schema \in [ Images -> Nat \ {0} ]
                           /\ Healthy \subseteq Images
                           /\ Nothing \notin Images
ASSUME BoundsAssumption == { MaxPushes, MaxMishaps, MaxManual } \subseteq Nat

VARIABLES
    tag,        \* the digest :main resolves to
    current,    \* $STATE_DIR/current-digest
    previous,   \* $STATE_DIR/previous-digest
    app,        \* the image of the app container
    schema,     \* the last migration in schema_migrations
    data,       \* the rows: none, the seed's, or with a visitor's changes
    script,     \* the script that holds the lock
    accepted,   \* history: the images that passed a readiness check
    budget      \* what is left of the bounds

host == << current, previous, app, schema, data >>
hvars == << tag, host, script, accepted, budget >>

Kinds == { "deploy", "rollback", "reset" }
Steps == { "read", "dump", "migrate", "seed", "swap", "wait", "recordPrevious", "truncate",
           "recordCurrent" }

Digests == Images \cup {Nothing}

Scripts == [ kind : Kinds, step : Steps, target : Images, displaced : Digests,
             recovery : BOOLEAN ]

ASSUME NothingAssumption == Nothing \notin Scripts

Running(step) == script # Nothing /\ script.step = step

Spend(what) == budget[what] > 0 /\ budget' = [ budget EXCEPT ![what] = @ - 1 ]

-----------------------------------------------------------------------------
HInit ==
    /\ tag \in Images
    /\ current = Nothing
    /\ previous = Nothing
    /\ app = Nothing
    /\ schema = 0
    /\ data = "none"
    /\ script = Nothing
    /\ accepted = {}
    /\ budget = [ pushes |-> MaxPushes, mishaps |-> MaxMishaps, manual |-> MaxManual ]

\* GitHub Actions publishes an image and moves the tag.
Push ==
    /\ Spend("pushes")
    /\ tag' \in Images \ {tag}
    /\ UNCHANGED << host, script, accepted >>

\* A visitor changes the data through the running app.
Visit ==
    /\ app # Nothing
    /\ data = "seed"
    /\ data' = "visited"
    /\ UNCHANGED << tag, current, previous, app, schema, script, accepted, budget >>

Launch(kind, step, target) ==
    script' = [ kind |-> kind, step |-> step, target |-> target,
                displaced |-> Nothing, recovery |-> FALSE ]

\* The lock is free, and the registry's digest is not the recorded one.  A deploy that
\* finds the lock taken gives up, and the timer fires again.
Poll ==
    /\ script = Nothing
    /\ tag # current
    /\ Launch("deploy", "read", tag)
    /\ UNCHANGED << tag, host, accepted, budget >>

ManualRollback ==
    /\ script = Nothing
    /\ previous # Nothing
    /\ Spend("manual")
    /\ Launch("rollback", "read", previous)
    /\ UNCHANGED << tag, host, accepted >>

Reset ==
    /\ script = Nothing
    /\ current # Nothing
    /\ Spend("manual")
    /\ Launch("reset", "dump", current)
    /\ UNCHANGED << tag, host, accepted >>

-----------------------------------------------------------------------------
(* deploy_digest, and the commands it shares with the reset.               *)

Proceed(step) == script' = [ script EXCEPT !.step = step ]

End == script' = Nothing

ReadDisplaced ==
    /\ Running("read")
    /\ script' = [ script EXCEPT !.displaced = current, !.step = "migrate" ]
    /\ UNCHANGED << tag, host, accepted, budget >>

Dump ==
    /\ Running("dump")
    /\ Proceed("migrate")
    /\ UNCHANGED << tag, host, accepted, budget >>

\* One pending migration, in a transaction of its own.
Migrate ==
    /\ Running("migrate")
    /\ schema < Schema[script.target]
    /\ schema' = schema + 1
    /\ UNCHANGED << tag, current, previous, app, data, script, accepted, budget >>

Seeds == script.kind = "reset" \/ script.displaced = Nothing

\* Swapping before the migrations are done.
Migrated_Started == TRUE
Migrated == schema >= Schema[script.target]

MigrationsDone ==
    /\ Running("migrate")
    /\ Migrated
    /\ Proceed(IF Seeds THEN "seed" ELSE "swap")
    /\ UNCHANGED << tag, host, accepted, budget >>

\* The seed deletes and rebuilds every row in one transaction.
Seed ==
    /\ Running("seed")
    /\ data' = "seed"
    /\ IF script.kind = "reset" THEN End ELSE Proceed("swap")
    /\ UNCHANGED << tag, current, previous, app, schema, accepted, budget >>

\* Recording the first deployment only.
RecordNext_First == IF script.displaced = Nothing THEN Proceed("truncate") ELSE End
RecordNext == IF script.displaced # Nothing THEN Proceed("recordPrevious") ELSE Proceed("truncate")

Swap ==
    /\ Running("swap")
    /\ app' = script.target
    /\ Proceed("wait")
    /\ UNCHANGED << tag, current, previous, schema, data, accepted, budget >>

\* --force-recreate removed the old container and the new one did not start.
SwapFails ==
    /\ Running("swap")
    /\ Spend("mishaps")
    /\ app' = Nothing
    /\ End
    /\ UNCHANGED << tag, current, previous, schema, data, accepted >>

Ready ==
    /\ Running("wait")
    /\ accepted' = accepted \cup {script.target}
    /\ RecordNext
    /\ UNCHANGED << tag, host, budget >>

\* The readiness budget ran out: restore the displaced digest, once.
Restores_Never == FALSE
Restores == ~ script.recovery /\ script.displaced # Nothing

NotReady ==
    /\ Running("wait")
    /\ script.target \notin Healthy
    /\ IF Restores
       THEN script' = [ script EXCEPT !.target = script.displaced, !.step = "read",
                                      !.recovery = TRUE ]
       ELSE End
    /\ UNCHANGED << tag, host, accepted, budget >>

RecordPrevious ==
    /\ Running("recordPrevious")
    /\ previous' = script.displaced
    /\ Proceed("truncate")
    /\ UNCHANGED << tag, current, app, schema, data, accepted, budget >>

\* echo ... >current-digest empties the file, then writes it.
TruncateCurrent ==
    /\ Running("truncate")
    /\ current' = Nothing
    /\ Proceed("recordCurrent")
    /\ UNCHANGED << tag, previous, app, schema, data, accepted, budget >>

RecordCurrent ==
    /\ Running("recordCurrent")
    /\ current' = script.target
    /\ End
    /\ UNCHANGED << tag, previous, app, schema, data, accepted, budget >>

\* A command fails, or the host goes down; containers restart as they were.
Interrupted ==
    /\ script # Nothing
    /\ Spend("mishaps")
    /\ End
    /\ UNCHANGED << tag, host, accepted >>

-----------------------------------------------------------------------------
Script ==
    \/ ReadDisplaced \/ Dump \/ Migrate \/ MigrationsDone \/ Seed \/ Swap
    \/ Ready \/ NotReady \/ RecordPrevious \/ TruncateCurrent \/ RecordCurrent

HNext ==
    \/ Push \/ Visit \/ Poll \/ ManualRollback \/ Reset
    \/ Script \/ SwapFails \/ Interrupted

HSpec == HInit /\ [][HNext]_hvars

\* The timer keeps firing and a script that is not interrupted ends; nothing makes
\* anyone push, visit, roll back or reset.
HLiveSpec == HSpec /\ WF_hvars(Poll) /\ WF_hvars(Script)

-----------------------------------------------------------------------------
(* Properties.                                                             *)

\* Types.
TypeOK ==
    /\ tag \in Images
    /\ { current, previous, app } \subseteq Digests
    /\ schema \in Nat
    /\ data \in { "none", "seed", "visited" }
    /\ script \in Scripts \cup {Nothing}
    /\ accepted \subseteq Images
    /\ budget \in [ {"pushes", "mishaps", "manual"} -> Nat ]

\* The running app never has a schema older than the migrations of its own image, nor
\* runs on a database that was never seeded, wherever a deployment was interrupted.
AppHasItsSchema ==
    app # Nothing => schema >= Schema[app] /\ data # "none"

\* The digests on record, which rollbacks and recoveries deploy, are of images that
\* passed a readiness check on this host (ADR-0029).
RecordedWereReady == { current, previous } \subseteq accepted \cup {Nothing}

\* With no script at work and nothing interrupted, what runs is what is on record, also
\* after a failed release, unless nothing was ever accepted.
RunsWhatIsRecorded ==
    script = Nothing /\ budget.mishaps = MaxMishaps => app = current \/ current = Nothing

\* The host catches up with main (ADR-0029): if the tag comes to rest on a healthy image,
\* that image ends up on record, whatever was interrupted before.
CatchesUp ==
    \A image \in Healthy : <>[](tag = image) => <>[](current = image)

\* "Deployment is eventually consistent with main" (ADR-0029): that image also runs.
FollowsMain ==
    \A image \in Healthy : <>[](tag = image) => <>[](app = image)

\* The digest on record to roll back to is the one the current release displaced
\* (ADR-0029), hence another image.
RollbackTarget == current # Nothing => previous # current

\* A deployment does not erase what a visitor did (ADR-0032): only the nightly reset does.
DeploySparesVisitors ==
    [][ data = "visited" /\ data' # "visited" => script.kind = "reset" ]_hvars

-----------------------------------------------------------------------------
(* The inductive invariant of AppHasItsSchema, RecordedWereReady and       *)
(* RunsWhatIsRecorded.                                                     *)

\* Where a deployment has got to.
Before    == {"read", "migrate", "seed", "swap"}
Recording == {"recordPrevious", "truncate", "recordCurrent"}

\* The bounds are only spent, and a reset neither swaps nor records.
Kept ==
    /\ budget.mishaps <= MaxMishaps
    /\ script # Nothing =>
         script.step \in IF script.kind = "reset" THEN {"dump", "migrate", "seed"}
                         ELSE Before \cup {"wait"} \cup Recording

\* Before it swaps the app, a script has migrated for its target and found or made the rows.
Prepared ==
    /\ current # Nothing => data # "none"
    /\ script # Nothing =>
         /\ script.displaced # Nothing => data # "none"
         /\ script.step \in {"seed", "swap", "wait"} \cup Recording =>
              schema >= Schema[script.target]
         /\ script.step \in {"swap", "wait"} \cup Recording => data # "none"

\* What a script displaces was accepted once, and so is what it records.
Accepted ==
    /\ RecordedWereReady
    /\ script # Nothing =>
         /\ script.displaced \in accepted \cup {Nothing}
         /\ script.step \in Recording => script.target \in accepted

OnRecord == app = current \/ current = Nothing

\* With nothing interrupted, what runs is on record until the swap; a recovery brings back
\* what is on record; and what is being recorded is what runs.
Followed ==
    budget.mishaps = MaxMishaps =>
        IF script = Nothing \/ (script # Nothing /\ script.kind = "reset") THEN OnRecord
        ELSE /\ script.step \in Before =>
                  IF script.recovery THEN script.target = current ELSE OnRecord
             /\ script.step \in {"migrate", "seed", "swap", "wait"} =>
                  script.displaced = current
             /\ script.step = "wait" => /\ app = script.target
                                        /\ script.recovery => script.target = current
             /\ script.step \in Recording => app = script.target

ReleaseInv == TypeOK /\ Kept /\ Prepared /\ Accepted /\ AppHasItsSchema /\ Followed

=============================================================================
