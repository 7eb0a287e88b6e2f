------------------------ MODULE TranslationSession ------------------------
(***************************************************************************)
(* The quick translator's view model: what the user asks, the run that     *)
(* shows the answers, and the history rows the answers become.             *)
(*                                                                         *)
(* One isolate runs everything, so a handler is one step; between steps    *)
(* stand the awaited calls.  One service is asked at a time.  Choosing     *)
(* another service for the same query keeps the run, adds the service's    *)
(* result to it and stays in the same history session.  A cancelled        *)
(* subscription delivers nothing more, but a history upsert or a favourite *)
(* toggle under way lands whatever happened since.                         *)
(*                                                                         *)
(* The rows are the runtime's, in memory: a call that fails may have       *)
(* changed them (it failed to write the file), and the history window      *)
(* changes them too, and the view hears of neither.  `stale` says of which *)
(* rows that is so.  An upsert's row is written and shown in one step:     *)
(* nothing is shown of the row before, and each is written once.           *)
(*                                                                         *)
(* A result is its status with the text and target it was made for.  Left  *)
(* out: the glossary panel, which changes nothing that is modelled here,   *)
(* and a restored backup that brings back rows that were deleted.          *)
(***************************************************************************)
EXTENDS Naturals, Functions

CONSTANTS
    Texts,          \* source texts, "" apart
    Languages,
    Services,
    FirstService,   \* the catalog's first service
    DefaultTarget,  \* the catalog's default target language
    None,
    MaxSubmits,     \* bound on submissions
    MaxOps          \* bound on the user's actions

ASSUME SessionAssumption ==
    /\ FirstService \in Services /\ DefaultTarget \in Languages
    /\ "" \notin Texts /\ "auto" \notin Languages /\ None \notin Languages \cup Services
    /\ MaxSubmits \in Nat /\ MaxOps \in Nat

Choice == Languages \cup {"auto"}
Query == [text : Texts \cup {""}, source : Choice, target : Choice]
Status == {"translating", "completed", "failed", "cancelled"}
Result == [status : Status, text : Texts, target : Languages]

VARIABLES
    catalog,     \* "loading", "ready", "empty" (no service is enabled) or "failed"
    query,       \* sourceText, sourceLanguage, targetLanguage
    selected,    \* selectedServiceId
    run,         \* the run shown: target, detected language, results by service
    key,         \* _queryKey
    requests,    \* submissions so far; the last one is _requestId's
    session,     \* _activeHistorySessionId: the submission that opened it, or None
    submitting,
    live,        \* the subscription of the current submission, or None
    waiting,     \* submissions whose future is not complete
    saving,      \* history upserts under way
    toggle,      \* the favourite toggle under way, or None
    history,     \* historyByService: the session and flag of the record shown
    rows,        \* the history's rows, by session and service
    stale,       \* rows starred or deleted since without the view being told
    strayed,     \* services whose record a toggle of an older session brought
    ops

view == <<catalog, query, selected, run, key, requests, session, submitting, live, waiting>>
records == <<saving, toggle, history, rows, stale, strayed>>
vars == <<view, records, ops>>

Init ==
    /\ catalog = "loading"
    /\ query = [text |-> "", source |-> "auto", target |-> "auto"]
    /\ selected = None
    /\ run = None /\ key = None
    /\ requests = 0 /\ session = None
    /\ submitting = FALSE /\ live = None /\ waiting = {}
    /\ saving = {} /\ toggle = None
    /\ history = <<>> /\ rows = <<>> /\ stale = {} /\ strayed = {}
    /\ ops = 0

Put(f, x, v) == [y \in DOMAIN f \cup {x} |-> IF y = x THEN v ELSE f[y]]

Act == ops < MaxOps /\ ops' = ops + 1

-----------------------------------------------------------------------------
(* Loading the catalog, once.                                              *)

\* Mutant: no service is selected.
InitializeUnselected ==
    /\ catalog = "loading"
    /\ catalog' = "ready"
    /\ query' = [query EXCEPT !.source = "auto", !.target = "auto"]
    /\ UNCHANGED <<selected, run, key, requests, session, submitting, live, waiting, records, ops>>

\* The defaults replace languages chosen while the catalog was loading.  A
\* catalog without a service selects none.
Initialize ==
    /\ catalog = "loading"
    /\ catalog' \in {"ready", "empty"}
    /\ query' = [query EXCEPT !.source = "auto", !.target = "auto"]
    /\ selected' = IF catalog' = "ready" THEN FirstService ELSE None
    /\ UNCHANGED <<run, key, requests, session, submitting, live, waiting, records, ops>>

InitializeFails ==
    /\ catalog = "loading"
    /\ catalog' = "failed"
    /\ UNCHANGED <<query, selected, run, key, requests, session, submitting, live, waiting,
                   records, ops>>

-----------------------------------------------------------------------------
(* Cancelling                                                              *)

\* Mutant: a run that is stopped stays as it is.
StoppedAsIs(r) == r

\* What was translating is cancelled.
Stopped(r) ==
    IF r = None THEN None
    ELSE [r EXCEPT !.results = [s \in DOMAIN @ |->
             IF @[s].status = "translating" THEN [@[s] EXCEPT !.status = "cancelled"] ELSE @[s]]]

\* cancel
Cancel ==
    /\ live' = None
    /\ waiting' = waiting \ {requests}
    /\ run' = Stopped(run)
    /\ submitting' = FALSE

\* setSourceText, setSourceLanguage, setTargetLanguage
Edit(q) ==
    /\ Act
    /\ q # query
    /\ query' = q
    /\ IF submitting THEN Cancel ELSE UNCHANGED <<live, waiting, run, submitting>>
    /\ UNCHANGED <<catalog, selected, key, requests, session, records>>

Edits ==
    \/ \E t \in Texts \cup {""} : Edit([query EXCEPT !.text = t])
    \/ \E l \in Choice : Edit([query EXCEPT !.source = l]) \/ Edit([query EXCEPT !.target = l])

\* The stop button, and a window that closes.
Stop ==
    /\ Act
    /\ Cancel
    /\ UNCHANGED <<catalog, query, selected, key, requests, session, records>>

ClearSourceText ==
    /\ Act
    /\ live' = None /\ waiting' = waiting \ {requests} /\ submitting' = FALSE
    /\ run' = None /\ key' = None /\ session' = None
    /\ query' = [query EXCEPT !.text = ""]
    /\ history' = <<>> /\ strayed' = {}
    /\ UNCHANGED <<catalog, selected, requests, saving, toggle, rows, stale>>

\* swapLanguages: a submission under way goes on under the swapped languages.
SwapLanguages ==
    /\ Act
    /\ catalog \in {"ready", "empty"}
    /\ LET oldTarget == IF query.target # "auto" THEN query.target
                        ELSE IF run = None THEN DefaultTarget ELSE run.target
           detected  == IF run = None THEN None ELSE run.detected
           newTarget == IF query.source # "auto" THEN query.source
                        ELSE IF detected = None THEN DefaultTarget ELSE detected
       IN  query' = [query EXCEPT !.source = oldTarget, !.target = newTarget]
    /\ UNCHANGED <<catalog, selected, run, key, requests, session, submitting, live, waiting, records>>

-----------------------------------------------------------------------------
(* Submitting                                                              *)

\* reuseResults, and the query is the one the run answers.
Keeps(reuse) == reuse /\ key = query

\* Mutant: the target is resolved anew for each service.
ComparisonTargetAnew(keep) == None

\* comparisonTarget: results that are compared share a target.
ComparisonTarget(keep) == IF keep /\ run # None THEN run.target ELSE None

\* Mutant: the session goes on until the text is cleared.
SessionOfOld(keep) == IF session # None THEN session ELSE requests + 1

SessionOf(keep) == IF keep /\ session # None THEN session ELSE requests + 1

\* submit, to the service s; without a text or a service nothing happens
Submit(reuse, s) ==
    /\ catalog = "ready"
    /\ query.text # ""
    /\ requests < MaxSubmits
    /\ LET keep == Keeps(reuse)
       IN  /\ requests' = requests + 1
           /\ session' = SessionOf(keep)
           /\ key' = query
           /\ run' = IF keep THEN Stopped(run) ELSE None
           /\ history' = IF keep THEN history ELSE <<>>
           /\ strayed' = IF keep THEN strayed ELSE {}
           /\ live' = [phase    |-> "starting",
                       request  |-> requests',
                       session  |-> session',
                       service  |-> s,
                       query    |-> query,
                       target   |-> IF query.target # "auto" THEN query.target
                                    ELSE ComparisonTarget(keep),
                       detected |-> None,
                       previous |-> IF run' = None THEN <<>> ELSE run'.results]
    /\ submitting' = TRUE
    /\ waiting' = (waiting \ {requests}) \cup {requests'}
    /\ UNCHANGED <<catalog, query, saving, toggle, rows, stale>>

\* The translate button, and a window request that submits.
Translate ==
    /\ Act
    /\ Submit(FALSE, selected)
    /\ UNCHANGED selected

\* selectService: a completed result of the same query is shown again ...
ShowCached(s) ==
    /\ key = query
    /\ run # None
    /\ s \in DOMAIN run.results
    /\ run.results[s].status = "completed"

SelectCached(s) ==
    /\ Act
    /\ catalog = "ready"
    /\ ShowCached(s) \/ query.text = ""
    /\ selected' = s
    /\ UNCHANGED <<catalog, query, run, key, requests, session, submitting, live, waiting, records>>

\* ... and otherwise the service is asked.
SelectAsks(s) ==
    /\ Act
    /\ ~ShowCached(s)
    /\ selected' = s
    /\ Submit(TRUE, s)

-----------------------------------------------------------------------------
(* The translation, for one service, as its subscription delivers it.      *)

\* What the listener makes of a run: earlier results and the service's own.
Show(target, detected, status) ==
    run' = [target   |-> target,
            detected |-> detected,
            results  |-> Put(live.previous, live.service,
                             [status |-> status, text |-> live.query.text, target |-> target])]

\* Detection, which may fail, and the resolution of an automatic target; then
\* the first snapshot.
Starts ==
    /\ live # None
    /\ live.phase = "starting"
    /\ \E d \in Languages \cup {None} :
          /\ IF live.query.source # "auto"
             THEN d = IF live.target = None THEN live.query.source ELSE None
             ELSE TRUE
          /\ \E t \in IF live.target = None THEN Languages ELSE {live.target} :
                /\ live' = [live EXCEPT !.phase = "running", !.target = t, !.detected = d]
                /\ Show(t, d, "translating")
    /\ submitting' = TRUE
    /\ UNCHANGED <<catalog, query, selected, key, requests, session, waiting, records, ops>>

\* The provider's stream ends, with text or not.
Finishes ==
    /\ live # None
    /\ live.phase = "running"
    /\ \E status \in {"completed", "failed"} : Show(live.target, live.detected, status)
    /\ live' = [live EXCEPT !.phase = "finished"]
    /\ submitting' = TRUE
    /\ UNCHANGED <<catalog, query, selected, key, requests, session, waiting, records, ops>>

\* The run of this submission alone is recorded, if its result has text.
Completes ==
    /\ live # None
    /\ live.phase = "finished"
    /\ live' = [live EXCEPT !.phase = "completed"]
    /\ submitting' = FALSE
    /\ saving' = IF run.results[live.service].status # "completed" THEN saving
                 ELSE saving \cup {[session |-> live.session, service |-> live.service,
                                    text |-> live.query.text, target |-> live.target]}
    /\ UNCHANGED <<catalog, query, selected, run, key, requests, session, waiting,
                   toggle, history, rows, stale, strayed, ops>>

\* onDone
Done ==
    /\ live # None
    /\ live.phase = "completed"
    /\ live' = None
    /\ submitting' = FALSE
    /\ waiting' = waiting \ {live.request}
    /\ UNCHANGED <<catalog, query, selected, run, key, requests, session, records, ops>>

-----------------------------------------------------------------------------
(* History                                                                 *)

\* Mutant: a record lands whatever the session is by then.
LandsAlways(r) == TRUE

Lands(r) == session = r.session

\* The row an upsert writes: a row that is there keeps its star.
Upserted(r) ==
    LET id == <<r.session, r.service>>
    IN  Put(rows, id, [text |-> r.text, target |-> r.target, edited |-> FALSE,
                       favorite |-> id \in DOMAIN rows /\ rows[id].favorite])

\* The upsert is answered: the row is written, and shown in its own session.
RecordSaved(r) ==
    /\ rows' = Upserted(r)
    /\ history' = IF ~Lands(r) THEN history
                  ELSE Put(history, r.service,
                           [session  |-> r.session,
                            favorite |-> rows'[<<r.session, r.service>>].favorite])
    /\ strayed' = IF Lands(r) THEN strayed \ {r.service} ELSE strayed
    /\ saving' = saving \ {r}
    /\ UNCHANGED <<view, toggle, stale, ops>>

\* The call is refused, or the row is there and the file could not be written.
RecordFails(r) ==
    /\ rows' \in {rows, Upserted(r)}
    /\ saving' = saving \ {r}
    /\ UNCHANGED <<view, toggle, history, stale, strayed, ops>>

\* toggleSelectedFavorite, for the record of the selected result
Toggle ==
    /\ Act
    /\ toggle = None
    /\ run # None
    /\ selected \in DOMAIN run.results \cap DOMAIN history
    /\ toggle' = [session |-> history[selected].session, service |-> selected,
                  favorite |-> ~history[selected].favorite, set |-> FALSE]
    /\ UNCHANGED <<view, saving, history, rows, stale, strayed>>

Toggled == <<toggle.session, toggle.service>>

\* set_favorite: the row, if there still is one, gets the star.
ToggleSets ==
    /\ toggle # None
    /\ ~toggle.set
    /\ Toggled \in DOMAIN rows
    /\ rows' = [rows EXCEPT ![Toggled].favorite = toggle.favorite]
    /\ stale' = stale \ {Toggled}
    /\ toggle' = [toggle EXCEPT !.set = TRUE]
    /\ UNCHANGED <<view, saving, history, strayed, ops>>

\* Its answer is shown, whatever the session is by then.
ToggleSaved ==
    /\ toggle # None
    /\ toggle.set
    /\ history' = Put(history, toggle.service,
                      [session |-> toggle.session, favorite |-> toggle.favorite])
    /\ strayed' = IF toggle.session = session THEN strayed \ {toggle.service}
                  ELSE strayed \cup {toggle.service}
    /\ toggle' = None
    /\ UNCHANGED <<view, saving, rows, stale, ops>>

\* There is no row, or the call is refused; or the row has its star, and the
\* file could not be written: the star shown stays what it was.
ToggleFails ==
    /\ toggle # None
    /\ toggle' = None
    /\ stale' = IF toggle.set THEN stale \cup {Toggled} ELSE stale
    /\ UNCHANGED <<view, saving, history, rows, strayed, ops>>

\* The history window edits a row, stars it, or deletes it; old rows are
\* pruned.  Here one row at a time.
Elsewhere ==
    /\ Act
    /\ \E id \in DOMAIN rows :
          \/ /\ \E t \in Texts : rows' = [rows EXCEPT ![id].text = t, ![id].edited = TRUE]
             /\ UNCHANGED stale
          \/ /\ \/ rows' = [rows EXCEPT ![id].favorite = ~@]
                \/ rows' = Restrict(rows, DOMAIN rows \ {id})
             /\ stale' = stale \cup {id}
    /\ UNCHANGED <<view, saving, toggle, history, strayed>>

-----------------------------------------------------------------------------
User ==
    \/ Edits \/ Stop \/ ClearSourceText \/ SwapLanguages \/ Translate \/ Toggle \/ Elsewhere
    \/ \E s \in Services : SelectCached(s) \/ SelectAsks(s)

Translation == Starts \/ Finishes \/ Completes \/ Done

Next ==
    \/ Initialize \/ InitializeFails
    \/ User
    \/ Translation
    \/ \E r \in saving : RecordSaved(r) \/ RecordFails(r)
    \/ ToggleSets \/ ToggleSaved \/ ToggleFails

Spec == Init /\ [][Next]_vars

\* Detection is cut off after three seconds (translate_text.dart:48), a request
\* to a provider after 180 (transport.rs:47-49) and its end is always said
\* (TranslationTask, EndIsSaid); the isolate delivers events.
FairSpec == Spec /\ WF_vars(Translation)

-----------------------------------------------------------------------------
Row == [text : Texts, target : Languages, favorite : BOOLEAN, edited : BOOLEAN]
Record == [session : 1 .. MaxSubmits, service : Services, text : Texts, target : Languages]
Star == [session : 1 .. MaxSubmits, service : Services, favorite : BOOLEAN, set : BOOLEAN]
Shown == [session : 1 .. MaxSubmits, favorite : BOOLEAN]

\* The functions from some of X to Y.
Partly(X, Y) == UNION {[S -> Y] : S \in SUBSET X}

Run ==
    [target : Languages, detected : Languages \cup {None}, results : Partly(Services, Result)]

Subscription ==
    [phase : {"starting", "running", "finished", "completed"}, request : 1 .. MaxSubmits,
     session : 1 .. MaxSubmits, service : Services, query : Query,
     target : Languages \cup {None}, detected : Languages \cup {None},
     previous : Partly(Services, Result)]

\* null is no value of any of these types.
ASSUME NoneAssumption ==
    /\ None \notin Query /\ None \notin Run /\ None \notin Subscription
    /\ None \notin Star /\ None \notin Nat

TypeOK ==
    /\ catalog \in {"loading", "ready", "empty", "failed"}
    /\ query \in Query
    /\ selected \in Services \cup {None}
    /\ catalog = "ready" <=> selected # None
    /\ run # None => run \in Run
    /\ key # None => key \in Query
    /\ requests \in 0 .. MaxSubmits
    /\ session \in 1 .. MaxSubmits \cup {None}
    /\ submitting \in BOOLEAN
    /\ live # None => live \in Subscription
    /\ waiting \subseteq 1 .. MaxSubmits
    /\ saving \subseteq Record
    /\ toggle # None => toggle \in Star
    /\ DOMAIN history \subseteq Services /\ history \in [DOMAIN history -> Shown]
    /\ DOMAIN rows \subseteq (1 .. MaxSubmits) \X Services /\ rows \in [DOMAIN rows -> Row]
    /\ stale \subseteq (1 .. MaxSubmits) \X Services
    /\ strayed \subseteq Services
    /\ ops \in 0 .. MaxOps

\* Results shown side by side are comparable: all were made from the text of
\* the query the run answers and into one target, the one asked for if one was.
Comparable ==
    run # None =>
        /\ key # None
        /\ key.target # "auto" => run.target = key.target
        /\ \A s \in DOMAIN run.results :
              run.results[s].text = key.text /\ run.results[s].target = run.target

\* "Persists completed translation results once per service in a session": the
\* rows of one session are translations of one text into one target, those apart
\* that the user has edited.
OneQueryPerSession ==
    \A i, j \in DOMAIN rows : i[1] = j[1] /\ ~rows[i].edited /\ ~rows[j].edited =>
        rows[i].text = rows[j].text /\ rows[i].target = rows[j].target

\* Nothing is left translating, and nobody is left waiting, once no submission
\* is under way.
NothingHangs ==
    /\ submitting => live # None
    /\ waiting # {} => live # None /\ waiting = {live.request}
    /\ run # None /\ live = None =>
          \A s \in DOMAIN run.results : run.results[s].status # "translating"

\* The record shown for a service is of the active session, unless a toggle of
\* an older session landed on it; and its star is the star of its row, unless
\* the row was starred or deleted elsewhere, or by a toggle that failed, since
\* this view starred it, or a toggle of it is under way.
HistoryOwned ==
    \A s \in DOMAIN history :
        LET id == <<history[s].session, s>>
        IN  /\ s \in strayed \/ history[s].session = session
            /\ \/ id \in stale
               \/ toggle # None /\ toggle.set /\ Toggled = id
               \/ id \in DOMAIN rows /\ rows[id].favorite = history[s].favorite

\* A submission ends, whatever the user does meanwhile.
SubmissionsEnd == submitting ~> ~submitting
=============================================================================
