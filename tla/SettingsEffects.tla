--------------------------- MODULE SettingsEffects ---------------------------
(***************************************************************************)
(* The coordinator that carries three settings into the system: the login  *)
(* item, the native appearance and the local API server, each by a loop of *)
(* its own that runs while something is left to apply.                     *)
(*                                                                         *)
(* Between two answers from outside nothing else runs in the isolate: due  *)
(* holds the loops a listener has asked for, which go before all else.     *)
(* The login item and the server are set by calls that return at once (how *)
(* a server is replaced is ApiServer), the appearance by one that takes    *)
(* its time.  A request that finds its loop running joins it.              *)
(***************************************************************************)
EXTENDS Naturals

CONSTANTS
    Themes,       \* the modes of the appearance
    Ports, Off,   \* the settings of the server
    MaxNews       \* bound on the answers that bring settings

Effects == {"login", "theme", "server"}
Wishes == [login |-> {"yes", "no"}, theme |-> Themes, server |-> Ports \cup {Off}]
Settings == [login : Wishes.login, theme : Wishes.theme, server : Wishes.server]

VARIABLES
    store,      \* by effect: the setting, as the cache has it
    system,     \* by effect: what the system was last brought to
    tried,      \* by effect: what was last tried
    refused,    \* by effect: that try was refused
    sync,       \* by effect: "idle", "applying" or "correcting"
    due,
    phase,      \* of start(): "off", "seeding", "starting" or, once a loop has
                \* thrown, "broken"; then "on", "failed", or "unseeded"; "disposed"
    awaited,    \* the loops start() waits for
    supported,  \* the system has login items
    news

starting == <<phase, awaited>>
vars == <<store, system, tried, refused, sync, due, starting, supported, news>>

Init ==
    /\ store \in Settings
    /\ system \in [login : Wishes.login, theme : Wishes.theme, server : {Off}]
    /\ tried = system /\ refused = [k \in Effects |-> FALSE]
    /\ sync = [k \in Effects |-> "idle"] /\ due = {}
    /\ phase = "off" /\ awaited = {} /\ supported \in BOOLEAN /\ news = 0

\* The listeners stay when start() fails.
Listening == phase \notin {"off", "disposed"}

Set(k, outcome, wish, is_refused, then) ==
    /\ system' = [system EXCEPT ![k] = outcome]
    /\ tried' = [tried EXCEPT ![k] = wish]
    /\ refused' = [refused EXCEPT ![k] = is_refused]
    /\ sync' = [sync EXCEPT ![k] = then]

-----------------------------------------------------------------------------
(* The first step of each loop.                                            *)

\* _syncGeneral: an item that is as wished is left alone; what the system
\* has, when it refuses, is written back to the settings.
SyncLogin ==
    LET wish == store.login
    IN  IF ~supported \/ system.login = wish
        THEN Set("login", system.login, wish, FALSE, "idle")
        ELSE \/ \E is_refused \in BOOLEAN : Set("login", wish, wish, is_refused, "idle")
             \/ Set("login", system.login, wish, TRUE, "correcting")

\* _syncAppearance
SyncTheme == Set("theme", system.theme, store.theme, FALSE, "applying")

\* _syncAdvanced: a server that is as wished is kept.  Any other is stopped,
\* and the one wished for may not start.
SyncServer ==
    LET wish == store.server
    IN  \/ Set("server", wish, wish, FALSE, "idle")
        \/ system.server # wish /\ wish # Off /\ Set("server", Off, wish, TRUE, "idle")

\* A loop's end, for start(), which fails with what one of its three throws.
Returns(k) == awaited' = awaited \ {k} /\ UNCHANGED phase
Throws(k) ==
    /\ awaited' = awaited \ {k}
    /\ phase' = IF k \in awaited THEN "broken" ELSE phase

Begin(k) ==
    /\ k \in due /\ due' = due \ {k}
    /\ \/ sync[k] # "idle" /\ UNCHANGED <<system, tried, refused, sync, starting>>
       \/ /\ sync[k] = "idle"
          /\ CASE k = "login" -> SyncLogin [] k = "theme" -> SyncTheme [] k = "server" -> SyncServer
          /\ IF sync'[k] # "idle" THEN UNCHANGED starting
             ELSE IF k = "server" /\ refused'[k] THEN Throws(k) ELSE Returns(k)
    /\ UNCHANGED <<store, supported, news>>

-----------------------------------------------------------------------------
(* The answers the loops wait for.                                         *)

\* Mutant: what came while the appearance was set is left for the next change.
ThemeEndsOnce ==
    /\ due = {} /\ sync.theme = "applying"
    /\ \E ok \in BOOLEAN :
          /\ system' = IF ok THEN [system EXCEPT !.theme = tried.theme] ELSE system
          /\ refused' = [refused EXCEPT !.theme = ~ok]
    /\ sync' = [sync EXCEPT !.theme = "idle"]
    /\ Returns("theme")
    /\ UNCHANGED <<store, tried, due, supported, news>>

\* The appearance is set, or not and that is logged; then once more, when
\* the setting has changed.
ThemeEnds ==
    /\ due = {} /\ sync.theme = "applying"
    /\ \E ok \in BOOLEAN :
          /\ system' = IF ok THEN [system EXCEPT !.theme = tried.theme] ELSE system
          /\ refused' = [refused EXCEPT !.theme = ~ok]
    /\ sync' = [sync EXCEPT !.theme = "idle"]
    /\ IF phase = "disposed" \/ store.theme = tried.theme
       THEN Returns("theme") /\ UNCHANGED due
       ELSE due' = {"theme"} /\ UNCHANGED starting
    /\ UNCHANGED <<store, tried, supported, news>>

\* The correction is in the settings: its announcement joins the loop, which
\* ends as refused.
Corrected ==
    /\ due = {} /\ sync.login = "correcting"
    /\ store' = [store EXCEPT !.login = system.login]
    /\ sync' = [sync EXCEPT !.login = "idle"]
    /\ Returns("login")
    /\ UNCHANGED <<system, tried, refused, due, supported, news>>

CorrectionFails ==
    /\ due = {} /\ sync.login = "correcting"
    /\ sync' = [sync EXCEPT !.login = "idle"]
    /\ Throws("login")
    /\ UNCHANGED <<store, system, tried, refused, due, supported, news>>

-----------------------------------------------------------------------------
(* What sets the loops going.                                              *)

\* start(): the listeners, the default target language if there is none, the
\* three loops.
Start ==
    /\ phase = "off"
    /\ \/ phase' = "seeding" /\ UNCHANGED <<due, awaited>>
       \/ phase' = "starting" /\ due' = Effects /\ awaited' = Effects
    /\ UNCHANGED <<store, system, tried, refused, sync, supported, news>>

Seeded ==
    /\ due = {} /\ phase = "seeding"
    /\ \/ phase' = "starting" /\ due' = Effects /\ awaited' = Effects
       \/ phase' = "unseeded" /\ UNCHANGED <<due, awaited>>
    /\ UNCHANGED <<store, system, tried, refused, sync, supported, news>>

Started ==
    /\ due = {} /\ phase \in {"starting", "broken"}
    /\ awaited = {}
    /\ phase' = IF phase = "starting" THEN "on" ELSE "failed"
    /\ UNCHANGED <<store, system, tried, refused, sync, due, awaited, supported, news>>

\* An answer brings a section's settings, changed or not.
News(k, w) ==
    /\ due = {} /\ news < MaxNews
    /\ store' = [store EXCEPT ![k] = w]
    /\ due' = IF Listening THEN {k} ELSE {}
    /\ news' = news + 1
    /\ UNCHANGED <<system, tried, refused, sync, starting, supported>>

Dispose ==
    /\ due = {} /\ phase \in {"on", "failed", "unseeded"}
    /\ phase' = "disposed"
    /\ UNCHANGED <<store, system, tried, refused, sync, due, awaited, supported, news>>

Next ==
    \/ \E k \in Effects : Begin(k) \/ \E w \in Wishes[k] : News(k, w)
    \/ ThemeEnds \/ Corrected \/ CorrectionFails
    \/ Start \/ Seeded \/ Started \/ Dispose

Spec == Init /\ [][Next]_vars

-----------------------------------------------------------------------------
TypeOK ==
    /\ \A k \in Effects : {store[k], system[k], tried[k]} \subseteq Wishes[k]
    /\ refused \in [Effects -> BOOLEAN]
    /\ sync \in [Effects -> {"idle", "applying", "correcting"}] /\ due \subseteq Effects
    /\ phase \in {"off", "seeding", "starting", "broken", "on", "failed", "unseeded", "disposed"}
    /\ awaited \subseteq Effects /\ supported \in BOOLEAN /\ news \in 0 .. MaxNews

\* docs/ARCHITECTURE.md:99-100: whatever comes while a loop runs, the system
\* is in the end as the settings say, unless it refused just that.
EffectsFollow ==
    \A k \in Effects :
        /\ phase \in {"starting", "broken", "on", "failed"} /\ due = {} /\ sync[k] = "idle"
        /\ k # "login" \/ supported
        => system[k] = store[k] \/ (refused[k] /\ tried[k] = store[k])
=============================================================================
