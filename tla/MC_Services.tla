----------------------------- MODULE MC_Services -----------------------------
(* What stands around the settings and the libraries, on small instances   *)
(* explored one at a time: these components share no state with another.   *)
EXTENDS Naturals, Sequences, FiniteSets

CONSTANTS
    Part,                                               \* the ones explored
    Clients, Ports, Off, Wake, Backlog, Capacity, MaxStarts, MaxChanges,
    MaxRuns, MaxWrites, Requests, Marks, MaxLen, Calls, Lifetimes, MaxTime,
    Messages, Ids, Cursors, Candidates, MaxPages,
    Names, Offers, Macos, MaxCommits,
    Themes, MaxNews, Versions, Current, MaxDownloads

VARIABLES
    part,
    wanted, app, server, failed, loop, port, stopped, backlog, conn, actions, changes,
    clipboard, count, front, capture, aside, since, selection, warned, original, calm,
    runs, writes, machine,
    asked, step, number, next, registry, native, inflight, channel, result,
    text, reply,
    adapter, at, exchange, outcome, said, carried, cache, now,
    kind, bases, page, seen, models, list, served,
    providers, services, order, defaults, checked, call, commits,
    store, system, tried, refused, sync, due, phase, awaited, supported, news,
    offered, update, pending, doing, target, files, verified, touched, opened, mounted

api == <<wanted, app, server, failed, loop, port, stopped, backlog, conn, actions, changes>>
selecting == <<clipboard, count, front, capture, aside, since, selection, warned, original,
               calm, runs, writes, machine>>
bridge == <<asked, step, number, next, registry, native, inflight, channel, result>>
parser == <<text, reply>>
adapting == <<adapter, at, exchange, outcome, said, carried, cache, now>>
listing == <<kind, bases, page, seen, models, list, served>>
settings == <<providers, services, order, defaults, checked, call, commits>>
effects == <<store, system, tried, refused, sync, due, phase, awaited, supported, news>>
updating == <<offered, update, pending, doing, target, files, verified, touched, opened, mounted>>
desktop == <<effects, updating>>
all == <<part, api, selecting, bridge, parser, adapting, listing, settings, desktop>>

A == INSTANCE ApiServer WITH Requests <- Messages
S == INSTANCE SelectionCapture WITH
    app <- front, step <- capture, result <- selection
B == INSTANCE SystemBridge
D == INSTANCE DictionaryParser
P == INSTANCE ProviderAdapters WITH step <- exchange
L == INSTANCE ModelLists WITH at <- page, outcome <- list
R == INSTANCE ServiceRegistry WITH
    changes <- commits, MaxChanges <- MaxCommits
E == INSTANCE SettingsEffects
U == INSTANCE UpdateCoordinator WITH state <- update, step <- doing, checked <- verified

ASSUME BoundsAssumption ==
    /\ {MaxRuns, MaxWrites, Backlog, MaxStarts, MaxChanges, MaxTime, MaxCommits, MaxNews, Candidates}
           \subseteq Nat
    /\ {MaxPages, Capacity} \subseteq Nat \ {0}
    /\ IsFiniteSet(Requests)
\* What a first start makes has names and types.
ASSUME NamesAssumption ==
    /\ Names \in Seq(STRING) /\ Macos \in BOOLEAN
    /\ {"ecdict", "google-web", "system"} \subseteq R!Providers \cap R!Types
ASSUME WakeAssumption == Wake \notin Clients

\* A component that is not explored rests in one of its initial states.
Init ==
    /\ part \in Part
    /\ A!Init /\ D!Init /\ P!Init
    /\ S!Init /\ (part = "capture" \/ (clipboard = S!Empty /\ machine = "macos"))
    /\ B!Init /\ (part = "bridge" \/ asked = CHOOSE a \in [Requests -> B!Asks] : TRUE)
    /\ L!Init /\ (part = "models" \/ (kind = "health" /\ bases = 0))
    /\ R!Init /\ (part = "registry" \/ order # <<>>)
    /\ E!Init /\ (part = "effects" \/ (supported /\ store = system
                                       /\ store = CHOOSE w \in E!Settings : w.server = Off))
    /\ U!Init /\ (part = "updates" \/ offered = Current)

Api == part = "api" /\ A!Next
    /\ UNCHANGED <<part, selecting, bridge, parser, adapting, listing, settings, desktop>>
Capture == part = "capture" /\ S!Next
    /\ UNCHANGED <<part, api, bridge, parser, adapting, listing, settings, desktop>>
Bridge == part = "bridge" /\ B!Next
    /\ UNCHANGED <<part, api, selecting, parser, adapting, listing, settings, desktop>>
Dictionary == part = "dictionary" /\ D!Next
    /\ UNCHANGED <<part, api, selecting, bridge, adapting, listing, settings, desktop>>
Adapters == part = "adapters" /\ P!Next
    /\ UNCHANGED <<part, api, selecting, bridge, parser, listing, settings, desktop>>
Models == part = "models" /\ L!Next
    /\ UNCHANGED <<part, api, selecting, bridge, parser, adapting, settings, desktop>>
Registry == part = "registry" /\ R!Next
    /\ UNCHANGED <<part, api, selecting, bridge, parser, adapting, listing, desktop>>

Effects == part = "effects" /\ E!Next
    /\ UNCHANGED <<part, api, selecting, bridge, parser, adapting, listing, settings, updating>>
Updates == part = "updates" /\ U!Next
    /\ UNCHANGED <<part, api, selecting, bridge, parser, adapting, listing, settings, effects>>

Next ==
    \/ Api \/ Capture \/ Bridge \/ Dictionary \/ Adapters \/ Models \/ Registry
    \/ Effects \/ Updates

Spec == Init /\ [][Next]_all /\ A!Fairness

-----------------------------------------------------------------------------
\* The types of all nine.
ServicesTypeOK ==
    /\ A!TypeOK /\ S!TypeOK /\ B!TypeOK /\ D!TypeOK /\ P!TypeOK /\ L!TypeOK /\ R!TypeOK
    /\ E!TypeOK /\ U!TypeOK

\* settings_effects.dart, runtime.dart and api_server.rs: the system is as the
\* settings say, and the server that runs the one they ask for.
SystemAsWanted == E!EffectsFollow /\ A!ServerAsWanted

\* update_coordinator.dart: what is ready, and what is handed over, is verified,
\* and no check replaces it.
UpdateVerified == U!UpdateVerified

\* api_server.rs, stop_impl: a stop comes back.
StopReturns == A!StopReturns

\* text_extractor.rs: the selection is read, and what the clipboard held is back.
SelectionBack == S!SelectionBack

\* text_extractor.rs: that anything it held is back.
ClipboardRestored == S!ClipboardRestored

\* The adapters, the system's bridge, the models' lists, the local server and
\* the services: an answer is whole, nobody else's and no refusal, a request is
\* answered whole and once, and what is listed resolves.
AnswersWhole ==
    /\ P!RefusalIsNoAnswer /\ B!OwnAnswer /\ L!WholeList
    /\ A!WholeRequests /\ R!ServicesResolve

\* The system's dictionary and the services' order: of a definition every word
\* is read once, and every service listed has one place.
NothingLost == D!NothingUnread /\ R!OnePlace

-----------------------------------------------------------------------------
(* What the runs take for messages, providers and what these offer.        *)

\* A text handled at once, a call, and an action whose length cannot be read.
MC_Messages ==
    {[route |-> "text", body |-> "good", length |-> "some"],
     [route |-> "call", body |-> "good", length |-> "some"],
     [route |-> "action", body |-> "good", length |-> "bad"]}

\* The providers of the first start, in the order of their names.
MC_Names == <<"ecdict", "google-web", "system">>

\* The types of the providers of the first start, and one of models.
MC_Offers == [type \in {"ecdict", "google-web", "system", "chat"} |->
    CASE type = "ecdict" -> {"dictionary"}
      [] type = "google-web" -> {"translation"}
      [] type = "system" -> {"translation", "dictionary", "ocr"}
      [] type = "chat" -> {"llm"}]
=============================================================================
