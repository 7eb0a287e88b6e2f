--------------------------- MODULE SettingsCache ---------------------------
(***************************************************************************)
(* The Flutter settings cache over the runtime's settings.                 *)
(*                                                                         *)
(* SettingsStore keeps a copy of each settings section.  A copy is replaced *)
(* by the answer of an update, by the reloads a screen runs after its own  *)
(* command, and by the reloads a consumer loop runs for every change the   *)
(* runtime broadcasts.  A call into the runtime executes on its own and its *)
(* answer is a message to the one Dart isolate; messages arrive in the     *)
(* order the calls executed.  The broadcast buffer is bounded: a receiver  *)
(* that falls behind loses the oldest changes.                             *)
(*                                                                         *)
(* A section is abstracted to the number of times it has changed.          *)
(***************************************************************************)
EXTENDS Naturals, Sequences, SequencesExt

CONSTANTS
    Screens,      \* UI flows that may be running a command
    Consumer,     \* the loop over SettingsSubscription.next
    Plain,        \* sections with an update of their own and no other writer:
                  \* some of "appearance", "shortcuts" and "advanced"
    Library,      \* changes of the libraries, which the store ignores: some of
                  \* "glossary", "history" and "vocabulary"
    Capacity,     \* EVENT_CHANNEL_CAPACITY
    MaxCommits    \* bound on the commits of a behaviour

Sections == Plain \cup {"general", "providers", "services"}
Changes == Plain \cup Library \cup {"general", "providers"}

Tasks == Screens \cup {Consumer}

VARIABLES
    truth,      \* the runtime's settings, a change count per section
    cache,      \* the store's copy of each section
    buffer,     \* changes broadcast and not yet received
    missed,     \* sections whose change was dropped and that were not read since
    inbox,      \* answers on their way to the isolate, in execution order
    task,       \* what each flow still has to do
    commits     \* commits so far

vars == <<truth, cache, buffer, missed, inbox, task, commits>>

\* due:  answers awaited;  todo: reads issued and not yet executed;
\* plan: the reload rounds that follow, each a Future.wait of its reads.
NoTask == [due |-> {}, todo |-> <<>>, plan |-> <<>>]

Idle(t) == task[t] = NoTask

TypeOK ==
    /\ truth \in [Sections -> Nat]
    /\ cache \in [Sections -> Nat]
    /\ buffer \in Seq(Changes) /\ Len(buffer) <= Capacity
    /\ missed \subseteq Sections
    /\ inbox \in Seq([to : Tasks, section : Sections \cup {"none"}, value : Nat])
    /\ task \in [Tasks -> [due : SUBSET (Sections \cup {"none"}),
                           todo : Seq(Sections),
                           plan : Seq(Seq(Sections))]]
    /\ commits \in 0 .. MaxCommits

\* After init(): every section was loaded and the subscription is open; the
\* first command comes from a window built later.
Init ==
    /\ truth = [s \in Sections |-> 0]
    /\ cache = [s \in Sections |-> 0]
    /\ buffer = <<>>
    /\ missed = {}
    /\ inbox = <<>>
    /\ task = [t \in Tasks |-> NoTask]
    /\ commits = 0

-----------------------------------------------------------------------------
(* What a change makes the consumer reload.                                *)

\* Mutant: a providers change reloads the providers only.
ReloadsNarrow(change) == IF change \in Sections THEN <<change>> ELSE <<>>

Reloads(change) ==
    CASE change = "providers" -> <<"providers", "services">>
      [] change \in Plain \cup {"general"} -> <<change>>
      [] OTHER -> <<>>

-----------------------------------------------------------------------------
(* A commit in the runtime, seen from a screen: the sections it changes,   *)
(* the changes it broadcasts, the section its answer carries (or none) and *)
(* the reloads the screen runs once it has the answer.                     *)

\* Mutant: the channel is unbounded.
BroadcastUnbounded(changes) == buffer' = buffer \o changes /\ UNCHANGED missed

\* broadcast::Sender::send keeps the newest Capacity changes for a receiver.
Broadcast(changes) ==
    LET all     == buffer \o changes
        dropped == IF Len(all) > Capacity THEN Len(all) - Capacity ELSE 0
    IN  /\ buffer' = SubSeq(all, dropped + 1, Len(all))
        /\ missed' = missed \cup UNION {ToSet(Reloads(all[i])) : i \in 1 .. dropped}

Commit(t, changed, changes, answer, plan) ==
    /\ Idle(t)
    /\ commits < MaxCommits
    /\ commits' = commits + 1
    /\ truth' = [s \in Sections |-> IF s \in changed THEN truth[s] + 1 ELSE truth[s]]
    /\ Broadcast(changes)
    /\ inbox' = Append(inbox, [to |-> t, section |-> answer,
                    value |-> IF answer = "none" THEN 0 ELSE truth'[answer]])
    /\ task' = [task EXCEPT ![t] = [due |-> {answer}, todo |-> <<>>, plan |-> plan]]
    /\ UNCHANGED cache

\* updateGeneral/Appearance/Shortcuts/Advanced: the answer becomes the copy.
Update(t) ==
    \E s \in Plain \cup {"general"} : Commit(t, {s}, <<s>>, s, <<>>)

ServicesScreen == <<"general", "services", "providers">>

\* Naming a default service, then the services screen reloads.
MakeDefault(t) == Commit(t, {"general"}, <<"general">>, "general", <<ServicesScreen>>)

\* saveService, setServiceEnabled and deleteService: a new or deleted service
\* also changes the stored order or a default, hence the general section.
ChangeService(t) ==
    \E touched \in SUBSET {"general"} :
        Commit(t, {"services"} \cup touched, <<"providers">>, "none",
               <<<<"services">>, ServicesScreen>>)

\* setTranslationServiceOrder changes the order services are listed in.
Reorder(t) ==
    Commit(t, {"general", "services"}, <<"general">>, "none",
           <<<<"general", "services">>, ServicesScreen>>)

\* saveProvider and deleteProvider: creating a provider appends to the order,
\* deleting one drops its services from the order and clears defaults.  The screen
\* reloads unless handing a saved provider its credentials fails first.
ChangeProvider(t) ==
    \E touched \in SUBSET {"general"},
       plan \in {<<<<"providers", "services">>, <<"providers">>>>, <<>>} :
        Commit(t, {"providers", "services"} \cup touched, <<"providers">>, "none", plan)

\* Of the section or library named, what this instance has.
Had(name) == IF name \in Sections \cup Library THEN <<name>> ELSE <<>>

RestoreChanges ==
    <<"general">> \o Had("appearance") \o Had("shortcuts") \o Had("advanced")
    \o <<"providers">> \o Had("glossary") \o Had("history") \o Had("vocabulary")

RestoreReloads ==
    Had("appearance") \o <<"general">> \o Had("shortcuts") \o Had("advanced")
    \o <<"providers", "services">>

\* Mutant: the restore announces nothing, trusting the screen to reload.
RestoreQuietly(t) ==
    \E plan \in {<<RestoreReloads>>, <<>>} : Commit(t, Sections, <<>>, "none", plan)

\* Restoring a backup replaces everything; the screen reloads every section
\* unless hydrating the credentials fails first.
Restore(t) ==
    \E plan \in {<<RestoreReloads>>, <<>>} :
        Commit(t, Sections, RestoreChanges, "none", plan)

\* The libraries share the broadcast channel.
LibraryChange ==
    /\ commits < MaxCommits
    /\ commits' = commits + 1
    /\ \E change \in Library : Broadcast(<<change>>)
    /\ UNCHANGED <<truth, cache, inbox, task>>

-----------------------------------------------------------------------------
(* Reads, answers and the consumer loop.                                   *)

\* Mutant: a reload publishes the snapshot held when its call was made.
ReadOwnCopy(t) ==
    /\ task[t].todo # <<>>
    /\ LET s == Head(task[t].todo)
       IN  /\ inbox' = Append(inbox, [to |-> t, section |-> s, value |-> cache[s]])
           /\ missed' = missed \ {s}
           /\ task' = [task EXCEPT ![t].todo = Tail(@), ![t].due = @ \cup {s}]
    /\ UNCHANGED <<truth, cache, buffer, commits>>

\* An issued reload executes in the runtime; reads of one round queue for the
\* state lock in the order they were issued.
Read(t) ==
    /\ task[t].todo # <<>>
    /\ LET s == Head(task[t].todo)
       IN  /\ inbox' = Append(inbox, [to |-> t, section |-> s, value |-> truth[s]])
           /\ missed' = missed \ {s}
           /\ task' = [task EXCEPT ![t].todo = Tail(@), ![t].due = @ \cup {s}]
    /\ UNCHANGED <<truth, cache, buffer, commits>>

\* The isolate handles the next answer; when it was the last of its round the
\* next round of reloads is issued.
Deliver ==
    /\ inbox # <<>>
    /\ LET m    == Head(inbox)
           left == task[m.to].due \ {m.section}
           over == left = {} /\ task[m.to].todo = <<>>
       IN  /\ cache' = IF m.section = "none" THEN cache
                       ELSE [cache EXCEPT ![m.section] = m.value]
           /\ task' = [task EXCEPT ![m.to] =
                  IF over /\ @.plan # <<>>
                  THEN [due |-> {}, todo |-> Head(@.plan), plan |-> Tail(@.plan)]
                  ELSE [@ EXCEPT !.due = left]]
    /\ inbox' = Tail(inbox)
    /\ UNCHANGED <<truth, buffer, missed, commits>>

\* subscription.next() takes a change; its answer starts the reloads.
TakeChange ==
    /\ Idle(Consumer)
    /\ buffer # <<>>
    /\ buffer' = Tail(buffer)
    /\ inbox' = Append(inbox, [to |-> Consumer, section |-> "none", value |-> 0])
    /\ task' = [task EXCEPT ![Consumer] =
            [due |-> {"none"}, todo |-> <<>>,
             plan |-> IF Reloads(Head(buffer)) = <<>> THEN <<>>
                      ELSE <<Reloads(Head(buffer))>>]]
    /\ UNCHANGED <<truth, cache, missed, commits>>

Next ==
    \/ \E t \in Screens :
          \/ Update(t) \/ MakeDefault(t) \/ ChangeService(t) \/ Reorder(t)
          \/ ChangeProvider(t) \/ Restore(t)
    \/ LibraryChange
    \/ \E t \in Tasks : Read(t)
    \/ Deliver
    \/ TakeChange

Spec == Init /\ [][Next]_vars

-----------------------------------------------------------------------------
Settled == inbox = <<>> /\ buffer = <<>> /\ \A t \in Tasks : Idle(t)

\* Once every message is handled, the store shows the runtime's settings,
\* except for a section whose last change the bounded channel dropped.  The
\* general section is left to GeneralFresh.
SettledFresh ==
    Settled => \A s \in Sections \ {"general"} : cache[s] = truth[s] \/ s \in missed

\* A copy never goes back to an older state of its section, whatever the
\* interleaving of answers, screens' reloads and the consumer's reloads.
NeverBackwards == [][\A s \in Sections : cache'[s] >= cache[s]]_vars

\* settings_store.dart:30-34: "every change made through any Runtime handle
\* (Dart or Swift) triggers a reload of the affected section so this store
\* always reflects the latest persisted state".
GeneralFresh == Settled => cache["general"] = truth["general"] \/ "general" \in missed
=============================================================================
