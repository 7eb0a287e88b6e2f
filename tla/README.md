# LinguaRay: verification of the desktop runtime and its Flutter client

TLA+ models of LinguaRay (a desktop translator: a Rust runtime used by a Flutter
application through UniFFI), the TLC runs that check them on small instances and
the TLAPS proofs of the results that hold for every instance. Paths below are
relative to the repository's `src/`; `rt/` stands for
`packages/runtime/rust/src/` and `app/` for `apps/desktop/flutter/lib/src/`.

1. [The system](#1-the-system)
2. [Modules and what they model](#2-modules-and-what-they-model)
3. [Runs, bounds and what they show](#3-runs-bounds-and-what-they-show)
4. [Fairness](#4-fairness)
5. [Proofs](#5-proofs)
6. [Where the code and its documentation disagree](#6-where-the-code-and-its-documentation-disagree)
7. [What is not modelled](#7-what-is-not-modelled)
8. [Plan](#8-plan)

## 1. The system

One process hosts a Rust runtime and one Dart isolate. The runtime owns all
durable data; the isolate owns the windows and a copy of the settings.

```
 windows, view models ── application layer (packages/application)
        │                        │
 SettingsStore (cache)   ProviderCredentialsController ── OS secret store
        │ calls, answers, SettingsChange events (UniFFI)
 ───────┼──────────────────────────────────────────────────────────────
 Runtime: RwLock<RuntimeState{settings, engine, provider_secrets}> ── settings.json
          RwLock<GlossaryStore> ── glossary/*.json    broadcast channel (64)
          RwLock<HistoryStore>  ── history.json       process-wide proxy policy
          RwLock<VocabularyStore> ── vocabulary.json  engine ── providers (HTTP)
```

### Components

| Component | State | Operations | Talks to |
|---|---|---|---|
| Settings transaction (`rt/runtime/settings_api.rs`, `rt/runtime.rs`, `rt/domain/engine.rs`) | settings, engine, hydrated credentials, `settings.json`, proxy policy of the process | section updates, providers, services, credentials, start, restore | all callers through the write lock; sends change events |
| Service registry (`rt/domain/settings/`, `rt/runtime/settings_api.rs`) | services, order and defaults inside the settings | list, update, delete, order, defaults, resolve | settings transaction |
| Service calls (`rt/runtime/translation_api.rs`) | none | translate, look up, detect, OCR | registry, engine, glossary |
| Backup (`rt/backup.rs`, `rt/runtime/backup_api.rs`) | staging and rollback directories | export, restore | takes the settings and library locks |
| Flutter settings cache (`app/app/settings/settings_store.dart`) | a copy per section | updates, reloads, the change loop | calls, answers, events |
| Settings effects (`app/app/settings/settings_effects.dart`) | what the system was last brought to | three sync loops | store, OS, runtime |
| Provider credentials (`app/platform/credentials/`) | the OS vault, references in the settings, values in the runtime | save, delete, hydrate one, hydrate all | vault, runtime, store |
| Glossary (`rt/domain/glossary.rs`) | books, files, compiled matchers, hit counters, pending set | edit, import, delete, match, count, flush | translations match and count |
| History (`rt/domain/history.rs`) | rows, `history.json` | upsert, favourite, delete, clear, list with pruning | the recorder, the library screen |
| Vocabulary (`rt/domain/vocabulary.rs`) | rows, `vocabulary.json` | as history, with notes, no retention | the library screen |
| Streaming translation (`rt/runtime/llm_api.rs`) | task flag, queue, three threads | start, next, cancel | provider, listener |
| Decoding of streams (`crates/engine/src/provider/llm/streaming.rs`) | the bytes and the record not yet complete | receive, decode a line, finish | provider, task |
| Quick translator view model (`app/features/translation/`) | query, run, session, records | edit, submit, compare, cancel, favourite | application layer, history |
| Provider adapters (`crates/engine/src/provider/`) | Bing's token, shared by its calls | translate, look up, detect, chat, stream, recognise | services over HTTP |
| Model lists (the same directory) | none | list, page by page or address by address; health | services over HTTP |
| System bridge, macOS dictionary (`.../system/macos.rs`) | the registry of pending requests | translate, detect, look up | native side, callback |
| Selection capture (`rt/domain/text_extractor.rs`) | what was put aside of the clipboard | extract a selection | clipboard, foreground application |
| Local API server (`rt/api_server.rs`) | a listener and its accept thread | start, stop, serve | clients; a bounded broadcast of actions |
| Update coordinator (`app/features/updates/`) | the operation under way, the downloaded file | check, download, install | GitHub, OS |
| Triggers, windows, shortcuts; screen capture and permissions; screens | window system state | user actions | view models |
| Engine construction, catalog, languages; glossary exchange and compliance | constants, none | pure conversions | providers |

### What is hard here

- **Transactions with several resources.** A settings change touches memory, a
  file, the engine and a process-wide proxy policy; every error path has to put
  back what the steps before it did.
- **Death between two steps.** A restore moves files in two halves; a save writes
  the vault before the settings. What the next start finds must make sense.
- **Interleaving flows of one isolate.** Every `await` lets another flow run:
  reloads answer in any order, results arrive for an older query, a deletion
  runs inside a save.
- **Memory ahead of disk.** The libraries change memory before they write. A
  failed write is reported to one caller and seen by all.
- **Caches and counters.** Compiled matchers must follow every edit; hits wait
  in memory for a flush that may fail half-way; the event buffer drops events.
- **Lost wake-ups and silent providers.** A cancellation races two waiters; a
  provider that never answers must not hold a thread for ever.
- **Answers from outside.** A service refuses with a good status in a form of its
  own; the network cuts a stream anywhere; a native answer comes after its
  waiter has gone; a foreground application copies late or never.
- **One owner, many askers.** The update and the settings effects run one operation
  at a time and let later requests join; what a joined request wanted must not be
  forgotten.
- **Clocks.** Retention is measured with a wall clock that users set.

### What makes each component correct

- Settings: the engine in use was built from the settings a reader sees, under
  the proxy in force; memory and file agree whenever the lock is free, unless a
  restore's way back failed; a credential never outlives its provider; transactions
  end.
- Cache: a copy never goes backwards; when everything was delivered it is
  current, or its event was dropped by the bounded channel.
- Credentials: the vault, the references and the runtime's values tell one
  story; a blank edit keeps the secret; deleting leaves nothing behind; the
  windows open whatever the vault does.
- Glossary: a match uses the terms of the moment; a term is unique in its book;
  what is not on disk is accounted for; a deleted book does not come back.
- History: what a user was told is kept stays until it is overdue or deleted.
- Streaming: pieces, one end, silence after a cancellation, no thread left.
- Decoder: how the network cut a stream makes no difference to what is heard.
- View model: results shown together answer one query; rows of one session
  translate one text into one target; a submission ends.
- Registry: what is listed resolves, unless the settings changed meanwhile.
- Adapters, lists, bridge, dictionary: an answer is whole, belongs to the request
  that gets it, and is no refusal.
- Selection: what is read is the selection, and what the clipboard held is back, or
  the clipboard is cleared where that could not be put aside.
- Backup: all targets change or none, and no content is without a copy.
- Server, effects, update: in the end the system is as the settings say; a stop
  comes back; only verified files are installed.

The hazards, each at its line, are listed in `PROJECT.json` with the properties that
cover them. Besides those there are smaller ones, kept here for later:

- `rt/runtime/backup_api.rs:53`: a restore keeps the credentials of a provider id
  whose type changed in the backup.
- `rt/runtime.rs:314`: the proxy is configured before the seed is saved at start
  (`StartFails` takes the step; no property is about a process without runtime).
- `rt/runtime/settings_api.rs:223`: `set_provider_secrets` stores values before a
  build that may fail, and reports the failure (`SetProviderSecrets` takes that;
  `ProviderCredentials` refuses before it stores).
- `rt/runtime/settings_api.rs:755`: external actions are dropped by a slow window.
- `app/features/translation/view_models/translation_view_model.dart:71` the
  catalog's defaults replace languages chosen while it loads; `:149` a window's
  request during the loading is dropped; `:311` the glossary's failure path
  clears the panel without the request check the success path has.
- `rt/domain/history.rs:245` an upsert whose row is already expired reports it saved
  and prunes it; `:275` a retried deletion after a failed write answers `Ok(0)`;
  `:305` a listing may prune and then fail to save.
- `rt/runtime/llm_api.rs:383`: the blocking loop polls the flag every 40 ms.

## 2. Modules and what they model

A module's header comment says what a step is and what is abstracted. Operators
named as mutants (`... ==` after a comment beginning "Mutant:") are not part of
any behaviour: each is a plausible slip in the code, used to see that the property
it belongs to would notice.

A component is a module with `Init`, `Next` and `Spec` of its own. Four modules put
components side by side for TLC: `MC_Windows`, `MC_Translation`, `MC_Library` and
`MC_Services`. Their components share no state, so they are explored one at a
time: the variable `part`, chosen in the initial state and never changed, says
which one moves, and the others rest in an initial state. What one takes from
another it takes as the other's property promises it: the credentials' flows read
a store's copy that is the last settings or older ones, which is what
`SettingsCache` shows of it; the view model takes a stream as pieces and one end,
which is what `TranslationTask` shows of it, and the task takes the provider's
answer as `StreamDecoder` shows it.

### SettingsCommit (and SettingsRegister, MC_SettingsCommit, SettingsCommitProofs)

| TLA+ | Code |
|---|---|
| `state`, `lock` | `RuntimeState` behind `RuntimeInner.state`, its write guard |
| `disk` | `settings.json`; `Absent` while a restore has moved it |
| `proxy` | the policy behind `configure_network_proxy` |
| `Begin` and the requests | `commit_settings` up to the rebuild test, and each caller's update closure |
| `Configure`, `Build` | `build_from_settings_with_secrets` |
| `SaveOk`, `SaveFails` | `Settings::save` by atomic replace, and its error path |
| `Evict`, `Install`, `Keep`, `RollBack` | `install_staged_backup`, the reload and the way back |
| `Swap`, `Announce` | the state's replacement, the unlock, `events.send` |
| `SetProviderSecrets` | `set_provider_secrets` |
| `Crash`, `Start`, `StartFails` | process death, `Runtime::new` |

The settings are reduced to what the engine and these properties tell apart: a
configuration per provider, the proxy policy and one default. A service belongs to
its provider's default; the other sections travel on `UpdateGeneral`. The exact
provider validation is the constant `Accepted`, a relation between configurations
and credentials.

`RollBack` is the way back of a failed restore as `backup.rs:55-71` and `286-303` have
it: the removal and the rename may fail, nobody is told, and the rollback directory
goes all the same. The file is then the archive's or gone while memory is unchanged.
`torn` remembers this until a save, a restore that succeeds or a start makes the two
agree again, and is what `Durable`, `MissingOnlyMidRestore` and the inductive invariant
except; it is a history variable no guard reads. What the settings share with the other
targets of a restore is in `BackupInstall`.

`SettingsRegister` is the abstract specification: one durable value changed in a
single step, its events sent once and in order, deaths losing events but never the
value, and a weaker promise while a restore is on trial: a trial that is undone goes back,
or leaves what it had reached, possibly nothing (`UndoTrial`), and says nothing. That is
all the code promises, since its way back ignores errors.

### SettingsCache (proved in WindowsProofs)

A section is the number of times it changed. `truth` is the runtime, `cache` the
store, `buffer` the broadcast receiver, `inbox` the answers under way. A call
executes in the runtime at one step and its answer reaches the isolate at a
later one; answers reach the isolate in execution order. Each screen command
(`Update`, `MakeDefault`, `ChangeService`, `Reorder`, `ChangeProvider`, `Restore`)
is a commit with the events it announces and the reload rounds the screen's code
runs afterwards. `ChangeProvider` has none when handing a saved provider its credentials
fails after the commit, so that only the announced change brings the copy up to date. `TakeChange` and `Reloads` are the loop of `_consumeChanges`.

### ProviderCredentials (proved in WindowsProofs)

Three flows step from await to await: `save` (check the draft, write the vault,
commit, read back, hydrate, reload), `del` (look, erase the vault, commit, reload)
and `load` (`hydrateAll`, at start and after a restore). Each runtime call is one
step: `SettingsCommit` looks inside it. `calm` and `smooth` record that a flow ran
undisturbed; the code has no compensation for failed flows, so what they leave is
only constrained by `NoGhost`. A value the runtime refuses is not stored here, although
`set_provider_secrets` stores it before a build that fails (`settings_api.rs:218-224`);
`SettingsCommit` has that.

### GlossaryStore (and GlossaryProofs)

One method under the store's lock is one step. Books are functions from ids;
`books` is memory, `files` the disk. `Commit` is the code's: memory, generation,
pending set, write. `Match` and `RecordHits` are two steps because a translation
matches under the read lock and counts later. `Flush` takes the pending set and
stops at the first failing write. A text is the set of terms it contains; how the
automaton resolves overlaps and word boundaries is left out.

### TranslationTask (and TranslationStream, TranslationProofs)

The bridge thread, the blocking loop, the translation thread and the listener,
with the two waits on the cancellation flag split as the code splits them:
register, then look. `TranslationStream` is the abstract specification: pieces,
one end, nothing after a cancellation.

### TranslationSession (proved in TranslationProofs)

The view model: each handler is one step, awaits stand between steps.
`Starts`, `Finishes`, `Completes` and `Done` follow `translate_text.dart` for the
service asked; `saving` holds history upserts under way, `toggle` the favourite
toggle. Translations into the run are made by the code's rule for the target;
detection and the provider's answer are chosen freely. A catalogue may be empty: no
service is selected then and nothing is submitted.

`rows` are the runtime's, in memory. An upsert or a toggle that fails may have changed
them before the file could not be written (`RecordFails`; `ToggleSets`, then
`ToggleFails`), and the history window edits, stars and deletes them (`Elsewhere`, one
row at a time). The view hears of neither and keeps the star it showed: `stale` is the
rows of which that is so, `edited` those whose text the user replaced. `HistoryOwned`
and `OneQueryPerSession` except these. Rows that a restored backup brings back are left
out.

### HistoryStore (proved in LibraryProofs)

Rows in memory and on disk, the clock (`SetClock` may set it forward or back), and
`promised`: what a user was told by the last command on a row that succeeded.
Listing prunes; so does loading. `Overdue` states what retention means and
`Expired` what the code computes, with its saturating subtraction.

### VocabularyStore (and VocabularyProofs)

As the history without a clock, and with the window that lists the book. The runtime
announces a change of the book and the settings store does nothing for it
(`settings_store.dart:177`), so the announcement does not occur here. The window reloads
when it is built, after its own commands that succeeded (`owed`, `Reload`), and for a
filter, a query or a retry (`Refresh`); of reloads only the newest counts. A reload reads
the book at one step (`Read`) and shows it at a later one (`Show`). `Upsert` is the quick
translator's, which tells the window nothing. `news` is the rows that others saved, or a
command that failed changed in memory, since the window read: `WindowCurrent` says that
the window is right about all others.

### BackupTargets, BackupInstall (and BackupProofs)

The `DATA_TARGETS` of the data directory as functions from their numbers, so that the
order of the code is the order of the numbers. One rename is one step: `Save`,
`Install`, `Fail`, then `Commit`, or `Remove`, `Back` and `Clean`, which ignore their
errors as the code does. `before` is what a target held; `torn` are those a way back
left, `left` what lies in directories of dead processes. A store's command between
restores rewrites its target; one that writes a book into a missing glossary folder
writes a part of it.

### StreamDecoder (proved in TranslationProofs)

The wire carries lines, each in two halves since the network cuts anywhere; a record
has one of six meanings. `Decode` is the reference: what the lines say when they are
decoded at once. The steps are `receive` and the decoder's: a push is decoded line
by line, and pieces are handed on only when the push is through.

### ServiceRegistry (proved in ServicesProofs)

Providers, their implicit and stored services, the order and the defaults. A change
of a service looks under the read lock (`checked`) and commits later; a call lists,
resolves and requires its provider under separate locks. Ids come from a small set, as
they come from the window. The order in force is what `retain` leaves of the stored one
(`Retained`), followed by the rest, each at the place its rank gives it (`Sorted`): as
many stand before it as are earlier by age, then by name.

### ProviderAdapters, ModelLists (proved in ServicesProofs)

An adapter is a row of a table: what a request must have, its exchanges in order, the
forms of refusal it looks for, and what it makes of a body without an answer. The steps
are the same for all: ask, send, read. A body without an answer either holds its frame
only (`half`: a list that is there and empty) or lacks it (`blank`). `missing` has what
the adapter makes of each: most take an empty list for an answer without parts and a
missing one for a broken body (`NoParts`), some refuse both (`Refused`), some take both
for an empty answer (`Empty`), and one indexes what is not there (`Indexed`).
`RefusalIsNoAnswer` asks that such an answer come from no other body. `cache` is the token of the Bing adapter, with a
lifetime and a clock. `ModelLists` has the three ways of listing: candidates of a base
one after the other, pages with a cursor, one request.

### SystemBridge, DictionaryParser (proved in ServicesProofs)

The bridge's registry, the wait with its limit and the callback, which holds the lock
from taking an entry to sending its answer. The dictionary's parser is a function from
a sequence of marks to sets of its positions, so that each word of the text can be
followed. A list of parts is a function on the positions of the marks they stand behind,
in whose order it is; the five ways to find sections are operators in the order the code
tries them.

### SelectionCapture (proved in ServicesProofs)

The extraction step by step against a foreground application that copies when it gets
to it, in one or two steps or never, and others who write to the clipboard. `machine`
is macOS or Windows: the first may deny access or fail to make the key press, the second
may fail to open or lock the clipboard for reading, after which it is still restored.

`PutAside` follows the two `.ok()` of `snapshot_clipboard_contents`: a text or an image
that cannot be got passes for nothing, without a warning, and `Restore` then clears the
clipboard; only a clipboard that cannot be opened makes a warning. `warned` is a warning
that was made; it goes out with a text, and an extraction that ends in an error drops it.
A restore that fails may have cleared the clipboard. `SelectionBack` therefore says, of an
extraction nothing disturbed, that the clipboard holds what it held, or is empty
because that could not be put aside.

### ApiServer (proved in ServicesProofs)

The application thread (`stop`, `wake`, `join`, `start`), one accept loop per start, the
listener's queue of `Backlog` connections, and a thread per connection that reads in parts.
A wake-up connection joins the queue or fails because it is full.

### SettingsEffects (proved in ServicesProofs)

The three loops with their flags: what was tried, what is due, what is awaited. `News` is
a change the store announces; a listener asks for a loop, which starts or is joined.
`EffectsFollow` is about moments at which nothing is due and nothing runs.

### UpdateCoordinator (proved in ServicesProofs)

`Run` and `End` are the reservation of `_run`; in between an operation steps from one
await to the next. Releases come out and files of the temporary directory are altered at
any time; the container may be disposed of with an operation under way.

## 3. Runs, bounds and what they show

| Run | States | Shows |
|---|---|---|
| `commit` | 255 k | The inductive invariant, the four safety properties, that transactions end, and that the transaction implements `SettingsRegister`, over commits, restores, ways back that fail, and deaths of two callers. |
| `commit_bare` | violation | `PersistedReferences` (section 6). |
| `windows` | 1.6 M | Vault, references and runtime agree and the windows open; copies never go back, and settled ones are current or their change was dropped. |
| `cache_general` | violation | `GeneralFresh` (section 6). |
| `glossary` | 940 k | Matches, uniqueness, durability and the hit accounting. |
| `glossary_pending`, `glossary_delete` | violations | `PendingComplete`, `DeletedOffDisk` (section 6). |
| `translation` | 159 k | Compared results answer one query, a shown star is its row's unless the row changed unseen, and submissions end; a stream has one end, a cancelled one falls silent, every thread ends; the decoder hears the same however the network cuts. |
| `library` | 2.7 M | Promised rows stay, in the history and in the book, whose window is right about what nobody else changed; a restore changes all targets or none and loses no content. |
| `backup_rollback` | violation | `RollbackCopyKept` (section 6). |
| `services` | 340 k | The nine small components of `MC_Services`. |
| `capture_restore` | violation | `ClipboardRestored` (section 6). |

Why the bounds are enough for the question asked:

- `commit`: two callers, since the lock admits one and the second is every other
  caller; two providers, so that one is deleted while another stays; one
  configuration and two credentials of which one is refused (a configuration
  without reference, which another credential lets build, is `commit_bare`'s);
  three proxies, one rejected; three archives to restore (`Archives`): a
  provider under another proxy, one under the rejected proxy, and the other provider. No bound on the length of a behaviour, and no symmetry,
  as liveness needs.
- `windows`, credentials: two providers (one may be hydrated while the other fails),
  two secrets (an old and a new one), four flows, enough for a save, a deletion and a
  restore of it with a death in between. Cache: two screens besides the loop, two
  commits, and a channel of 5 in place of 64. A restore announces the sections and
  the libraries at once; with one `Plain` section and one library that is four events,
  so two restores overflow the channel and one does not. Sections in `Plain` are
  written by their own update alone, so one stands for the three; the libraries'
  events only fill the channel, so one stands for three. Screens are symmetric: they
  occur in the cache, and the one liveness property is about the credentials.
- `glossary`: two books (a flush that fails at one loses the other), two entry ids
  and two terms (a term may move between entries), one pair (a book applies or not),
  counters saturating at 1, five commands. Matches and hits are not bounded by
  `MaxOps`. Books and entries are symmetric.
- `translation`: two texts, two languages, two services, three submissions and four user
  actions: enough to compare, leave, come back and toggle late. One task of two pieces;
  tasks share nothing. Three lines with a limit of four on what is buffered: a record
  over two lines and its blank, a piece before a failure in one push, a record too large.
- `library`: two rows, two contents, a retention of 1 on a clock of 0 .. 3, so that a
  row is fresh, at the limit, overdue and of the future; six commands of the history, four
  of the book. Three targets in place of four: the first is the settings, the last
  the glossary folder, the one between stands for the two files; four commands,
  restores and deaths.
- `services`: two clients, two ports, two starts and two changes, with a queue and a
  broadcast of one place; an extraction twice with one foreign write, on macOS and on
  Windows; two pending requests; every text of up to four of the eleven marks; two concurrent calls of
  each adapter, a token that lives 0 or 2 on a clock of 0 .. 1; two candidates or pages
  and two cursors; two commits around a call, off the Mac; two themes and two changes;
  an older, the running and a newer release, and two downloads. What nothing
  reads again is not kept: of a call that is over its end, of a closed connection what
  was read; a failing status, whose body is only quoted, comes with one kind of body.
  A service is checked only while the bound leaves room for its commit.

Deadlock is checked in `commit`. The other runs stop by their bounds, or because the
modelled task is over, and say `CHECK_DEADLOCK FALSE`.

The properties, by the question they ask:

- *Does an error path undo everything?* `EngineCurrent`, `Durable`, `AllOrNothing`.
- *Does a death leave something that can be loaded?* `MissingOnlyMidRestore`,
  `ImplementsRegister`, `RuntimeMatchesVault`, `PromisesKept`, `CopySurvives`.
- *Is what is shown the truth?* `SettledFresh`, `NeverBackwards`, `OneQuery`,
  `HistoryOwned`, `MatcherFresh`, `BookKept`.
- *Does a credential end up anywhere it should not, or get lost?*
  `CredentialsOwned`, `NoGhost`, `FlowsKeepWord`, `ReferenceKept`.
- *Is anything lost silently?* `HitsAccounted`, `PendingLive`, `TermsUnique`,
  `TermsDurable`, `EndIsSaid`, `AnswerHeard`, `ImplementsStream`, `NothingLost` (words
  of a dictionary entry, a translation service's place in the order).
- *Is an answer what it claims to be?* `AnswersWhole` (adapters, model lists, bridge,
  local server, the provider a call resolves to), `SelectionBack`, `UpdateVerified`.
- *Does the system follow?* `SystemAsWanted` (effects and server).
- *Does everything end?* `TransactionsEnd`, `EndsAtLast`, `StopReturns`,
  `WindowsOpenAtLast`.

## 4. Fairness

Safety is checked without fairness. Where liveness is, the assumption is the
weakest the code's scheduling justifies:

- `SettingsCommit`: each caller's own steps (`WF(CallerStep(c))`). A commit awaits nothing
  between taking the lock and releasing it. A restore awaits, under it, the locks of the
  three stores (`backup_api.rs:47-50`), whose holders never wait for this one, and those
  steps are not separate here. So a started transaction runs on.
  Requests, deaths and starts are not fair: nobody has to call.
- `ProviderCredentials`: the steps of the three flows, failures among them. An
  awaited call returns or throws; a user starts flows or does not.
- `TranslationTask`: the threads and the timer (`LoopTimesOut`, 40 ms) run; the
  *provider is not fair* and may stay silent for ever, and nobody has to cancel.
  `AllEnd` is therefore about what follows a cancellation or an end.
- `TranslationSession`: `WF(Translation)`. Language detection is cut off after three
  seconds (`translate_text.dart:48`), a request to a provider after 180
  (`crates/engine/src/common/transport.rs:47-49`), and its end is always said
  (`EndIsSaid`). History calls are not fair: a submission does not wait for them.
- `ApiServer`: the application thread's steps and each accept loop. Clients, providers
  and the settings are not fair. A wake-up connection may fail, but only on a full
  queue, whose connections wake the loop in its place.

## 5. Proofs

All proofs are checked by TLAPS with Z3, Zenon and LS4. Every theorem is about a
specification a run explores (or, for the modules of one component, about that
component's), and holds for every value of the constants that satisfies the named
assumptions. Those say:

- the null value is not a member of its set (`SettingsAssumption`,
  `CredentialsAssumption`, `GlossaryAssumption`, `SessionAssumption`,
  `BackupAssumption`, `NoTrialAssumption`, and `NoneAssumption`, by which no session's
  number and no query, run or submission is the null value);
- bounds are natural numbers, positive where a capacity or a page count is meant
  (`BoundsAssumption`, `TaskAssumption`, `CacheAssumption`, `HistoryAssumption`,
  `SessionAssumption`);
- the default settings build without credentials, since they hold no provider until
  the user adds one (`SettingsAssumption`); there is a target to restore and what a start
  seeds is a content (`BackupAssumption`); the cache's flows and its loop are different
  actors (`CacheAssumption`); a wake-up connection is not a client's (`WakeAssumption`);
- the requests to the system bridge are finitely many (`BoundsAssumption`), as those of a
  process are, and no line of a stream is the receiver's own error (`DecoderAssumption`);
- the providers that a first start makes have names and types (`NamesAssumption`); which
  others there are, and what a type offers, is any.

A specification that puts components side by side changes one of them and leaves the
variables of the others alone. Each proof module first states that (`BookSteps`,
`BackupSteps`, `UpdateSteps`, `BridgeSteps`, ...), and then argues about one component.

### The settings transaction: SettingsCommitProofs

`TypeCorrect`, `Inductive` (`Spec => []IInv`), and from it `EngineAlwaysCurrent`,
`SettingsDurable`, `SecretsOwned`, `FileMissingOnlyMidRestore`. The safety properties
speak of moments when the lock is free, so they are not inductive. `IInv` adds what is
true while it is held: the holder is the one caller inside a transaction (`LockInv`);
what it carries was computed from the state it still sees, and a rebuild has been
accepted by the time it is saved (`CallInv`); where proxy and file stand at each step,
and, unless a way back failed (`torn`), that the file or the copy a restore keeps is the
settings in memory (`ProgressInv`); the engine in memory is current even then (`EngineInv`). With these an
error path's `previous` is known to be the committed proxy, which is the heart of the
argument: `Fail` restores it.

`RegisterImplemented` is the refinement. The register's value is the file, its trial value
is the settings in memory while a restore has put others on disk, and what it owes is
what a caller past its save has yet to announce (`Trial`, `Owed`). The abstract commit
is the rename of `settings.json`; configuring and building stutter, and so does every
failure but that of a restore with its file moved, which is `UndoTrial`. Two
facts are needed beside `IInv`: what a transaction will announce is settled when it
begins, and a caller that is announcing has an event left (`EventsInv`).

### Windows: WindowsProofs

*Credentials* (`NoGhostEver`, `RuntimeFollowsVault`, `FlowsKeepTheirWord`,
`ReferencesKept`). A save, a deletion and a hydration interleave at every await, and a
failed one leaves what it has done. So the invariant speaks of flows that ran
undisturbed: for each step of a calm save or deletion it says what vault, settings and
runtime hold of its provider by then (`CalmSave`, `CalmDelete`), and, while nothing
went wrong at all, that a provider whose runtime value is not the vault's is one a flow
is at (`Busy`, `SmoothState`), and that what a hydration still has to load is as the
settings say. What the flow leaves behind when it ends is then the property.

*Cache* (`CopiesNeverGoBack`, `CacheSettlesFresh`). Along the answers on their way a
section only gets newer, and none is newer than the runtime or older than the copy
(`InboxInv`): an answer that is applied cannot take the copy back. A section the copy is
behind in is cared for: its change is in the receiver's buffer, a reload is planned or its
answer is under way, unless the change was dropped (`Cared`). When nothing is left to
do, what is cared for is fresh.

### Translations: TranslationProofs

*The task* (`EndIsSaidAlways`, `StreamImplemented`). `WorkInv` ties the bridge, the
blocking loop and the translation thread to each other and to the flag. `SaidInv` counts:
as long as the worker may still say an end, nobody has, and no more was said than was sent
(`Quiet`); after that one more thing at most, which is the end, unless a cancellation
kept it from being said (`Spoken`); an end is the last thing in the queue and, once
heard, the last thing heard (`Orderly`). From these every step of the threads is a step
of `TranslationStream` or a stutter, so the listener hears pieces and one end, and nothing
after a cancellation.

*The view model* (`OneQueryAlways`, `HistoryStaysOwned`). What a submission under way
carries was read before an await. `LiveInv` says that it is still the query, the session
and the target on display, since every handler that changes these ends the submission;
`SessionsInv` that sessions are numbered by submissions; `ClaimsInv` that all rows and
all records still being saved of one session claim the same text and target, and those
of the session on display the ones on display, rows that the user edited apart. The last is
what makes a late upsert harmless. A star shown is its row's because an upsert keeps a
row's star and a toggle shows what it set; between the two `Starred` says that what was
set is still so, or that the row was changed where the view is not told (`stale`).

*The decoder* (`AnswersHeard`). What a receiver hears is compared with a recursion over
all lines, `Decode`. It defines something for lines of any number because the numbers
for which a chain of steps exists have no least exception (`AllNumbers`, `Runs`); the same
argument shows that decoding a first part and then going on is decoding the whole
(`Joined`). `CutInv` says that while the task runs, the decoder stands where one stands
that got the lines received at once, and that the receiver has heard just what that one
would have sent. A push keeps this whatever it cuts, since it goes on from there; what
ends the task says an end, or an error after the pieces the decoder has.

### Libraries: GlossaryProofs, VocabularyProofs, BackupProofs, LibraryProofs

*Glossary* (`TypeCorrect`, `MatchesAreFresh`, `TermsStayUnique`, `TermsStayDurable`,
`PendingStaysLive`, `HitsStayAccounted`). The invariant says of the cache that *if its
generation is the store's, its matchers are those the books compile to now*, and that its
generation is never ahead; that is what the bump in `Commit` and `DeleteBook` preserves
and what makes a late write harmless. Uniqueness has to hold in memory **and** on disk,
since a restart brings the files back; the lemma `AppliedKeeps` carries it through
`apply_entry`. Hits change no term (`HitKeeps`), so matchers survive them. That hits off
the disk are accounted for is inductive beside this: memory departs from a file only in a
book that is pending, failed, or skipped by a flush.

*History* (`PromisesStayKept`, `HistoryDurable`). That a promised row is in memory is
not inductive, because a restart reads the file: the invariant says that a promised row
is in memory *and on disk*, as promised, and not overdue. A failed write withdraws the
promise of the command's own row and must leave all others on disk; it does since the
old file still has them. `ExpiredIsOverdue` shows that the saturating test is the right
one for rows dated in the future.

*Vocabulary* (`TypeCorrect`, `BookStaysKept`). The history's argument without a clock, and
with the window: what its newest reload has read is the book, but for the rows of `news`,
unless one of its own commands still owes a reload (`Listed`).

*Backup* (`RestoresAllOrNothing`, `CopiesSurvive`), for any number of targets. The
invariant gives each phase its shape: on the way forward a target behind the next step
has moved and one before it has not (`SaveInv`, `InstallInv`, `ReloadInv`); on the way
back it is still as it was, or its content is in the rollback directory and its place is
free, unless a step back failed for it (`RemoveInv`, `BackInv`, `CleanInv`). A failure at
any step of the first kind implies the second (`FailKeeps`), which is why the code needs
no record beside `installed_names`. `StoresInv` carries what the stores hold through it.

`LibraryProofs` has the history's invariant and states all of these, and the types
(`TypesStayCorrect`), of `LibrarySpec`.

### Services: ServicesProofs

- *Updates* (`UpdatesAreVerified`). While the application is there, what it shows is the
  operation under way (`UpdateStateInv`), so a check cannot meet a download; what that
  operation carries is a newer version, its file and, past the checksum, right bytes or
  bytes altered since (`UpdateOperationInv`).
- *Selection* (`SelectionComesBack`). `CalmInv` follows an extraction nobody else writes
  beside: up to the key press the clipboard is what it was; after it, that with its
  count, or what the application made of it; and what was put aside is what there was, or
  nothing but a cleared clipboard, unless a warning was made.
- *Effects and server* (`SystemIsAsWanted`). A wish the system does not carry is cared for
  by a loop that runs or is due, and a correction corrects what was refused
  (`EffectsInv`). No loop accepts but that of the server there is, its flag goes up only
  while it is being stopped, and while nothing is being stopped the server is as the
  setting asks or failed to start (`ServerInv`): a new start never meets an old loop.
- *Answers* (`AnswersStayWhole`), the five parts of `AnswersWhole`:
  - a request to the local server (`RequestsInductive`): a client is in one place of
    one listener's queue, nothing is answered before it is over, and a call, or any
    answer but a refusal, has the whole request behind it (`Sound`, `QueuesInv`);
  - a request to the system bridge (`BridgeInductive`, `AnswersAreOwn`): numbers are given
    once; a request is in the registry until it is answered or given up, and from then
    its answer is with the callback or in its own channel (`NumbersInv`,
    `RegistryInv`). A callback that comes twice, late or for a number never given
    finds no entry;
  - a model list (`ListInductive`, `ListsAreWhole`): while a traversal goes on, every
    page served was good and the models are theirs; while addresses are tried, none was
    there;
  - a call of an adapter (`CallsInductive`): while it goes on nothing bad was said, and
    its answer stands by the reply that decides, an answer without parts by one that lacks
    them (`InOrder`, `Stands`). The tables of
    adapters enter by `AdaptersRegular` alone, so an adapter added within those forms
    keeps the theorem;
  - a service call (`ServicesInductive`): stored services have their providers, and a
    call nobody disturbed is on its way to a provider that can do what it asks for.
- *Order of the services* (`PlacesInductive`, half of `NothingIsLost`). The stored order has
  no service twice: it is seeded so, appended to only what is missing, filtered, or
  replaced by an order in force (`OrderInv`). The order in force is one, and all of what is
  listed, because `Earlier` orders services totally: ranks are apart and fill an initial
  stretch of the numbers, so that `Sorted` gives each service one place.
- *Dictionary* (`DictionaryInductive`, the other half). Before each position there is a last
  mark, so splitting by a mark loses only the marks and gives parts in their order
  (`LastBefore`, `Splitting`). Each reading of a part (`Made`, `InlineRead`, `LettersRead`,
  `SectionsRead`) takes the parts whole, or leaves out words for which a letter, a
  numbered line or a note on forms says so; `BodyRead` joins the five ways, for texts of
  any length and marks of any kind.
- *Types* (`ServicesTyped`). Most follow from the invariants above. A bridge request's number
  is bounded because as many were given as requests entered (`CountInv`), and what the
  server's threads and listeners count by what there is to count.

### Only model-checked

- Liveness (`TransactionsEnd`, `EndsAtLast`, `StopReturns`, `WindowsOpenAtLast`), which
  needs enabledness and is outside what the prover does. Every other property of the
  passing runs is stated by a theorem.
- The violations of section 6, which are counterexamples.

## 6. Where the code and its documentation disagree

Each is a run whose property quotes the repository and which TLC violates.

1. **`PersistedReferences`** (`rt/runtime/settings_api.rs:549`). A provider saved without
   its secret reference keeps working with the value hydrated before, is saved, and
   fails to build at the next start. `rt/runtime.rs:141` says that the settings contain
   references instead of the values; here they contain neither. The Flutter adapter
   completes the reference (`ReferenceKept`), so this takes another client of the API.
2. **`GeneralFresh`** (`rt/runtime/settings_api.rs:669`). Creating and deleting a provider,
   and deleting a service, change the general section and announce `Providers` only;
   the store's general section stays stale although `settings_store.dart:30` says
   every change reloads the affected section.
3. **`PendingComplete`** (`rt/domain/glossary.rs:683`). `flush_hits` takes the pending set
   and returns at the first failing write: the books after it are forgotten, although
   `glossary.rs:209` says the set holds the books not yet written. `HitsAccounted`
   states what does hold: hits off disk belong to a pending book, a failed one, or one
   skipped this way.
4. **`DeletedOffDisk`** (`rt/domain/glossary.rs:354`). A deletion whose file removal fails has
   already dropped the book from memory; trying again answers `Ok(false)`, "did not
   exist", and the next start loads it again.

5. **`RollbackCopyKept`** (`rt/backup.rs:64`). On the way back a rename that fails is
   ignored and the rollback directory, with the only copy of that target, is removed.
   `docs/DATA_AND_NETWORK.md:6-8` says that a restore keeps a rollback copy until the
   new data has been installed. `CopySurvives` states what does hold.
6. **`ClipboardRestored`** (`rt/domain/text_extractor.rs:129`). Only texts and images are put
   aside; a clipboard that held files is cleared without a warning, although
   `rt/runtime/platform_api.rs:106` says that the clipboard is restored.

Behaviours the models take without a property of their own:

- A favourite toggle that answers after the session changed lands on the new session's
  record (`translation_view_model.dart:265`, `strayed`).
- An unreadable `history.json` counts as empty until the next write replaces it
  (`history.rs:122`, `LoadStartsEmpty`), favourites included, which `history.rs:5` says
  are kept.
- A restore whose way back fails leaves `settings.json` gone or the archive's while memory
  says otherwise, and only the caller hears of the restore's error (`backup.rs:55-71`,
  `SettingsCommit.RollBack`, `torn`).
- A toggle of a favourite whose write fails has starred the row in memory, and the star
  shown stays what it was (`history.rs:258`, `TranslationSession.ToggleFails`).
- A word the quick translator saves does not appear in an open vocabulary window until it
  reloads for another reason (`settings_store.dart:177`, `news`).
- A text or an image that cannot be read when the clipboard is put aside is lost without a
  warning (`text_extractor.rs:117-125`, `PutAside`).
- An adapter that finds an empty list, or no language, answers with an empty text
  (`NoParts`, `Empty`), e.g. `google_web.rs:87-91` and `baidu.rs:174-190`.
- A local server that cannot start makes `settingsEffects.start()` throw
  (`main.dart:36`), and `runApp` is never reached (`SettingsEffects`, phase `broken`).
- A default that names an implicit service of a deleted provider stays and is refused
  when it is used (`settings_api.rs:665`).
- After a death inside a restore nothing looks for the copies in the temporary directory
  (`backup.rs:265`); `CopySurvives` says that they are there.

## 7. What is not modelled

| Part | Why |
|---|---|
| Triggers, windows and shortcuts | Mostly calls of the window system, whose behaviour the source does not define. |
| Screen capture and permissions | Questions to the operating system; `SelectionCapture` has the one permission that decides about an extraction. |
| Engine construction and transport | One constructor and one configuration type per provider; `SettingsCommit` has what is accepted or refused, and the proxy's policy. |
| Catalog and languages | Constant tables and pure lookups. |
| Glossary exchange and compliance | CSV and TBX conversion and text scanning, covered by the repository's own tests. |
| Screens, localisation, generated bindings | Layout and glue; the cache models what the bindings' call and answer do. |

Within modelled components, left out: the contents of settings sections and
services; how terms are found in a text; the order and filters of listings; the
glossary panel, speech, window placement and selection replacement of the quick
translator; the calls of the LLM API that keep no state (chat, polish, explain);
addresses, signatures, prompts and language codes of the adapters; headers and JSON of
the local server; a stored order of services that is no reordering of the one in force
(`set_translation_service_order` stores any list, and the application's window sends only
reorderings); the microtask between an update's result and the end of its reservation
(`UpdateCoordinator.End`); the archive's format and its checks of names and sizes; the
signatures of releases, which are a verdict.

## 8. Plan

The core came first because everything else is built on the settings transaction and
on the stores; then the backup, the registry, what stands between a call and a
service, and the desktop's coordinators. What is left, in this order:

1. The glossary panel of the quick translator, with the request check only one of its
   two paths has, and the composition of `TranslationSession` with `HistoryStore`
   through the recorder.
2. A run for the favourites that an unreadable history loses, and one for a local
   server that keeps the windows from opening; the behaviours are modelled.
3. Liveness of the cache (a section changed is seen, with fair delivery) and of the
   effects (what is due is applied).
4. `BackupInstall` composed with `SettingsCommit`, whose `Evict` and `Install` are one
   target of its targets.
5. A common specification of a library file that history and vocabulary both implement.

Runs are kept few: components that ask the same question of small instances share a
run, one part at a time.

Proofs to add with them: the composition of a restore with the settings transaction, and
that history and vocabulary implement the common specification.
