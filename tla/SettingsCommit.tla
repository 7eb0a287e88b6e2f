--------------------------- MODULE SettingsCommit ---------------------------
(***************************************************************************)
(* The settings transaction of the Rust runtime.                           *)
(*                                                                         *)
(* RuntimeInner keeps one RuntimeState (settings, engine, credentials)     *)
(* behind a write lock, one settings.json on disk, and one process-wide    *)
(* proxy policy in the engine crate.  Every setting changes through        *)
(* commit_settings: clone, update the clone, rebuild the engine when a     *)
(* provider or the proxy changed, save, swap, unlock, broadcast.  Restoring *)
(* a backup follows the same path with its own install step.  Several      *)
(* callers run at once, every step may fail, and the process may die       *)
(* between any two steps.                                                  *)
(***************************************************************************)
EXTENDS Naturals, Sequences

CONSTANTS
    Callers,        \* concurrent callers of the runtime (UI windows, API threads)
    Providers,      \* provider ids
    Configs,        \* persisted provider configurations
    Secrets,        \* credential values hydrated from the OS vault
    Proxies,        \* proxy policies a settings record can hold
    BadProxies,     \* those configure_network_proxy rejects
    SystemProxy,    \* the process default, before any runtime is built
    Accepted,       \* <<config, secret>> pairs build_provider accepts
    FreshSettings,  \* Settings::default() after apply_catalog_seed
    Archives,       \* the settings inside the backups that can be restored
    NoConfig, NoSecret, NoDefault, Nobody, Absent

Settings == [providers : [Providers -> Configs \cup {NoConfig}],
             proxy     : Proxies,
             default   : Providers \cup {NoDefault}]

Credentials == [Providers -> Secrets \cup {NoSecret}]

Client == (Configs \X (Secrets \cup {NoSecret})) \cup {NoConfig}

Engines == [proxy : Proxies, clients : [Providers -> Client]]

NoCredentials == [p \in Providers |-> NoSecret]

\* build_from_settings_with_secrets accepts the provider map: every provider
\* decodes and validates with the credentials merged into its fields.
ProvidersBuild(s, secrets) ==
    \A p \in Providers :
        s.providers[p] # NoConfig => <<s.providers[p], secrets[p]>> \in Accepted

Builds(s, secrets) == s.proxy \notin BadProxies /\ ProvidersBuild(s, secrets)

\* The engine built from a settings record: its HTTP clients are created under
\* the proxy in force at that moment and carry the merged configuration.
EngineOf(s, secrets) ==
    [proxy   |-> s.proxy,
     clients |-> [p \in Providers |->
                    IF s.providers[p] = NoConfig THEN NoConfig
                    ELSE <<s.providers[p], secrets[p]>>]]

\* Mutant: the credentials of a deleted provider stay behind.
RetainedAll(secrets, s) == secrets

\* Credentials are kept only for the providers that survive the update.
Retained(secrets, s) ==
    [p \in Providers |-> IF s.providers[p] = NoConfig THEN NoSecret ELSE secrets[p]]

ASSUME SettingsAssumption ==
    /\ SystemProxy \in Proxies \ BadProxies
    /\ BadProxies \subseteq Proxies
    /\ NoConfig \notin Configs
    /\ NoConfig \notin Configs \X (Secrets \cup {NoSecret})
    /\ NoSecret \notin Secrets
    /\ NoDefault \notin Providers
    /\ Nobody \notin Callers
    /\ Absent \notin Settings
    /\ FreshSettings \in Settings
    /\ Archives \subseteq Settings
    /\ Builds(FreshSettings, NoCredentials)

-----------------------------------------------------------------------------
VARIABLES
    up,       \* the RuntimeInner exists in this process
    state,    \* RuntimeState: settings, engine, credentials
    disk,     \* settings.json, or Absent while a restore has moved it away
    torn,     \* history: a restore's way back failed, and nothing was saved since
    proxy,    \* the process-wide proxy policy of the engine crate
    lock,     \* holder of the state write lock
    pc,       \* what each caller is doing
    call      \* the transaction each caller is carrying

vars == <<up, state, disk, torn, proxy, lock, pc, call>>

Steps == {"idle", "configure", "build", "save", "evict", "install", "reload",
          "swap", "announce"}

Sections == {"general", "advanced", "providers"}

\* The events restore_staged sends, in its order; sections whose payload is
\* outside this module are left out.
RestoreEvents == <<"general", "advanced", "providers">>

\* A caller with no transaction; the fields hold defaults.
NoCall == [next |-> FreshSettings, secrets |-> NoCredentials, rebuild |-> FALSE,
           restore |-> FALSE, previous |-> SystemProxy, saved |-> Absent, events |-> <<>>]

Calls == [next : Settings, secrets : Credentials, rebuild : BOOLEAN,
          restore : BOOLEAN, previous : Proxies, saved : Settings \cup {Absent},
          events : Seq(Sections)]

States == [settings : Settings, engine : Engines, secrets : Credentials]

StateFrom(s, secrets) ==
    [settings |-> s, engine |-> EngineOf(s, secrets), secrets |-> secrets]

TypeOK ==
    /\ up \in BOOLEAN
    /\ state \in States
    /\ disk \in Settings \cup {Absent}
    /\ torn \in BOOLEAN
    /\ proxy \in Proxies
    /\ lock \in Callers \cup {Nobody}
    /\ pc \in [Callers -> Steps]
    /\ call \in [Callers -> Calls]

\* First launch: no settings.json, the catalog seed is saved before the
\* runtime is handed out.
Init ==
    /\ up = TRUE
    /\ state = StateFrom(FreshSettings, NoCredentials)
    /\ disk = FreshSettings
    /\ torn = FALSE
    /\ proxy = FreshSettings.proxy
    /\ lock = Nobody
    /\ pc = [c \in Callers |-> "idle"]
    /\ call = [c \in Callers |-> NoCall]

-----------------------------------------------------------------------------
(* commit_settings, up to and including the test for an engine rebuild. *)

Goto(c, step) == pc' = [pc EXCEPT ![c] = step]

Begin(c, next, events, restore) ==
    LET rebuild == \/ restore
                   \/ next.providers # state.settings.providers
                   \/ next.proxy # state.settings.proxy
    IN  /\ up
        /\ pc[c] = "idle"
        /\ lock = Nobody
        /\ lock' = c
        /\ call' = [call EXCEPT ![c] =
                [next     |-> next,
                 secrets  |-> IF rebuild THEN Retained(state.secrets, next)
                              ELSE state.secrets,
                 rebuild  |-> rebuild,
                 restore  |-> restore,
                 previous |-> proxy,
                 saved    |-> Absent,
                 events   |-> events]]
        /\ Goto(c, IF rebuild THEN "configure" ELSE "save")
        /\ UNCHANGED <<up, state, disk, torn, proxy>>

\* update_general; the sections that neither the engine nor this module knows
\* (appearance, shortcuts, the service order) are written by the same path.
UpdateGeneral(c) ==
    \E d \in Providers \cup {NoDefault} :
        Begin(c, [state.settings EXCEPT !.default = d], <<"general">>, FALSE)

UpdateAdvanced(c) ==
    \E x \in Proxies :
        Begin(c, [state.settings EXCEPT !.proxy = x], <<"advanced">>, FALSE)

UpdateProvider(c) ==
    \E p \in Providers, k \in Configs :
        Begin(c, [state.settings EXCEPT !.providers[p] = k], <<"providers">>, FALSE)

\* Deleting a provider also clears a default that named one of its services,
\* yet announces the providers section only.
DeleteProvider(c) ==
    \E p \in Providers :
        Begin(c, [state.settings EXCEPT !.providers[p] = NoConfig,
                                        !.default = IF @ = p THEN NoDefault ELSE @],
              <<"providers">>, FALSE)

\* update_service: a service of a provider there is.  Services are not part of
\* this module's settings, so the update changes the file's other contents only.
UpdateService(c) ==
    /\ \E p \in Providers : state.settings.providers[p] # NoConfig
    /\ Begin(c, state.settings, <<"providers">>, FALSE)

\* delete_service, which clears the default when it named that service.
DeleteService(c) ==
    \E d \in {state.settings.default, NoDefault} :
        Begin(c, [state.settings EXCEPT !.default = d], <<"providers">>, FALSE)

\* restore_staged: the archive is already staged and parsed; the locks are
\* taken, credentials of surviving providers are kept.
BeginRestore(c) ==
    \E next \in Archives : Begin(c, next, RestoreEvents, TRUE)

\* An early return with an error: the lock is dropped, nothing is announced.
Fail(c) ==
    /\ lock' = Nobody
    /\ Goto(c, "idle")
    /\ call' = [call EXCEPT ![c] = NoCall]

\* configure_network_proxy inside the engine build.
Configure(c) ==
    /\ pc[c] = "configure"
    /\ IF call[c].next.proxy \in BadProxies
       THEN Fail(c) /\ UNCHANGED proxy
       ELSE /\ proxy' = call[c].next.proxy
            /\ Goto(c, "build")
            /\ UNCHANGED <<lock, call>>
    /\ UNCHANGED <<up, state, disk, torn>>

\* The provider map of the build; a rejected provider puts the proxy back.
Build(c) ==
    /\ pc[c] = "build"
    /\ IF ProvidersBuild(call[c].next, call[c].secrets)
       THEN /\ Goto(c, IF call[c].restore THEN "evict" ELSE "save")
            /\ UNCHANGED <<lock, call, proxy>>
       ELSE Fail(c) /\ proxy' = call[c].previous
    /\ UNCHANGED <<up, state, disk, torn>>

\* Settings::save replaces the file atomically.
SaveOk(c) ==
    /\ pc[c] = "save"
    /\ disk' = call[c].next
    /\ torn' = FALSE
    /\ Goto(c, "swap")
    /\ UNCHANGED <<up, state, proxy, lock, call>>

\* Mutants: the failed save leaves the new proxy in force; its error is ignored;
\* it fails after the file was already replaced.
SaveFailsKeepsProxy(c) ==
    /\ pc[c] = "save"
    /\ Fail(c)
    /\ UNCHANGED <<up, state, disk, torn, proxy>>

SaveErrorIgnored(c) ==
    /\ pc[c] = "save"
    /\ Goto(c, "swap")
    /\ UNCHANGED <<up, state, disk, torn, proxy, lock, call>>

SaveFailsTooLate(c) ==
    /\ pc[c] = "save"
    /\ Fail(c)
    /\ disk' = call[c].next
    /\ proxy' = IF call[c].rebuild THEN call[c].previous ELSE proxy
    /\ UNCHANGED <<up, state, torn>>

\* A failed save leaves the committed file and puts the proxy back when the
\* engine had been rebuilt.
SaveFails(c) ==
    /\ pc[c] = "save"
    /\ Fail(c)
    /\ proxy' = IF call[c].rebuild THEN call[c].previous ELSE proxy
    /\ UNCHANGED <<up, state, disk, torn>>

\* install_staged_backup: the live file, when there is one, moves to the
\* rollback directory ...
Evict(c) ==
    /\ pc[c] = "evict"
    /\ disk' = Absent
    /\ call' = [call EXCEPT ![c].saved = disk]
    /\ Goto(c, "install")
    /\ UNCHANGED <<up, state, torn, proxy, lock>>

\* ... and the staged file moves in.
Install(c) ==
    /\ pc[c] = "install"
    /\ disk' = call[c].next
    /\ Goto(c, "reload")
    /\ UNCHANGED <<up, state, torn, proxy, lock, call>>

\* The installed stores load and the install is committed.
Keep(c) ==
    /\ pc[c] = "reload"
    /\ torn' = FALSE
    /\ Goto(c, "swap")
    /\ UNCHANGED <<up, state, disk, proxy, lock, call>>

\* Mutant: the rollback forgets the settings file.
RollBackForgets(c) ==
    /\ pc[c] \in {"evict", "install", "reload"}
    /\ Fail(c)
    /\ proxy' = call[c].previous
    /\ UNCHANGED <<up, state, disk, torn>>

\* Moving a file, or reloading the installed glossary, fails: the installed
\* file is removed, the saved one moves back and the proxy is restored.  The
\* removal and the rename may themselves fail, which nobody is told: the
\* rollback directory is deleted all the same, and the file is the archive's
\* or gone.
RollBack(c) ==
    /\ pc[c] \in {"evict", "install", "reload"}
    /\ \/ pc[c] = "evict" /\ UNCHANGED <<disk, torn>>
       \/ /\ pc[c] # "evict"
          /\ call[c].saved # Absent
          /\ disk' = call[c].saved
          /\ UNCHANGED torn
       \/ /\ pc[c] # "evict"
          /\ disk' \in {disk, Absent}
          /\ torn' = TRUE
    /\ Fail(c)
    /\ proxy' = call[c].previous
    /\ UNCHANGED <<up, state>>

\* Mutant: the lock is kept while the events are sent, and after.
SwapHoldsLock(c) ==
    /\ pc[c] = "swap"
    /\ state' = IF call[c].rebuild
                THEN StateFrom(call[c].next, call[c].secrets)
                ELSE [state EXCEPT !.settings = call[c].next]
    /\ call' = [call EXCEPT ![c] = [NoCall EXCEPT !.events = call[c].events]]
    /\ Goto(c, "announce")
    /\ UNCHANGED <<up, disk, torn, proxy, lock>>

\* The in-memory state is replaced and the lock released.
Swap(c) ==
    /\ pc[c] = "swap"
    /\ state' = IF call[c].rebuild
                THEN StateFrom(call[c].next, call[c].secrets)
                ELSE [state EXCEPT !.settings = call[c].next]
    /\ lock' = Nobody
    /\ call' = [call EXCEPT ![c] = [NoCall EXCEPT !.events = call[c].events]]
    /\ Goto(c, "announce")
    /\ UNCHANGED <<up, disk, torn, proxy>>

\* events.send, one section at a time, after the lock is gone.
Sent(t) == IF Len(t.events) <= 1 THEN NoCall ELSE [t EXCEPT !.events = Tail(@)]

Announce(c) ==
    /\ pc[c] = "announce"
    /\ call' = [call EXCEPT ![c] = Sent(call[c])]
    /\ Goto(c, IF Len(call[c].events) <= 1 THEN "idle" ELSE "announce")
    /\ UNCHANGED <<up, state, disk, torn, proxy, lock>>

-----------------------------------------------------------------------------
\* Mutant: the engine is replaced although the credentials were rejected.
SetProviderSecretsUnchecked ==
    \E p \in Providers, x \in Secrets \cup {NoSecret} :
        LET secrets == [state.secrets EXCEPT ![p] = x]
        IN  /\ up
            /\ lock = Nobody
            /\ state.settings.providers[p] # NoConfig
            /\ state' = [state EXCEPT !.secrets = secrets,
                                      !.engine = EngineOf(state.settings, secrets)]
            /\ UNCHANGED <<up, disk, torn, proxy, lock, pc, call>>

\* set_provider_secrets: the credentials are stored before the rebuild that
\* may reject them; the engine is replaced only when the rebuild succeeds.
SetProviderSecrets ==
    \E p \in Providers, x \in Secrets \cup {NoSecret} :
        LET secrets == [state.secrets EXCEPT ![p] = x]
        IN  /\ up
            /\ lock = Nobody
            /\ state.settings.providers[p] # NoConfig
            /\ state' = [state EXCEPT
                    !.secrets = secrets,
                    !.engine = IF Builds(state.settings, secrets)
                               THEN EngineOf(state.settings, secrets) ELSE @]
            /\ UNCHANGED <<up, disk, torn, proxy, lock, pc, call>>

\* The process dies at any point; memory, locks and calls are gone.
Crash ==
    /\ up
    /\ up' = FALSE
    /\ torn' = FALSE
    /\ state' = StateFrom(FreshSettings, NoCredentials)
    /\ proxy' = SystemProxy
    /\ lock' = Nobody
    /\ pc' = [c \in Callers |-> "idle"]
    /\ call' = [c \in Callers |-> NoCall]
    /\ UNCHANGED disk

\* Runtime::new: load settings.json (defaults when it is missing), seed, build
\* the engine with no credentials, save a new seed.  A build error leaves the
\* application without a runtime.
Loaded == IF disk = Absent THEN FreshSettings ELSE disk

Start ==
    /\ ~up
    /\ Builds(Loaded, NoCredentials)
    /\ up' = TRUE
    /\ state' = StateFrom(Loaded, NoCredentials)
    /\ disk' = Loaded
    /\ torn' = FALSE
    /\ proxy' = Loaded.proxy
    /\ UNCHANGED <<lock, pc, call>>

\* The engine was built, then saving a new seed or loading the glossary fails:
\* no runtime is registered, yet the proxy policy stays configured.
StartFails ==
    /\ ~up
    /\ Builds(Loaded, NoCredentials)
    /\ disk' \in {disk, Loaded}
    /\ proxy' = Loaded.proxy
    /\ UNCHANGED <<up, state, torn, lock, pc, call>>

CallerStep(c) ==
    \/ Configure(c) \/ Build(c) \/ SaveOk(c) \/ SaveFails(c)
    \/ Evict(c) \/ Install(c) \/ Keep(c) \/ RollBack(c)
    \/ Swap(c) \/ Announce(c)

Request(c) ==
    \/ UpdateGeneral(c) \/ UpdateAdvanced(c) \/ UpdateProvider(c)
    \/ DeleteProvider(c) \/ UpdateService(c) \/ DeleteService(c) \/ BeginRestore(c)

Next ==
    \/ \E c \in Callers : Request(c) \/ CallerStep(c)
    \/ SetProviderSecrets
    \/ Crash
    \/ Start
    \/ StartFails

Spec == Init /\ [][Next]_vars

\* commit_settings awaits nothing once it holds the lock; a restore awaits the
\* locks of the three other stores, whose holders never wait for this one.  So a
\* started transaction keeps running on its thread.
FairSpec == Spec /\ \A c \in Callers : WF_vars(CallerStep(c))

-----------------------------------------------------------------------------
(* Properties.                                                             *)

\* The engine a request would use was built from exactly the settings a reader
\* sees: same providers, same configurations, clients created under the
\* settings' proxy, and that proxy is the process-wide policy.  Every failed
\* build, save or restore has to undo the proxy it had already configured
\* (settings_api.rs:48-54, engine.rs:51-53, backup_api.rs:54-71).
EngineCurrent ==
    up /\ lock = Nobody =>
        /\ proxy = state.settings.proxy
        /\ state.engine.proxy = state.settings.proxy
        /\ \A p \in Providers :
              IF state.settings.providers[p] = NoConfig
              THEN state.engine.clients[p] = NoConfig
              ELSE /\ state.engine.clients[p] \in Accepted
                   /\ state.engine.clients[p][1] = state.settings.providers[p]

\* What a reader sees is what a restart would load: no caller returns, with an
\* answer or with an error, leaving memory and settings.json apart.  The one
\* exception is a restore whose way back failed (backup.rs:64), and it lasts
\* only until settings are saved again or the process starts again.
Durable == up /\ lock = Nobody /\ ~torn => disk = state.settings

\* A credential never outlives its provider, so a provider created later under
\* the same id starts without one (settings_api.rs:45-47, 208-212).
CredentialsOwned ==
    \A p \in Providers :
        state.secrets[p] # NoSecret => state.settings.providers[p] # NoConfig

\* The file is missing only between the two halves of a restore's install,
\* because the process died there, or because the way back of one failed and
\* nothing was saved since.
MissingOnlyMidRestore ==
    disk = Absent => \/ ~up
                     \/ torn
                     \/ \E c \in Callers : lock = c /\ pc[c] = "install"

\* RuntimeState's comment: "Persisted settings contain opaque references
\* instead of these values": a provider holding a credential is persisted with
\* a configuration that stands without it, so that the next start, which has
\* no credentials yet, can build it.
PersistedReferences ==
    up /\ lock = Nobody =>
        \A p \in Providers :
            state.secrets[p] # NoSecret =>
                <<state.settings.providers[p], NoSecret>> \in Accepted

\* Every transaction ends: its caller gets an answer, the lock is released and
\* the events of a successful one are sent.
TransactionsEnd ==
    \A c \in Callers :
        pc[c] # "idle" \/ lock = c ~> pc[c] = "idle" /\ lock # c

-----------------------------------------------------------------------------
(* The inductive invariant behind the safety properties.                   *)

Holding == {"configure", "build", "save", "evict", "install", "reload", "swap"}

\* Exactly the holder of the lock is inside a transaction.
LockInv == \A c \in Callers : pc[c] \in Holding <=> lock = c

\* The transaction of the holder was computed from the state it still sees.
CallInv ==
    \A c \in Callers :
        lock = c =>
            /\ call[c].previous = state.settings.proxy
            /\ pc[c] \in {"configure", "build", "evict", "install", "reload"}
                  => call[c].rebuild
            /\ IF call[c].rebuild
               THEN /\ call[c].secrets = Retained(state.secrets, call[c].next)
                    /\ pc[c] \in {"save", "evict", "install", "reload", "swap"}
                          => ProvidersBuild(call[c].next, call[c].secrets)
               ELSE /\ call[c].next.providers = state.settings.providers
                    /\ call[c].next.proxy = state.settings.proxy

\* Where the proxy and the file stand at each step of the holder.
ProgressInv ==
    \A c \in Callers :
        lock = c =>
            /\ pc[c] = "configure" => proxy = state.settings.proxy
            /\ pc[c] # "configure" => proxy = call[c].next.proxy
            /\ pc[c] \in {"configure", "build", "save", "evict"}
                  => torn \/ disk = state.settings
            /\ pc[c] \in {"install", "reload"}
                  => torn \/ call[c].saved = state.settings
            /\ pc[c] = "install" => disk = Absent
            /\ pc[c] \in {"reload", "swap"} => disk = call[c].next
            /\ pc[c] = "swap" => ~torn

\* The engine held in memory, whether or not the lock is taken.
EngineInv ==
    /\ state.engine.proxy = state.settings.proxy
    /\ \A p \in Providers :
          IF state.settings.providers[p] = NoConfig
          THEN state.engine.clients[p] = NoConfig
          ELSE /\ state.engine.clients[p] \in Accepted
               /\ state.engine.clients[p][1] = state.settings.providers[p]

IdleInv ==
    up /\ lock = Nobody =>
        /\ proxy = state.settings.proxy
        /\ torn \/ disk = state.settings

DownInv == ~up => lock = Nobody /\ \A c \in Callers : pc[c] = "idle"

IInv == /\ TypeOK /\ LockInv /\ CallInv /\ ProgressInv /\ EngineInv
        /\ IdleInv /\ DownInv /\ CredentialsOwned
=============================================================================
