------------------------ MODULE ProviderCredentials ------------------------
(***************************************************************************)
(* Provider credentials across the OS vault, the settings and the runtime. *)
(*                                                                         *)
(* A secret typed by the user goes to the vault; the settings keep a       *)
(* reference to it; the runtime holds the value in memory only.  Saving,   *)
(* deleting and hydrating are sequences of awaited calls of one Dart       *)
(* isolate, so flows interleave between their steps, any vault or commit   *)
(* step may fail, and the process may die between any two of them.         *)
(*                                                                         *)
(* Each runtime call is atomic here (SettingsCommit looks inside).  A      *)
(* provider has one secret field; its other fields are left out.  The      *)
(* editor disables saving while a save runs, so there is one save at a     *)
(* time; a provider can be deleted, or a backup restored, while it runs.   *)
(***************************************************************************)
EXTENDS Naturals, FiniteSets

CONSTANTS
    Providers,
    Secrets,
    None,         \* no secret typed, stored or read; no provider
    MaxFlows      \* bound on the flows and crashes of a behaviour

ASSUME CredentialsAssumption ==
    /\ None \notin Secrets \cup Providers
    /\ MaxFlows \in Nat

Entry == {"absent", "plain", "ref"}     \* of a provider in the settings
Value == Secrets \cup {None}

VARIABLES
    settings,     \* providers in the settings, committed and durable
    backup,       \* providers in the last exported backup
    vault,        \* the OS secret store
    secrets,      \* the runtime's provider_secrets
    store,        \* the Dart store's copy of the providers
    save,         \* RuntimeProviderSettingsAdapter.saveProvider
    del,          \* RuntimeProviderSettingsAdapter.deleteProvider
    load,         \* ProviderCredentialsController.hydrateAll
    flows,        \* flows started and crashes so far
    smooth        \* since the last start no flow failed or was disturbed

vars == <<settings, backup, vault, secrets, store, save, del, load, flows, smooth>>

\* calm: no other flow touched the provider while this one ran, and the store's
\* copy was current when it started.  field: the settings name a secret field.
IdleSave == [step |-> "idle", p |-> None, typed |-> None, ref |-> FALSE,
             value |-> None, calm |-> TRUE]
IdleDelete == [step |-> "idle", p |-> None, field |-> FALSE, calm |-> TRUE]
\* todo: entries listed and not hydrated yet;  value: what the vault returned.
IdleLoad == [step |-> "idle", todo |-> {}, p |-> None, value |-> None, boot |-> FALSE]

Saves == [step : {"idle", "write", "commit", "read", "set", "reload"},
          p : Providers \cup {None}, typed : Value, ref : BOOLEAN, value : Value, calm : BOOLEAN]
Deletes == [step : {"idle", "look", "erase", "remove", "reload"},
            p : Providers \cup {None}, field : BOOLEAN, calm : BOOLEAN]
Loads == [step : {"idle", "restore", "list", "next", "set", "reload"},
          todo : SUBSET [p : Providers, ref : BOOLEAN],
          p : Providers \cup {None}, value : Value, boot : BOOLEAN]

TypeOK ==
    /\ settings \in [Providers -> Entry] /\ backup \in [Providers -> Entry]
    /\ vault \in [Providers -> Value] /\ secrets \in [Providers -> Value]
    /\ store \in [Providers -> Entry]
    /\ save \in Saves /\ del \in Deletes /\ load \in Loads
    /\ flows \in 0 .. MaxFlows /\ smooth \in BOOLEAN

\* A first start: nothing is configured.
Init ==
    /\ settings = [p \in Providers |-> "absent"]
    /\ backup = settings
    /\ vault = [p \in Providers |-> None]
    /\ secrets = vault
    /\ store = settings
    /\ save = IdleSave
    /\ del = IdleDelete
    /\ load = [IdleLoad EXCEPT !.step = "list", !.boot = TRUE]
    /\ flows = 0
    /\ smooth = TRUE

\* The windows open once the hydration of main() has ended, well or not.
Open == load.step = "idle" \/ ~load.boot

Started ==
    /\ Open
    /\ flows < MaxFlows
    /\ flows' = flows + 1

-----------------------------------------------------------------------------
(* saveProvider                                                            *)

\* Mutant: the draft alone decides, a blank field is no secret.
StartSaveBlank(p, typed) ==
    /\ Started
    /\ save.step = "idle"
    /\ save' = [step |-> IF typed = None THEN "commit" ELSE "write", p |-> p,
                typed |-> typed, ref |-> typed # None, value |-> None,
                calm |-> store[p] = settings[p] /\ load.step = "idle" /\ del.p # p]
    /\ del' = [del EXCEPT !.calm = @ /\ del.p # p]
    /\ smooth' = (smooth /\ save'.calm)
    /\ UNCHANGED <<settings, backup, vault, secrets, store, load>>

\* The draft is checked and completed from the store's copy.
StartSave(p, typed) ==
    /\ Started
    /\ save.step = "idle"
    /\ save' = [step |-> IF typed = None THEN "commit" ELSE "write", p |-> p,
                typed |-> typed, ref |-> typed # None \/ store[p] = "ref", value |-> None,
                calm |-> store[p] = settings[p] /\ load.step = "idle" /\ del.p # p]
    /\ del' = [del EXCEPT !.calm = @ /\ del.p # p]
    /\ smooth' = (smooth /\ save'.calm)
    /\ UNCHANGED <<settings, backup, vault, secrets, store, load>>

\* protectFields: the typed secret goes to the vault.
SaveWrites ==
    /\ save.step = "write"
    /\ vault' = [vault EXCEPT ![save.p] = save.typed]
    /\ save' = [save EXCEPT !.step = "commit"]
    /\ UNCHANGED <<settings, backup, secrets, store, del, load, flows, smooth>>

\* Mutant: the typed secret itself goes into the settings.
SaveCommitsPlaintext ==
    /\ save.step = "commit"
    /\ settings' = [settings EXCEPT ![save.p] = IF save.typed # None THEN save.typed ELSE IF save.ref THEN "ref" ELSE "plain"]
    /\ save' = [save EXCEPT !.step = "read"]
    /\ UNCHANGED <<backup, vault, secrets, store, del, load, flows, smooth>>

\* runtime.updateProvider
SaveCommits ==
    /\ save.step = "commit"
    /\ settings' = [settings EXCEPT ![save.p] = IF save.ref THEN "ref" ELSE "plain"]
    /\ save' = [save EXCEPT !.step = "read"]
    /\ UNCHANGED <<backup, vault, secrets, store, del, load, flows, smooth>>

\* Mutant: the runtime is handed the draft's field.
SaveReadsDraft ==
    /\ save.step = "read"
    /\ save' = [save EXCEPT !.step = "set",
                            !.value = save.typed]
    /\ UNCHANGED <<settings, backup, vault, secrets, store, del, load, flows, smooth>>

\* hydrateProvider: the value behind the reference.
SaveReads ==
    /\ save.step = "read"
    /\ save' = [save EXCEPT !.step = "set",
                            !.value = IF save.ref THEN vault[save.p] ELSE None]
    /\ UNCHANGED <<settings, backup, vault, secrets, store, del, load, flows, smooth>>

\* Mutant: values are taken for any provider.
SetSecretsUnchecked(p, value) == secrets' = [secrets EXCEPT ![p] = value]

\* setProviderSecrets refuses a provider that is gone.
SetSecrets(p, value) ==
    /\ settings[p] # "absent"
    /\ secrets' = [secrets EXCEPT ![p] = value]

SaveSets ==
    /\ save.step = "set"
    /\ SetSecrets(save.p, save.value)
    /\ save' = [save EXCEPT !.step = "reload"]
    /\ UNCHANGED <<settings, backup, vault, store, del, load, flows, smooth>>

SaveEnds ==
    /\ save.step = "reload"
    /\ store' = settings
    /\ save' = IdleSave
    /\ UNCHANGED <<settings, backup, vault, secrets, del, load, flows, smooth>>

\* The vault or the commit fails, or the provider went away: an exception.
SaveFails ==
    /\ \/ save.step \in {"write", "commit", "read"}
       \/ save.step = "set" /\ settings[save.p] = "absent"
    /\ save' = IdleSave
    /\ smooth' = FALSE
    /\ UNCHANGED <<settings, backup, vault, secrets, store, del, load, flows>>

-----------------------------------------------------------------------------
(* deleteProvider                                                          *)

StartDelete(p) ==
    /\ Started
    /\ del.step = "idle"
    /\ del' = [step |-> "look", p |-> p, field |-> FALSE,
               calm |-> load.step = "idle" /\ save.p # p]
    /\ save' = [save EXCEPT !.calm = @ /\ save.p # p]
    /\ smooth' = (smooth /\ del'.calm)
    /\ UNCHANGED <<settings, backup, vault, secrets, store, load>>

\* getProvider tells which secret fields there are.
DeleteLooks ==
    /\ del.step = "look"
    /\ del' = [del EXCEPT !.step = "erase", !.field = settings[del.p] = "ref"]
    /\ UNCHANGED <<settings, backup, vault, secrets, store, save, load, flows, smooth>>

\* Mutant: only a credential the runtime holds is erased.
DeleteErasesHydrated ==
    /\ del.step = "erase"
    /\ vault' = IF del.field /\ secrets[del.p] # None THEN [vault EXCEPT ![del.p] = None] ELSE vault
    /\ del' = [del EXCEPT !.step = "remove"]
    /\ UNCHANGED <<settings, backup, secrets, store, save, load, flows, smooth>>

DeleteErases ==
    /\ del.step = "erase"
    /\ vault' = IF del.field THEN [vault EXCEPT ![del.p] = None] ELSE vault
    /\ del' = [del EXCEPT !.step = "remove"]
    /\ UNCHANGED <<settings, backup, secrets, store, save, load, flows, smooth>>

\* runtime.deleteProvider: the commit also drops the provider's secrets.
DeleteRemoves ==
    /\ del.step = "remove"
    /\ settings' = [settings EXCEPT ![del.p] = "absent"]
    /\ secrets' = [secrets EXCEPT ![del.p] = None]
    /\ del' = [del EXCEPT !.step = "reload"]
    /\ UNCHANGED <<backup, vault, store, save, load, flows, smooth>>

DeleteEnds ==
    /\ del.step = "reload"
    /\ store' = settings
    /\ del' = IdleDelete
    /\ UNCHANGED <<settings, backup, vault, secrets, save, load, flows, smooth>>

DeleteFails ==
    /\ del.step \in {"erase", "remove"}
    /\ del' = IdleDelete
    /\ smooth' = FALSE
    /\ UNCHANGED <<settings, backup, vault, secrets, store, save, load, flows>>

-----------------------------------------------------------------------------
(* Backups and hydrateAll                                                  *)

Export ==
    /\ Started
    /\ backup' = settings
    /\ UNCHANGED <<settings, vault, secrets, store, save, del, load, smooth>>

StartRestore ==
    /\ Started
    /\ load.step = "idle"
    /\ load' = [IdleLoad EXCEPT !.step = "restore"]
    /\ save' = [save EXCEPT !.calm = save.step = "idle"]
    /\ del' = [del EXCEPT !.calm = del.step = "idle"]
    /\ smooth' = (smooth /\ save'.calm /\ del'.calm)
    /\ UNCHANGED <<settings, backup, vault, secrets, store>>

\* restoreFrom keeps the secrets of the providers the backup has.
Restores ==
    /\ load.step = "restore"
    /\ settings' = backup
    /\ secrets' = [p \in Providers |-> IF backup[p] = "absent" THEN None ELSE secrets[p]]
    /\ load' = [load EXCEPT !.step = "list"]
    /\ UNCHANGED <<backup, vault, store, save, del, flows, smooth>>

LoadLists ==
    /\ load.step = "list"
    /\ load' = [load EXCEPT !.step = "next",
            !.todo = {[p |-> p, ref |-> settings[p] = "ref"] :
                          p \in {q \in Providers : settings[q] # "absent"}}]
    /\ UNCHANGED <<settings, backup, vault, secrets, store, save, del, flows, smooth>>

\* hydrateProvider of the next listed provider.
LoadReads ==
    /\ load.step = "next"
    /\ \E e \in load.todo :
          load' = [load EXCEPT !.step = "set", !.todo = @ \ {e}, !.p = e.p,
                               !.value = IF e.ref THEN vault[e.p] ELSE None]
    /\ UNCHANGED <<settings, backup, vault, secrets, store, save, del, flows, smooth>>

\* Mutant: the loop stops at a provider without credential.
LoadSetsAndStops ==
    /\ load.step = "set"
    /\ SetSecrets(load.p, load.value)
    /\ load' = [load EXCEPT !.step = "next", !.p = None, !.value = None,
                            !.todo = IF load.value = None THEN {} ELSE @]
    /\ UNCHANGED <<settings, backup, vault, store, save, del, flows, smooth>>

\* Mutant: a provider without credential is waited for.
LoadSetsWaiting ==
    /\ load.value # None
    /\ load.step = "set"
    /\ SetSecrets(load.p, load.value)
    /\ load' = [load EXCEPT !.step = "next", !.p = None, !.value = None]
    /\ UNCHANGED <<settings, backup, vault, store, save, del, flows, smooth>>

LoadSets ==
    /\ load.step = "set"
    /\ SetSecrets(load.p, load.value)
    /\ load' = [load EXCEPT !.step = "next", !.p = None, !.value = None]
    /\ UNCHANGED <<settings, backup, vault, store, save, del, flows, smooth>>

\* All were hydrated: the sections are reloaded, or the store initialised.
LoadEnds ==
    /\ load.step = "next" /\ load.todo = {}
    /\ store' = settings
    /\ load' = IdleLoad
    /\ UNCHANGED <<settings, backup, vault, secrets, save, del, flows, smooth>>

\* One failure ends the loop.  At start it is swallowed and the store is
\* initialised; after a restore it is reported and nothing is reloaded.
LoadFails ==
    /\ \/ load.step = "restore"
       \/ load.step = "next" /\ \E e \in load.todo : e.ref
       \/ load.step = "set" /\ settings[load.p] = "absent"
    /\ store' = IF load.boot THEN settings ELSE store
    /\ load' = IdleLoad
    /\ smooth' = FALSE
    /\ UNCHANGED <<settings, backup, vault, secrets, save, del, flows>>

-----------------------------------------------------------------------------
\* The consumer loop of the store reloads the providers after a change.
Refresh ==
    /\ Open
    /\ store # settings
    /\ store' = settings
    /\ UNCHANGED <<settings, backup, vault, secrets, save, del, load, flows, smooth>>

\* The process dies and starts again: the vault and the settings survive.
Restart ==
    /\ flows < MaxFlows
    /\ flows' = flows + 1
    /\ secrets' = [p \in Providers |-> None]
    /\ save' = IdleSave
    /\ del' = IdleDelete
    /\ load' = [IdleLoad EXCEPT !.step = "list", !.boot = TRUE]
    /\ smooth' = TRUE
    /\ UNCHANGED <<settings, backup, vault, store>>

SaveStep == SaveWrites \/ SaveCommits \/ SaveReads \/ SaveSets \/ SaveEnds \/ SaveFails
DeleteStep == DeleteLooks \/ DeleteErases \/ DeleteRemoves \/ DeleteEnds \/ DeleteFails
LoadStep == Restores \/ LoadLists \/ LoadReads \/ LoadSets \/ LoadEnds \/ LoadFails

Next ==
    \/ \E p \in Providers : StartDelete(p) \/ \E typed \in Value : StartSave(p, typed)
    \/ Export \/ StartRestore \/ Refresh \/ Restart
    \/ SaveStep \/ DeleteStep \/ LoadStep

Spec == Init /\ [][Next]_vars

\* Awaited calls return.
FairSpec == Spec /\ WF_vars(SaveStep) /\ WF_vars(DeleteStep) /\ WF_vars(LoadStep)

-----------------------------------------------------------------------------
AtRest == Open /\ save.step = "idle" /\ del.step = "idle" /\ load.step = "idle"

\* Whatever the flows interleave with, the runtime never keeps or regains the
\* credential of a provider that is gone.
NoGhost == \A p \in Providers : settings[p] = "absent" => secrets[p] = None

\* If since the start - even one after a death in the middle of a flow - no
\* flow failed and no two ran over one provider, the runtime works with exactly
\* the vault's credentials.
RuntimeMatchesVault ==
    smooth /\ AtRest =>
        \A p \in Providers : secrets[p] = IF settings[p] = "ref" THEN vault[p] ELSE None

\* A save that comes back leaves the provider referencing, storing and using
\* what the user typed, or what it used before when the field was left blank.
SavedIsUsed ==
    save.step = "reload" /\ save.calm =>
        /\ settings[save.p] = IF save.ref THEN "ref" ELSE "plain"
        /\ save.typed # None => vault[save.p] = save.typed
        /\ secrets[save.p] = IF save.ref THEN vault[save.p] ELSE None

\* A deletion that comes back leaves no credential behind.
DeletedIsGone ==
    del.step = "reload" /\ del.calm /\ del.field =>
        /\ settings[del.p] = "absent"
        /\ vault[del.p] = None
        /\ secrets[del.p] = None

\* secret_store_test.dart, "blank edit preserves the existing secret reference".
ReferenceKept ==
    [][\A p \in Providers :
          settings[p] = "ref" /\ settings'[p] = "plain" => load.step = "restore" \/ ~save.calm]_vars

\* main.dart:29-31: an unavailable vault must not keep the windows from opening.
WindowsOpen == ~Open ~> Open
=============================================================================
