--------------------------- MODULE ServiceRegistry ---------------------------
(***************************************************************************)
(* Providers, the services each offers without being asked, the services   *)
(* stored for them, their order and the defaults, as the settings keep     *)
(* them; and a call that finds its way from a service to a provider under  *)
(* two or three read locks, while the settings change in between.          *)
(***************************************************************************)
EXTENDS Naturals, Sequences, FiniteSets, SequencesExt

CONSTANTS
    Names,      \* provider ids, in their alphabetical order
    Offers,     \* what each type of provider can do: kinds of service, or "llm"
    Macos,
    MaxTime, MaxChanges   \* bounds on the clock and on the settings' changes

Providers == Range(Names)
Types == DOMAIN Offers
Kinds == {"translation", "dictionary", "ocr"}

\* "p+translation" is p's implicit service, "p+custom-translation" another.
Services == [provider : Providers, kind : Kinds, custom : BOOLEAN]
Implicit(p, k) == [provider |-> p, kind |-> k, custom |-> FALSE]
None == [kind |-> "none"]

VARIABLES
    providers,  \* by id: its type and when it was made
    services,   \* the stored ones: when they were made
    order, defaults,
    checked,    \* the service an update_service has checked and not committed
    call,
    changes

registry == <<providers, services, order, defaults>>
vars == <<registry, checked, call, changes>>

Idle == [step |-> "idle", kind |-> "", service |-> None, calm |-> FALSE]

\* A call that is over, of which no more is left than how it ended.
Over(end, calm) == [Idle EXCEPT !.step = end, !.calm = calm]

-----------------------------------------------------------------------------
(* What a provider offers, and the services a list has.                    *)

provider_supports_service(type, kind) ==
    kind \in Offers[type] \/ (kind = "translation" /\ "llm" \in Offers[type])

advertises_system_capability(p, kind) == p # "system" \/ Macos \/ kind = "ocr"

Supports(p, kind) ==
    /\ p \in DOMAIN providers
    /\ provider_supports_service(providers[p].type, kind)
    /\ advertises_system_capability(p, kind)

\* Mutant: a stored service is listed whatever its provider can do.
ListedStored == {s \in Services :
    \/ s \in DOMAIN services /\ s.provider \in DOMAIN providers
    \/ ~s.custom /\ Supports(s.provider, s.kind)}

\* list_services: the implicit ones, replaced and joined by those stored.
Listed == {s \in Services : /\ Supports(s.provider, s.kind)
                            /\ ~s.custom \/ s \in DOMAIN services}

Created(s) == IF s \in DOMAIN services THEN services[s]
              ELSE providers[s.provider].created

Earlier(s, t) ==
    LET Place(p) == CHOOSE i \in DOMAIN Names : Names[i] = p
    IN  \/ Created(s) < Created(t)
        \/ Created(s) = Created(t) /\ \/ Place(s.provider) < Place(t.provider)
                                      \/ s.provider = t.provider /\ s.custom

\* Everything in the order of its rank, which is how many come before it.
Sorted(rank) ==
    [n \in 1 .. Cardinality(DOMAIN rank) |-> CHOOSE s \in DOMAIN rank : rank[s] = n - 1]

\* retain: those of the order that are in S.
Retained(S) ==
    LET kept == {i \in DOMAIN order : order[i] \in S}
        places == Sorted([i \in kept |-> Cardinality({j \in kept : j < i})])
    IN  [n \in DOMAIN places |-> order[places[n]]]

\* effective_translation_service_order
Effective ==
    LET ids == {s \in Listed : s.kind = "translation"}
        others == ids \ Range(order)
    IN  Retained(ids)
        \o Sorted([s \in others |-> Cardinality({t \in others \ {s} : Earlier(t, s)})])

\* Mutant: the place a service has is not looked for.
AppendedAgain(s) == Append(order, s)

Appended(s) == IF s \in Range(order) THEN order ELSE Append(order, s)

Without(f, S) == [x \in DOMAIN f \ S |-> f[x]]
With(f, x, v) == [y \in DOMAIN f \cup {x} |-> IF y = x THEN v ELSE f[y]]

-----------------------------------------------------------------------------
(* The first start: apply_catalog_seed_for on what an older file had.      *)

Entry(type) == [type |-> type, created |-> 0]

\* default_seed
DefaultSeed == [p \in {"ecdict", "system", "google-web"} |-> Entry(p)]
SeedServices ==
    {Implicit("google-web", "translation")}
    \cup (IF Macos THEN {Implicit("system", "translation")} ELSE {})
SeedOrder ==
    <<Implicit("google-web", "translation")>>
    \o (IF Macos THEN <<Implicit("system", "translation")>> ELSE <<>>)
SeedDefaults == [translation |-> Implicit("google-web", "translation"),
                 dictionary |-> Implicit("ecdict", "dictionary"),
                 ocr |-> Implicit("system", "ocr")]

\* A file without providers, or with the system's alone, is seeded; to any
\* other come the dictionary and, off the Mac, the system's recognition.
apply_catalog_seed_for(old, revision) ==
    IF DOMAIN old \subseteq {"system"}
    THEN /\ providers = DefaultSeed
         /\ services = [s \in SeedServices |-> 0]
         /\ order = SeedOrder /\ defaults = SeedDefaults
    ELSE LET ecdict == IF revision < 2 /\ "ecdict" \notin DOMAIN old
                       THEN With(old, "ecdict", Entry("ecdict")) ELSE old
         IN  /\ providers = IF ~Macos /\ "system" \notin DOMAIN ecdict
                            THEN With(ecdict, "system", Entry("system")) ELSE ecdict
             /\ services = <<>> /\ order = <<>>
             /\ defaults = [translation |-> None,
                            dictionary |-> IF revision < 2 THEN Implicit("ecdict", "dictionary")
                                           ELSE None,
                            ocr |-> IF "system" \in DOMAIN providers THEN Implicit("system", "ocr")
                                    ELSE None]

Init ==
    /\ \E ids \in {{}, {"system"}, {"google-web"}}, revision \in 1 .. 2 :
           apply_catalog_seed_for([p \in ids |-> Entry(p)], revision)
    /\ checked = None /\ call = Idle /\ changes = 0

-----------------------------------------------------------------------------
(* The settings' operations.  Each commit is one step of SettingsCommit;    *)
(* update_service checks the provider before it asks for the commit.       *)

\* A commit: one change more, and a call under way is no longer undisturbed.
Commit ==
    /\ changes < MaxChanges
    /\ changes' = changes + 1
    /\ call' = [call EXCEPT !.calm = FALSE]

\* update_provider: a new one's translation comes last.
SaveProvider(p, type, now) ==
    /\ Commit
    /\ IF p \in DOMAIN providers
       THEN /\ providers' = [providers EXCEPT ![p].type = type]
            /\ UNCHANGED order
       ELSE /\ providers' = With(providers, p, [type |-> type, created |-> now])
            /\ order' = Appended(Implicit(p, "translation"))
    /\ UNCHANGED <<services, defaults, checked>>

\* update_service, under the read lock; one whose commit the bound still lets in.
CheckService(s) ==
    /\ changes < MaxChanges
    /\ checked = None
    /\ Supports(s.provider, s.kind)
    /\ checked' = s
    /\ UNCHANGED <<registry, call, changes>>

\* update_service's commit: only that the provider is there is looked at again.
SaveService(now) ==
    /\ checked # None
    /\ checked' = None
    /\ LET s == checked
           is_new == s \notin DOMAIN services
       IN  IF s.provider \notin DOMAIN providers
           THEN UNCHANGED <<registry, call, changes>>
           ELSE /\ Commit
                /\ services' = With(services, s, IF is_new \/ services[s] = 0 THEN now
                                                 ELSE services[s])
                /\ order' = IF is_new /\ s.kind = "translation" THEN Appended(s) ELSE order
                /\ UNCHANGED <<providers, defaults>>

Cleared(gone) == [k \in Kinds |-> IF defaults[k] \in gone THEN None ELSE defaults[k]]

\* delete_provider: the defaults that name one of its stored services go.
DeleteProvider(p) ==
    LET stored == {s \in DOMAIN services : s.provider = p}
    IN  /\ Commit
        /\ providers' = Without(providers, {p})
        /\ services' = Without(services, stored)
        /\ order' = Retained({s \in Services : s.provider # p})
        /\ defaults' = Cleared(stored)
        /\ UNCHANGED checked

\* delete_service
DeleteService(s) ==
    /\ Commit
    /\ services' = Without(services, {s})
    /\ order' = Retained(Services \ {s})
    /\ defaults' = Cleared({s})
    /\ UNCHANGED <<providers, checked>>

\* set_translation_service_order, by a window that moves a service up.
SetOrder(i) ==
    /\ i + 1 \in DOMAIN Effective
    /\ Commit
    /\ order' = [Effective EXCEPT ![i] = Effective[i + 1], ![i + 1] = Effective[i]]
    /\ UNCHANGED <<providers, services, defaults, checked>>

\* The general settings' defaults, chosen from the list.
SetDefault(s) ==
    /\ s \in Listed
    /\ Commit
    /\ defaults' = [defaults EXCEPT ![s.kind] = s]
    /\ UNCHANGED <<providers, services, order, checked>>

-----------------------------------------------------------------------------
(* A call.                                                                 *)

\* resolve_service: the accessor has stripped an implicit service's suffix,
\* so the provider is found by its own id and what is stored for the service
\* is not read.
Resolves(s, kind) ==
    /\ s.custom => s \in DOMAIN services /\ s.kind = kind
    /\ Supports(s.provider, kind)

\* Translate, look up, recognise, or a chat about a translation.
Ask(s, kind) ==
    /\ call.step = "idle"
    /\ kind = s.kind \/ (kind = "llm" /\ s.kind = "translation")
    /\ LET calm == s \in Listed /\ (kind = "llm" => Supports(s.provider, "llm"))
       IN  call' = IF ~Resolves(s, kind) /\ kind # "llm" THEN Over("refused", calm)
                   ELSE [step |-> IF Resolves(s, kind) THEN "resolved" ELSE "again",
                         kind |-> kind, service |-> s, calm |-> calm]
    /\ UNCHANGED <<registry, checked, changes>>

\* resolve_llm_service, after the first lookup failed: a stored service whose
\* provider has models will do.
AskAgain ==
    /\ call.step = "again"
    /\ LET s == call.service
       IN  call' = IF /\ s.custom /\ s \in DOMAIN services
                      /\ s.provider \in DOMAIN providers
                      /\ "llm" \in Offers[providers[s.provider].type]
                   THEN [call EXCEPT !.step = "resolved"] ELSE Over("refused", call.calm)
    /\ UNCHANGED <<registry, checked, changes>>

\* The provider is taken from the engine under another lock, by its id alone.
\* A provider of models needs one: the service's or its own first.
Require(has_model) ==
    /\ call.step = "resolved"
    /\ LET p == call.service.provider
           able == p \in DOMAIN providers /\ provider_supports_service(providers[p].type, call.kind)
           direct == able /\ call.kind # "llm" /\ call.kind \in Offers[providers[p].type]
       IN  call' = Over(IF ~able THEN "refused"
                        ELSE IF direct \/ has_model THEN "answered" ELSE "no model", call.calm)
    /\ UNCHANGED <<registry, checked, changes>>

NextCall ==
    /\ call.step \in {"answered", "refused", "no model"}
    /\ call' = Idle
    /\ UNCHANGED <<registry, checked, changes>>

Next ==
    \/ \E p \in Providers, t \in Types, now \in 1 .. MaxTime : SaveProvider(p, t, now)
    \/ \E s \in Services : CheckService(s)
    \/ \E now \in 1 .. MaxTime : SaveService(now)
    \/ \E p \in Providers : DeleteProvider(p)
    \/ \E s \in Services : DeleteService(s) \/ SetDefault(s)
    \/ \E i \in DOMAIN Effective : SetOrder(i)
    \/ \E s \in Services, kind \in Kinds \cup {"llm"} : Ask(s, kind)
    \/ \E has_model \in BOOLEAN : Require(has_model)
    \/ AskAgain \/ NextCall

Spec == Init /\ [][Next]_vars

-----------------------------------------------------------------------------
\* The types.
TypeOK ==
    /\ DOMAIN providers \subseteq Providers /\ DOMAIN services \subseteq Services
    /\ \A p \in DOMAIN providers : providers[p].type \in Types
    /\ order \in Seq(Services)
    /\ defaults \in [Kinds -> Services \cup {None}]
    /\ call.step \in {"idle", "again", "resolved", "answered", "refused", "no model"}
    /\ changes \in 0 .. MaxChanges

\* runtime.rs and settings_api.rs: what list_services offers resolve_service
\* takes.  A call of a listed service that no commit disturbs is not refused,
\* no stored service outlives its provider, and a default that names a service
\* of its own goes with it.
ServicesResolve ==
    /\ call.step = "refused" => ~call.calm
    /\ \A s \in DOMAIN services : s.provider \in DOMAIN providers
    /\ \A k \in Kinds : defaults[k] \in Services /\ defaults[k].custom
           => defaults[k] \in DOMAIN services

\* Every listed translation has one place in the order, and nothing else has.
OnePlace ==
    /\ IsInjective(Effective)
    /\ Range(Effective) = {s \in Listed : s.kind = "translation"}
=============================================================================
