-------------------------- MODULE MC_SettingsCommit --------------------------
(* A small instance: two callers, two providers, two configurations, one good *)
(* and one broken credential, and a proxy policy that is rejected.       *)
EXTENDS SettingsCommit, TLC

CONSTANTS c1, c2, p1, p2, ref, bare, key, junk, sys, alt, bad, NoTrial

MC_Fresh == [providers |-> [p \in Providers |-> NoConfig], proxy |-> sys,
             default |-> NoDefault]

\* Both configurations stand without a credential; junk is refused by one.
MC_Accepted == {<<ref, NoSecret>>, <<ref, key>>, <<bare, NoSecret>>,
                <<bare, key>>, <<bare, junk>>}

\* bare needs the credential to build: a provider saved without its reference.
MC_AcceptedBare == {<<ref, NoSecret>>, <<ref, key>>, <<bare, key>>}

CallerSymmetry == Permutations(Callers)

\* The backups at hand: a provider under another proxy, another provider, and
\* one whose proxy policy is rejected.
MC_Archives ==
    LET holding(p, x) == [MC_Fresh EXCEPT !.providers[p] = ref, !.proxy = x, !.default = p]
    IN  {holding(p1, alt), holding(p1, bad)} \cup {holding(p, sys) : p \in Providers \ {p1}}

ASSUME NoTrialAssumption == NoTrial \notin Settings \cup {Absent}

Register == INSTANCE SettingsRegister WITH
    Values <- Settings, Fresh <- FreshSettings,
    Events <- {<<"general">>, <<"advanced">>, <<"providers">>, RestoreEvents},
    value  <- disk,
    trial  <- IF \E c \in Callers : lock = c /\ pc[c] \in {"install", "reload"}
              THEN call[lock].saved ELSE NoTrial,
    owed   <- [c \in Callers |-> IF pc[c] \in {"swap", "announce"}
                                 THEN call[c].events ELSE <<>>]

\* The transaction implements the register: one durable commit per successful
\* call, at the rename of settings.json, then its events once each, in order.
ImplementsRegister == Register!RSpec
=============================================================================
