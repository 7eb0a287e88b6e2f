----------------------------- MODULE MC_Windows -----------------------------
(* The windows' side of the settings, on small instances explored one at a *)
(* time: the flows that keep credentials, over two providers and two       *)
(* secrets, and the cache two screens and the consumer loop keep, over a   *)
(* channel that two restores overflow.  The first takes the store's copy   *)
(* as the second promises it: the last settings, or older ones.            *)
EXTENDS ProviderCredentials, Sequences, TLC

CONSTANTS p1, p2, k1, k2, s1, s2, Part, Screens, Consumer, Plain, Library, Capacity, MaxCommits

\* What SettingsCache says of its constants.
ASSUME CacheAssumption ==
    /\ Plain \subseteq {"appearance", "shortcuts", "advanced"}
    /\ Library \subseteq {"glossary", "history", "vocabulary"}
    /\ Consumer \notin Screens
    /\ Capacity \in Nat \ {0} /\ MaxCommits \in Nat

VARIABLES
    part,
    truth, cache, buffer, missed, inbox, task, commits

cached == <<truth, cache, buffer, missed, inbox, task, commits>>

C == INSTANCE SettingsCache

\* Screens occur in the cache's states only, which no fairness and no liveness
\* speaks of: to take them for one another is sound.
ScreenSymmetry == Permutations(Screens)

WindowsInit == part \in Part /\ Init /\ C!Init

CredentialsNext == part = "credentials" /\ Next /\ UNCHANGED <<part, cached>>
CacheNext == part = "cache" /\ C!Next /\ UNCHANGED <<part, vars>>

WindowsSpec ==
    /\ WindowsInit /\ [][CredentialsNext \/ CacheNext]_<<part, vars, cached>>
    /\ WF_vars(part = "credentials" /\ SaveStep)
    /\ WF_vars(part = "credentials" /\ DeleteStep)
    /\ WF_vars(part = "credentials" /\ LoadStep)

-----------------------------------------------------------------------------
\* The types of both.
WindowsTypeOK == TypeOK /\ C!TypeOK

\* settings_store.dart: the cache settles on the runtime's settings.
SettledFresh == C!SettledFresh

\* settings_store.dart: no copy goes back.
NeverBackwards == C!NeverBackwards

\* settings_store.dart:30-34, said of the general section.
GeneralFresh == C!GeneralFresh

\* What a save or a deletion that comes back has done.
FlowsKeepWord == SavedIsUsed /\ DeletedIsGone

\* main.dart: the windows open after every start.
WindowsOpenAtLast == part = "credentials" /\ ~Open ~> Open
=============================================================================
