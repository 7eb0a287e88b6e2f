---------------------------- MODULE BackupTargets ----------------------------
(* What a backup holds: the DATA_TARGETS of the data directory, numbered in *)
(* their order.  The first is settings.json, the last the glossary folder.  *)
EXTENDS Integers

CONSTANTS
    N,         \* how many targets there are
    Versions,  \* what a target may contain
    Absent,    \* there is no such file or folder
    Fresh      \* the settings a start without settings.json writes

ASSUME BackupAssumption ==
    /\ N \in Nat \ {0}
    /\ Fresh \in Versions
    /\ Absent \notin Versions

Targets == 1 .. N
SettingsFile == 1
GlossaryFolder == N

\* What a directory holds of the targets.
Directory == [Targets -> Versions \cup {Absent}]
Empty == [t \in Targets |-> Absent]
=============================================================================
