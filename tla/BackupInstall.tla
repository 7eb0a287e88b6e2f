---------------------------- MODULE BackupInstall ----------------------------
(***************************************************************************)
(* Export and restore of the data directory.                               *)
(*                                                                         *)
(* A restore holds the locks of all four stores.  It moves the targets one *)
(* by one to a rollback directory, moves the staged ones in, reloads the   *)
(* stores and commits by removing the rollback directory.  When a rename   *)
(* or the reload fails it walks back: it removes what it installed, moves  *)
(* the saved targets back and removes the rollback directory, ignoring     *)
(* every error on that way.  The process may die between any two steps;    *)
(* nothing looks at a rollback directory again.                            *)
(*                                                                         *)
(* One rename or removal is one step.  A store's command writes its target *)
(* in one step, between restores.                                          *)
(***************************************************************************)
EXTENDS BackupTargets

CONSTANTS
    None,    \* no archive was exported
    MaxOps   \* bound on commands, restores and deaths of a behaviour

VARIABLES
    data,      \* the data directory
    mem,       \* what the stores of the running process hold
    archive,   \* the archive at hand, as staging extracts it, or None
    pc,        \* where the restore is
    at,        \* the target of its next step
    staging, rollback,
    installed, \* installed_names
    before,    \* history: what each target held, or should hold, last
    torn,      \* history: targets a way back failed to put back
    adrift,    \* history: targets whose file and store went apart with that
    died,      \* history: a process died inside the last restore
    left,      \* history: contents in directories a dead process left behind
    ops

ghosts == <<before, torn, adrift, died, left, ops>>
vars == <<data, mem, archive, pc, at, staging, rollback, installed, ghosts>>

\* A store that finds no target starts empty and holds Absent.
Init ==
    /\ data \in [Targets -> {Fresh, Absent}]
    /\ data[SettingsFile] = Fresh
    /\ mem = data
    /\ archive = None
    /\ pc = "idle" /\ at = 1
    /\ staging = Empty /\ rollback = Empty /\ installed = {}
    /\ before = data
    /\ torn = {} /\ adrift = {} /\ died = FALSE
    /\ left = [t \in Targets |-> {}]
    /\ ops = 0

Command == ops < MaxOps /\ ops' = ops + 1

-----------------------------------------------------------------------------
(* Between restores                                                        *)

\* A command of a store rewrites its target: all of it, or one book of the
\* glossary, which is all of it unless the folder went missing meanwhile.
Write(t, c) ==
    /\ pc = "idle" /\ Command
    /\ mem' = [mem EXCEPT ![t] = c]
    /\ \/ /\ t # GlossaryFolder \/ data[t] = mem[t]
          /\ data' = [data EXCEPT ![t] = c]
          /\ torn' = torn \ {t} /\ adrift' = adrift \ {t}
       \/ /\ t = GlossaryFolder /\ data[t] # mem[t]
          /\ \E part \in Versions : data' = [data EXCEPT ![t] = part]
          /\ torn' = torn \ {t} /\ UNCHANGED adrift
    /\ before' = [before EXCEPT ![t] = data'[t]]
    /\ UNCHANGED <<archive, pc, at, staging, rollback, installed, died, left>>

\* export_to reads under four read guards; the glossary folder is always in the
\* archive.  A failed export keeps the archive that was there.
Export ==
    /\ pc = "idle" /\ Command
    /\ archive' = IF data[GlossaryFolder] = Absent /\ N > 1
                  THEN [data EXCEPT ![GlossaryFolder] = Fresh] ELSE data
    /\ UNCHANGED <<data, mem, pc, at, staging, rollback, installed,
                   before, torn, adrift, died, left>>

\* stage_backup extracts and validates; it refuses an archive without settings.
\* Then the settings are parsed, the locks taken and the engine built.  Until
\* here a failure ends the restore with nothing moved, which is no step.
Begin ==
    /\ pc = "idle" /\ Command
    /\ archive # None /\ archive[SettingsFile] # Absent
    /\ staging' = archive
    /\ pc' = "save" /\ at' = 1
    /\ installed' = {}
    /\ before' = data /\ torn' = {} /\ died' = FALSE
    /\ UNCHANGED <<data, mem, archive, rollback, adrift, left>>

-----------------------------------------------------------------------------
(* Forward: install_staged_backup, reload, commit                          *)

\* The next target of a phase, or the next phase after the last one.
Forward(phase, next) ==
    IF at < N THEN pc' = phase /\ at' = at + 1 ELSE pc' = next /\ at' = 1

\* A target that is there is renamed into the rollback directory.
Save ==
    /\ pc = "save"
    /\ rollback' = [rollback EXCEPT ![at] = data[at]]
    /\ data' = [data EXCEPT ![at] = Absent]
    /\ Forward("save", "install")
    /\ UNCHANGED <<mem, archive, staging, installed, ghosts>>

\* A staged target is renamed into the data directory.
Install ==
    /\ pc = "install"
    /\ data' = [data EXCEPT ![at] = staging[at]]
    /\ installed' = IF staging[at] = Absent THEN installed ELSE installed \cup {at}
    /\ staging' = [staging EXCEPT ![at] = Absent]
    /\ Forward("install", "reload")
    /\ UNCHANGED <<mem, archive, rollback, ghosts>>

\* Mutant: the loop forgets what it had installed.
FailForgets ==
    /\ \/ pc = "save" /\ data[at] # Absent
       \/ pc = "install" /\ staging[at] # Absent
       \/ pc = "reload"
    /\ pc' = "remove" /\ at' = 1
    /\ installed' = {}
    /\ UNCHANGED <<data, mem, archive, staging, rollback, ghosts>>

\* A rename fails, or the installed glossary does not load.
Fail ==
    /\ \/ pc = "save" /\ data[at] # Absent
       \/ pc = "install" /\ staging[at] # Absent
       \/ pc = "reload"
    /\ pc' = "remove" /\ at' = 1
    /\ UNCHANGED <<data, mem, archive, staging, rollback, installed, ghosts>>

\* The stores read what was installed, and the rollback copies go.
Commit ==
    /\ pc = "reload"
    /\ rollback' = Empty
    /\ pc' = "idle"
    /\ mem' = data
    /\ before' = archive /\ adrift' = {}
    /\ UNCHANGED <<data, archive, at, staging, installed, torn, died, left, ops>>

-----------------------------------------------------------------------------
(* The way back: restore_originals and the error path of the installation  *)

\* remove_file or remove_dir_all of what was installed; an error is ignored.
Remove ==
    /\ pc = "remove"
    /\ \/ /\ data' = IF at \in installed THEN [data EXCEPT ![at] = Absent] ELSE data
          /\ UNCHANGED <<torn, adrift>>
       \/ /\ at \in installed
          /\ torn' = torn \cup {at} /\ adrift' = adrift \cup {at}
          /\ UNCHANGED data
    /\ IF at < N THEN pc' = "remove" /\ at' = at + 1 ELSE pc' = "back" /\ at' = N
    /\ UNCHANGED <<mem, archive, staging, rollback, installed, before, died, left, ops>>

\* A rename replaces a file that is still there, but no folder.
CanReplace(t) == t # GlossaryFolder \/ data[t] = Absent

\* The saved targets are renamed back, in reverse; an error is ignored.
Back ==
    /\ pc = "back"
    /\ \/ /\ rollback[at] = Absent
          /\ UNCHANGED <<data, rollback, torn, adrift>>
       \/ /\ rollback[at] # Absent /\ CanReplace(at)
          /\ data' = [data EXCEPT ![at] = rollback[at]]
          /\ rollback' = [rollback EXCEPT ![at] = Absent]
          /\ UNCHANGED <<torn, adrift>>
       \/ /\ rollback[at] # Absent
          /\ torn' = torn \cup {at} /\ adrift' = adrift \cup {at}
          /\ UNCHANGED <<data, rollback>>
    /\ IF at > 1 THEN pc' = "back" /\ at' = at - 1 ELSE pc' = "clean" /\ at' = 1
    /\ UNCHANGED <<mem, archive, staging, installed, before, died, left, ops>>

\* The rollback directory goes, with what could not be moved back.
Clean ==
    /\ pc = "clean"
    /\ rollback' = Empty
    /\ pc' = "idle"
    /\ UNCHANGED <<data, mem, archive, at, staging, installed, ghosts>>

-----------------------------------------------------------------------------
(* Death and restart                                                       *)

Restoring == pc \in {"save", "install", "reload", "remove", "back", "clean"}

\* The rollback directory stays in the temporary directory; nothing reads it.
Crash ==
    /\ pc # "down" /\ Command
    /\ pc' = "down" /\ at' = 1
    /\ left' = [t \in Targets |-> left[t] \cup ({rollback[t]} \ {Absent})]
    /\ rollback' = Empty
    /\ died' = (died \/ Restoring)
    /\ UNCHANGED <<data, mem, archive, staging, installed, before, torn, adrift>>

\* Mutant: a start seeds settings whatever is there.
RestartSeeds ==
    /\ pc = "down"
    /\ data' = [data EXCEPT ![SettingsFile] = Fresh]
    /\ mem' = data'
    /\ pc' = "idle"
    /\ adrift' = {}
    /\ before' = [before EXCEPT ![SettingsFile] =
                   IF @ = Absent THEN data'[SettingsFile] ELSE @]
    /\ UNCHANGED <<archive, at, staging, rollback, installed, torn, died, left, ops>>

\* Runtime::new seeds and saves settings when there are none; the libraries
\* start empty and write nothing.
Restart ==
    /\ pc = "down"
    /\ data' = [data EXCEPT ![SettingsFile] = IF @ = Absent THEN Fresh ELSE @]
    /\ mem' = data'
    /\ pc' = "idle"
    /\ adrift' = {}
    /\ before' = [before EXCEPT ![SettingsFile] =
                   IF @ = Absent THEN data'[SettingsFile] ELSE @]
    /\ UNCHANGED <<archive, at, staging, rollback, installed, torn, died, left, ops>>

Next ==
    \/ \E t \in Targets, c \in Versions : Write(t, c)
    \/ Export \/ Begin
    \/ Save \/ Install \/ Fail \/ Commit
    \/ Remove \/ Back \/ Clean
    \/ Crash \/ Restart

Spec == Init /\ [][Next]_vars

-----------------------------------------------------------------------------
TypeOK ==
    /\ data \in Directory /\ mem \in Directory
    /\ archive \in Directory \cup {None}
    /\ pc \in {"idle", "save", "install", "reload", "remove", "back", "clean", "down"}
    /\ at \in Targets
    /\ staging \in Directory /\ rollback \in Directory
    /\ installed \subseteq Targets
    /\ before \in Directory
    /\ torn \subseteq Targets /\ adrift \subseteq Targets
    /\ died \in BOOLEAN
    /\ left \in [Targets -> SUBSET Versions]
    /\ ops \in Nat

\* A restore changes all targets to what the archive held, or none, whichever of
\* its renames failed; except targets of which a step back failed too, and
\* unless the process died inside.  Store and file agree on all others.
AllOrNothing ==
    pc = "idle" =>
        /\ ~died => \A t \in Targets \ torn : data[t] = before[t]
        /\ \A t \in Targets \ adrift : mem[t] = data[t]

\* What a target held before a restore that did not commit is still in its
\* place, in the rollback directory or in one that a dead process left, unless
\* moving it back failed.
CopySurvives ==
    \A t \in Targets \ torn :
        before[t] \in {data[t], rollback[t], Absent} \cup left[t]

\* DATA_AND_NETWORK.md says that a restore keeps a rollback copy until the new data
\* has been installed.
RollbackCopyKept ==
    \A t \in Targets : before[t] \in {data[t], rollback[t], Absent} \cup left[t]
=============================================================================
