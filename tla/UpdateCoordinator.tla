-------------------------- MODULE UpdateCoordinator --------------------------
(***************************************************************************)
(* The one owner of the application's update: a check, a download or an    *)
(* installation at a time, asked for by a window or by the schedule.  A    *)
(* command that finds an operation under way joins it and does nothing of  *)
(* its own, and so takes no step here.                                     *)
(*                                                                         *)
(* A manifest is the version it names; the feed refuses one without a      *)
(* checksum.  A file is the number of the download that made it, and what  *)
(* is told of its bytes is whether they are those the manifest names.      *)
(* The manifest's own signature may be refused wherever it is asked for.   *)
(***************************************************************************)
EXTENDS Naturals

CONSTANTS
    Versions,      \* the releases
    Current,       \* the version that runs
    MaxDownloads   \* bound on the downloads

Attempts == 1 .. MaxDownloads
None == 0

VARIABLES
    offered,   \* the newest release
    state,     \* UpdateState: [status, manifest, path]
    pending,   \* the operation under way: its name, or "none"
    step,      \* of that operation: what it does next
    target,    \* of that operation: [version, file]
    files,     \* by download: [version, good]
    checked,   \* the files whose checksum and signature were found right
    touched,   \* the file to install was altered after its last checksum
    opened,    \* the file last handed to the system: [version, good, touched]
    mounted    \* the container of the state is there

operation == <<pending, step, target>>
vars == <<offered, state, operation, files, checked, touched, opened, mounted>>

Idle == [version |-> None, file |-> None]
NoFile == [version |-> None, good |-> FALSE]
Showing(status, v, f) == [status |-> status, manifest |-> v, path |-> f]

Init ==
    /\ offered \in Versions
    /\ state = Showing("idle", None, None)
    /\ pending = "none" /\ step = "none" /\ target = Idle
    /\ files = [i \in Attempts |-> NoFile]
    /\ checked = {} /\ touched = FALSE
    /\ opened = [version |-> None, good |-> FALSE, touched |-> FALSE]
    /\ mounted = TRUE

canInstall == state.status = "readyToInstall"

\* A state is set while somebody is there to see it.
Publish(s) == state' = IF mounted THEN s ELSE state

-----------------------------------------------------------------------------
(* _run: the operation is reserved before its state is shown, and given    *)
(* back when it ends.                                                      *)

Run(name, first, v, f) ==
    /\ pending' = name /\ step' = first
    /\ target' = [version |-> v, file |-> f]

End(s) ==
    /\ pending' = "none" /\ step' = "none" /\ target' = Idle
    /\ Publish(s)

\* Mutant: a check does not look for an operation under way.
CheckAnyway ==
    /\ mounted /\ ~canInstall
    /\ Run("check", "fetch", None, None)
    /\ Publish(Showing("checking", None, None))
    /\ UNCHANGED <<offered, files, checked, touched, opened, mounted>>

Check ==
    /\ mounted /\ pending = "none"
    /\ ~canInstall
    /\ Run("check", "fetch", None, None)
    /\ Publish(Showing("checking", None, None))
    /\ UNCHANGED <<offered, files, checked, touched, opened, mounted>>

\* CheckForUpdate: the feed's version, if it is a newer one, or a failure.
CheckEnds ==
    /\ pending = "check"
    /\ \/ End(Showing("failed", None, None))
       \/ End(IF offered > Current THEN Showing("available", offered, None)
              ELSE Showing("upToDate", None, None))
    /\ UNCHANGED <<offered, files, checked, touched, opened, mounted>>

Download ==
    /\ mounted /\ pending = "none"
    /\ state.manifest # None /\ ~canInstall
    /\ Run("download", "fetch", state.manifest, None)
    /\ Publish(Showing("downloading", state.manifest, None))
    /\ UNCHANGED <<offered, files, checked, touched, opened, mounted>>

\* The release's asset, in a directory of its own.  A length that differs is
\* noticed here (DownloadFails), other bytes are not.
Fetch ==
    /\ pending = "download" /\ step = "fetch"
    /\ \E i \in Attempts, good \in BOOLEAN :
          /\ files[i] = NoFile /\ \A j \in Attempts : j < i => files[j] # NoFile
          /\ files' = [files EXCEPT ![i] = [version |-> target.version, good |-> good]]
          /\ target' = [target EXCEPT !.file = i]
    /\ step' = "checksum"
    /\ Publish(Showing("downloading", target.version, None))
    /\ UNCHANGED <<offered, pending, checked, touched, opened, mounted>>

\* verifyChecksum reads the file, of a download or of one to be installed.
Checksum ==
    /\ step = "checksum" /\ files[target.file].good
    /\ step' = "signature" /\ touched' = FALSE
    /\ UNCHANGED <<offered, state, pending, target, files, checked, opened, mounted>>

\* verifyPlatformSignature; a download is then ready.
Downloaded ==
    /\ pending = "download" /\ step = "signature"
    /\ checked' = checked \cup {target.file}
    /\ End(Showing("readyToInstall", target.version, target.file))
    /\ UNCHANGED <<offered, files, touched, opened, mounted>>

DownloadFails ==
    /\ pending = "download"
    /\ End(Showing("failed", target.version, None))
    /\ UNCHANGED <<offered, files, checked, touched, opened, mounted>>

\* Mutant: the file is taken to be what the download left.
InstallAtOnce ==
    /\ mounted /\ pending = "none" /\ canInstall
    /\ Run("install", "signature", state.manifest, state.path)
    /\ UNCHANGED <<offered, state, files, checked, touched, opened, mounted>>

Install ==
    /\ mounted /\ pending = "none" /\ canInstall
    /\ Run("install", "checksum", state.manifest, state.path)
    /\ UNCHANGED <<offered, state, files, checked, touched, opened, mounted>>

\* handOff, the file verified once more; the state stays as it is.
HandOff ==
    /\ pending = "install" /\ step = "signature"
    /\ opened' = [version |-> target.version, good |-> files[target.file].good,
                  touched |-> touched]
    /\ End(state)
    /\ UNCHANGED <<offered, files, checked, touched, mounted>>

InstallFails ==
    /\ pending = "install"
    /\ End(Showing("failed", target.version, None))
    /\ UNCHANGED <<offered, files, checked, touched, opened, mounted>>

-----------------------------------------------------------------------------
(* What happens around it: a release comes out, a file in the temporary    *)
(* directory is altered, the application goes away with an operation under *)
(* way.                                                                    *)

Release ==
    /\ \E v \in Versions : v > offered /\ offered' = v
    /\ UNCHANGED <<state, operation, files, checked, touched, opened, mounted>>

Alter ==
    /\ \E i \in Attempts :
          /\ files[i].good
          /\ files' = [files EXCEPT ![i].good = FALSE]
          /\ touched' = (touched \/ (i = target.file /\ step = "signature"))
    /\ UNCHANGED <<offered, state, operation, checked, opened, mounted>>

Unmount ==
    /\ mounted /\ mounted' = FALSE
    /\ UNCHANGED <<offered, state, operation, files, checked, touched, opened>>

Next ==
    \/ Check \/ CheckEnds
    \/ Download \/ Fetch \/ Checksum \/ Downloaded \/ DownloadFails
    \/ Install \/ HandOff \/ InstallFails
    \/ Release \/ Alter \/ Unmount

Spec == Init /\ [][Next]_vars

-----------------------------------------------------------------------------
TypeOK ==
    /\ offered \in Versions /\ mounted \in BOOLEAN /\ touched \in BOOLEAN
    /\ state \in [status : {"idle", "checking", "upToDate", "available", "downloading",
                            "readyToInstall", "failed"},
                  manifest : Versions \cup {None}, path : Attempts \cup {None}]
    /\ pending \in {"none", "check", "download", "install"}
    /\ step \in {"none", "fetch", "checksum", "signature"}
    /\ target \in [version : Versions \cup {None}, file : Attempts \cup {None}]
    /\ files \in [Attempts -> [version : Versions \cup {None}, good : BOOLEAN]]
    /\ checked \subseteq Attempts
    /\ opened \in [version : Versions \cup {None}, good : BOOLEAN, touched : BOOLEAN]

\* What is shown to be ready is a newer release, downloaded for the manifest
\* shown and found right when it was; and what is shown to go on does go on.
ReadyIsVerified ==
    /\ state.status = "readyToInstall" =>
          /\ state.path \in checked /\ state.manifest > Current
          /\ files[state.path].version = state.manifest
    /\ mounted => /\ state.status = "checking" <=> pending = "check"
                  /\ state.status = "downloading" <=> pending = "download"

\* The system is handed a newer release only, and bytes other than the
\* manifest's only if they were altered after the hand-off verified them.
HandedVerified ==
    opened.version # None => opened.version > Current /\ (opened.good \/ opened.touched)

\* docs/ARCHITECTURE.md:83-84: checks cannot replace download progress or a
\* verified installer waiting for its hand-off.
NothingReplaced ==
    state.status \in {"downloading", "readyToInstall"} /\ state' # state =>
        /\ state'.status \in {"downloading", "readyToInstall", "failed"}
        /\ state'.manifest = state.manifest

\* A step of the coordinator, of the releases or of the files replaces no
\* download or installer, and leaves what is ready, and what was handed over,
\* verified.
UpdateVerified == [][ReadyIsVerified' /\ HandedVerified' /\ NothingReplaced]_vars
=============================================================================
