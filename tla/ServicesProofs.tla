--------------------------- MODULE ServicesProofs ---------------------------
(***************************************************************************)
(* The results about the small components, for any values of their         *)
(* constants, said of the specification that puts them side by side.       *)
(*                                                                         *)
(* The update.  What is shown and what is handed over follow from what the *)
(* operation under way carries: a version that is newer, the file of that  *)
(* version, and, once past its checksum, bytes that are right or were      *)
(* altered since.  While the application is there, what it shows is the    *)
(* operation under way; that keeps a check from touching what another one  *)
(* shows.                                                                  *)
(*                                                                         *)
(* The selection.  While nobody else touches the clipboard or the front    *)
(* application, what the clipboard holds follows from the step and from    *)
(* the change count, and what is put aside is what it held.                *)
(*                                                                         *)
(* The effects.  A wish that is not the system's, and was not refused, is  *)
(* owed: a loop runs for it or is due.                                     *)
(*                                                                         *)
(* The local server.  Only the loop of the server there is accepts, and    *)
(* its flag goes up only while it is being stopped.  A client waits in one *)
(* place of one queue, so it is taken once; a call, and every answer but a *)
(* refusal, has the whole request behind it.                               *)
(*                                                                         *)
(* The bridge.  A number is given once, and a request is registered until  *)
(* it is answered or given up, so an answer that is late finds nobody.     *)
(*                                                                         *)
(* The lists, the adapters.  A traversal, or a call, goes on only after    *)
(* good replies; what it ends with follows from the last one.              *)
(*                                                                         *)
(* The services.  A call that no commit disturbs is on its way to a        *)
(* provider that can do what it asks for.  What a commit may have given    *)
(* two places in the order is sorted, retained or appended back to one.    *)
(*                                                                         *)
(* The dictionary.  Whatever a part of a text is split by, its pieces are  *)
(* apart and in order, and between them they have all but the marks; every *)
(* way to read a part takes whole pieces, or says what it leaves.          *)
(***************************************************************************)
EXTENDS MC_Services, SequenceTheorems, FiniteSetTheorems, WellFoundedInduction, TLAPS

\* Each component takes a step of its own or none.
LEMMA UpdateSteps == [Next]_all => [U!Next]_U!vars
<1>1. Next => U!Next \/ UNCHANGED updating
  BY DEF Next, Api, Capture, Bridge, Dictionary, Adapters, Models, Registry, Effects, Updates,
         desktop
<1>2. UNCHANGED all => UNCHANGED updating  BY DEF all, desktop
<1>3. UNCHANGED updating => UNCHANGED U!vars  BY DEF updating, U!vars, U!operation
<1>. QED  BY <1>1, <1>2, <1>3

-----------------------------------------------------------------------------
(* The update                                                              *)

\* The version a state names is a newer one.
Newer(v) == v # U!None => v > Current

\* A file the operation or the state names, and the version it is of.
Holds(f, v) == f \in U!Attempts /\ v # U!None /\ files[f].version = v

UpdateStateInv ==
    /\ Newer(update.manifest)
    /\ update.status \in {"readyToInstall", "downloading"} => update.manifest # U!None
    /\ U!canInstall => update.path \in verified /\ Holds(update.path, update.manifest)
    /\ mounted => /\ update.status = "checking" <=> pending = "check"
                  /\ update.status = "downloading" <=> pending = "download"
                  /\ pending = "install" => U!canInstall
                  /\ pending \in {"download", "install"} => target.version = update.manifest

UpdateOperationInv ==
    /\ pending \in {"none", "check"} => doing \notin {"checksum", "signature"}
    /\ pending \in {"download", "install"} =>
           target.version # U!None /\ target.version > Current
    /\ doing \in {"checksum", "signature"} => Holds(target.file, target.version)
    /\ doing = "signature" => files[target.file].good \/ touched

UpdateInv == U!TypeOK /\ UpdateStateInv /\ UpdateOperationInv /\ U!HandedVerified

-----------------------------------------------------------------------------
LEMMA UpdateInitHolds == U!Init => UpdateInv
<1>. SUFFICES ASSUME U!Init PROVE UpdateInv
  OBVIOUS
<1>. USE DEF U!Init, U!Showing, U!Idle, U!NoFile, U!None
<1>1. U!TypeOK  BY DEF U!TypeOK
<1>2. UpdateStateInv  BY DEF UpdateStateInv, U!canInstall, Newer
<1>3. UpdateOperationInv /\ U!HandedVerified  BY DEF UpdateOperationInv, U!HandedVerified
<1>. QED  BY <1>1, <1>2, <1>3 DEF UpdateInv

\* The steps that begin an operation: the state shown fits what is reserved.
LEMMA UpdateBeginKeeps ==
    ASSUME UpdateInv, U!Check \/ U!Download \/ U!Install
    PROVE  UpdateInv'
<1>. USE DEF UpdateInv, U!Run, U!Publish, U!Showing, U!canInstall
<1>1. CASE U!Check
  <2>1. U!TypeOK'  BY <1>1 DEF U!Check, U!TypeOK, U!None
  <2>2. UpdateStateInv'  BY <1>1 DEF U!Check, UpdateStateInv, Newer, Holds, U!None, U!TypeOK
  <2>3. UpdateOperationInv'  BY <1>1 DEF U!Check, UpdateOperationInv, U!None
  <2>. QED  BY <1>1, <2>1, <2>2, <2>3 DEF U!Check, U!HandedVerified
<1>2. CASE U!Download
  <2>1. U!TypeOK'  BY <1>2 DEF U!Download, U!TypeOK, U!None
  <2>2. UpdateStateInv'  BY <1>2 DEF U!Download, UpdateStateInv, Newer, Holds, U!None, U!TypeOK
  <2>3. UpdateOperationInv'  BY <1>2 DEF U!Download, UpdateStateInv, UpdateOperationInv,
          Newer, U!None
  <2>. QED  BY <1>2, <2>1, <2>2, <2>3 DEF U!Download, U!HandedVerified
<1>3. CASE U!Install
  <2>1. U!TypeOK'  BY <1>3 DEF U!Install, U!TypeOK, U!None
  <2>2. UpdateStateInv'  BY <1>3 DEF U!Install, UpdateStateInv, Newer, Holds, U!None
  <2>3. UpdateOperationInv'  BY <1>3 DEF U!Install, UpdateStateInv, UpdateOperationInv, Newer,
          Holds, U!None
  <2>. QED  BY <1>3, <2>1, <2>2, <2>3 DEF U!Install, U!HandedVerified
<1>. QED  BY <1>1, <1>2, <1>3

\* Those in the middle: a download's new file takes no number that is in use,
\* and the checksum is of the bytes that are there.
LEMMA UpdateMiddleKeeps ==
    ASSUME UpdateInv, U!Fetch \/ U!Checksum
    PROVE  UpdateInv'
<1>. USE DEF UpdateInv, U!Publish, U!Showing, U!canInstall
<1>1. CASE U!Fetch
  <2>1. PICK i \in U!Attempts, good \in BOOLEAN :
            /\ files[i] = U!NoFile
            /\ files' = [files EXCEPT ![i] = [version |-> target.version, good |-> good]]
            /\ target' = [target EXCEPT !.file = i]
    BY <1>1 DEF U!Fetch
  <2>2. /\ target'.version = target.version /\ target'.file = i
        /\ files'[i].version = target.version
        /\ \A j \in U!Attempts : files[j].version # U!None => files'[j] = files[j]
    BY <2>1 DEF U!TypeOK, U!NoFile
  <2>3. U!TypeOK'  BY <1>1, <2>1 DEF U!Fetch, U!TypeOK, U!None
  <2>4. UpdateStateInv'
    BY <1>1, <2>2 DEF U!Fetch, UpdateStateInv, UpdateOperationInv, Newer, Holds, U!None,
       U!TypeOK
  <2>5. UpdateOperationInv'
    BY <1>1, <2>1, <2>2 DEF U!Fetch, UpdateOperationInv, Holds
  <2>6. U!HandedVerified'  BY <1>1 DEF U!Fetch, U!HandedVerified
  <2>. QED  BY <2>3, <2>4, <2>5, <2>6
<1>2. CASE U!Checksum
  BY ZenonT(40), <1>2 DEF U!Checksum, U!TypeOK, UpdateStateInv, UpdateOperationInv, U!HandedVerified,
     Newer, Holds
<1>. QED  BY <1>1, <1>2

\* Those that end one: what becomes ready is what was downloaded, what is
\* handed over is what was shown.
LEMMA UpdateEndKeeps ==
    ASSUME UpdateInv,
            U!CheckEnds \/ U!Downloaded \/ U!DownloadFails \/ U!HandOff \/ U!InstallFails
    PROVE  UpdateInv'
<1>. USE DEF UpdateInv, U!End, U!Publish, U!Showing, U!Idle, U!canInstall
<1>1. CASE U!CheckEnds
  <2>1. U!TypeOK'  BY <1>1 DEF U!CheckEnds, U!TypeOK, U!None
  <2>2. UpdateStateInv'  BY <1>1 DEF U!CheckEnds, UpdateStateInv, Newer, Holds, U!None, U!TypeOK
  <2>3. UpdateOperationInv'  BY <1>1 DEF U!CheckEnds, UpdateOperationInv, U!None
  <2>. QED  BY <1>1, <2>1, <2>2, <2>3 DEF U!CheckEnds, U!HandedVerified
<1>2. CASE U!Downloaded
  <2>1. U!TypeOK'  BY <1>2 DEF U!Downloaded, U!TypeOK, UpdateOperationInv, Holds, U!None
  <2>2. UpdateStateInv'
    BY <1>2 DEF U!Downloaded, UpdateStateInv, UpdateOperationInv, Newer, Holds, U!None, U!TypeOK
  <2>3. UpdateOperationInv'  BY <1>2 DEF U!Downloaded, UpdateOperationInv, U!None
  <2>. QED  BY <1>2, <2>1, <2>2, <2>3 DEF U!Downloaded, U!HandedVerified
<1>3. CASE U!DownloadFails
  <2>1. U!TypeOK'  BY <1>3 DEF U!DownloadFails, U!TypeOK, U!None
  <2>2. UpdateStateInv'
    BY <1>3 DEF U!DownloadFails, UpdateStateInv, UpdateOperationInv, Newer, Holds, U!None,
       U!TypeOK
  <2>3. UpdateOperationInv'  BY <1>3 DEF U!DownloadFails, UpdateOperationInv, U!None
  <2>. QED  BY <1>3, <2>1, <2>2, <2>3 DEF U!DownloadFails, U!HandedVerified
<1>4. CASE U!HandOff
  <2>1. target.file \in U!Attempts /\ (files[target.file].good \/ touched)
        /\ target.version > Current
    BY <1>4 DEF U!HandOff, UpdateOperationInv, Holds
  <2>2. U!TypeOK'  BY <1>4, <2>1 DEF U!HandOff, U!TypeOK, U!None
  <2>3. UpdateStateInv'  BY <1>4 DEF U!HandOff, UpdateStateInv, Newer, Holds
  <2>4. UpdateOperationInv'  BY <1>4 DEF U!HandOff, UpdateOperationInv, U!None
  <2>5. U!HandedVerified'  BY <1>4, <2>1 DEF U!HandOff, U!HandedVerified
  <2>. QED  BY <2>2, <2>3, <2>4, <2>5
<1>5. CASE U!InstallFails
  <2>1. U!TypeOK'  BY <1>5 DEF U!InstallFails, U!TypeOK, U!None
  <2>2. UpdateStateInv'
    BY <1>5 DEF U!InstallFails, UpdateStateInv, UpdateOperationInv, Newer, Holds, U!None,
       U!TypeOK
  <2>3. UpdateOperationInv'  BY <1>5 DEF U!InstallFails, UpdateOperationInv, U!None
  <2>. QED  BY <1>5, <2>1, <2>2, <2>3 DEF U!InstallFails, U!HandedVerified
<1>. QED  BY <1>1, <1>2, <1>3, <1>4, <1>5

\* What happens around it: to alter a file changes its bytes alone, and is
\* remembered when they were found right already.
LEMMA UpdateAroundKeeps ==
    ASSUME UpdateInv, U!Release \/ U!Alter \/ U!Unmount
    PROVE  UpdateInv'
<1>. USE DEF UpdateInv, U!canInstall
<1>1. CASE U!Release
  BY <1>1 DEF U!Release, U!operation, U!TypeOK, UpdateStateInv, UpdateOperationInv,
     U!HandedVerified, Newer, Holds
<1>2. CASE U!Alter
  <2>1. PICK i \in U!Attempts :
            /\ files' = [files EXCEPT ![i].good = FALSE]
            /\ touched' = (touched \/ (i = target.file /\ doing = "signature"))
    BY <1>2 DEF U!Alter
  <2>2. \A j \in U!Attempts :
            /\ files'[j].version = files[j].version
            /\ j # i => files'[j] = files[j]
    BY <2>1 DEF U!TypeOK
  <2>3. U!TypeOK'
    <3>1. touched' \in BOOLEAN  BY <2>1 DEF U!TypeOK
    <3>2. files' \in [U!Attempts -> [version : Versions \cup {U!None}, good : BOOLEAN]]
      BY <2>1 DEF U!TypeOK
    <3>3. UNCHANGED <<offered, update, pending, doing, target, verified, opened, mounted>>
      BY <1>2 DEF U!Alter, U!operation
    <3>. QED  BY <3>1, <3>2, <3>3 DEF U!TypeOK
  <2>4. UpdateStateInv'  BY <1>2, <2>2 DEF U!Alter, U!operation, UpdateStateInv, Newer, Holds
  <2>5. UpdateOperationInv'
    BY ZenonT(40), <1>2, <2>1, <2>2 DEF U!Alter, U!operation, UpdateOperationInv, Holds
  <2>6. U!HandedVerified'  BY <1>2 DEF U!Alter, U!HandedVerified
  <2>. QED  BY <2>3, <2>4, <2>5, <2>6
<1>3. CASE U!Unmount
  <2>1. UNCHANGED <<offered, update, pending, doing, target, files, verified, touched, opened>>
        /\ mounted' \in BOOLEAN
    BY <1>3 DEF U!Unmount, U!operation
  <2>2. U!TypeOK'  BY <2>1 DEF U!TypeOK
  <2>3. UpdateStateInv'  BY <1>3 DEF U!Unmount, U!operation, UpdateStateInv, Newer, Holds
  <2>4. UpdateOperationInv' /\ U!HandedVerified'
    BY <1>3 DEF U!Unmount, U!operation, UpdateOperationInv, U!HandedVerified, Holds
  <2>. QED  BY <2>2, <2>3, <2>4
<1>. QED  BY <1>1, <1>2, <1>3

LEMMA UpdateStepKeeps == ASSUME UpdateInv, [U!Next]_U!vars PROVE UpdateInv'
<1>1. CASE UNCHANGED U!vars
  BY <1>1 DEF U!vars, U!operation, UpdateInv, U!TypeOK, UpdateStateInv, UpdateOperationInv,
     U!HandedVerified,
              U!canInstall, Newer, Holds
<1>. QED  BY <1>1, UpdateBeginKeeps, UpdateMiddleKeeps, UpdateEndKeeps,
        UpdateAroundKeeps DEF U!Next

\* The invariant holds in every reachable state.
THEOREM UpdateInductive == Spec => []UpdateInv
<1>1. Init => UpdateInv  BY UpdateInitHolds DEF Init
<1>2. UpdateInv /\ [Next]_all => UpdateInv'  BY UpdateStepKeeps, UpdateSteps
<1>. QED  BY <1>1, <1>2, PTL DEF Spec

-----------------------------------------------------------------------------
\* While a download is shown, or a file that is ready, whatever changes the
\* state keeps its manifest: the operation under way is that one, or none.
LEMMA UpdateNeverReplaced == ASSUME UpdateInv, [U!Next]_U!vars PROVE U!NothingReplaced
<1>. SUFFICES ASSUME update.status \in {"downloading", "readyToInstall"}, update' # update
              PROVE  /\ update'.status \in {"downloading", "readyToInstall", "failed"}
                     /\ update'.manifest = update.manifest
  BY DEF U!NothingReplaced
<1>. USE DEF UpdateInv, UpdateStateInv, U!Publish, U!Showing, U!End, U!Run, U!canInstall
<1>1. mounted  BY DEF U!Next, U!vars, U!operation, U!Check, U!CheckEnds, U!Download, U!Fetch,
        U!Checksum,
                      U!Downloaded, U!DownloadFails, U!Install, U!HandOff, U!InstallFails,
                      U!Release, U!Alter, U!Unmount, U!TypeOK
<1>2. CASE U!Check \/ U!CheckEnds  BY <1>1, <1>2 DEF U!Check, U!CheckEnds
<1>3. CASE U!Download \/ U!Install  BY <1>1, <1>3 DEF U!Download, U!Install
<1>4. CASE U!Fetch  BY <1>1, <1>4 DEF U!Fetch
<1>5. CASE U!Downloaded \/ U!DownloadFails
  <2>1. pending = "download"  BY <1>5 DEF U!Downloaded, U!DownloadFails
  <2>2. \/ update' = U!Showing("readyToInstall", target.version, target.file)
        \/ update' = U!Showing("failed", target.version, U!None)
    BY <1>1, <1>5 DEF U!Downloaded, U!DownloadFails
  <2>. QED  BY <1>1, <2>1, <2>2
<1>6. CASE U!HandOff \/ U!InstallFails
  <2>1. pending = "install"  BY <1>6 DEF U!HandOff, U!InstallFails
  <2>2. update' = update \/ update' = U!Showing("failed", target.version, U!None)
    BY <1>1, <1>6 DEF U!HandOff, U!InstallFails
  <2>. QED  BY <1>1, <2>1, <2>2
<1>7. CASE U!Checksum \/ U!Release \/ U!Alter \/ U!Unmount \/ UNCHANGED U!vars
  BY <1>7 DEF U!Checksum, U!Release, U!Alter, U!Unmount, U!vars, U!operation
<1>. QED  BY <1>2, <1>3, <1>4, <1>5, <1>6, <1>7 DEF U!Next

\* What is ready, and what the system is handed, is newer and verified, and no
\* check replaces a download or a file that waits.
THEOREM UpdatesAreVerified == Spec => UpdateVerified
<1>1. UpdateInv' => U!ReadyIsVerified' /\ U!HandedVerified'
  BY DEF UpdateInv, UpdateStateInv, U!ReadyIsVerified, Newer, Holds, U!canInstall
<1>2. UpdateInv /\ [Next]_all
      => [U!ReadyIsVerified' /\ U!HandedVerified' /\ U!NothingReplaced]_U!vars
  BY <1>1, UpdateStepKeeps, UpdateNeverReplaced, UpdateSteps
<1>. QED  BY <1>2, UpdateInductive, PTL DEF Spec, UpdateVerified, U!UpdateVerified

-----------------------------------------------------------------------------
(* The selection                                                           *)

LEMMA CaptureSteps == [Next]_all => [S!Next]_S!vars
<1>1. Next => S!Next \/ UNCHANGED selecting
  BY DEF Next, Api, Capture, Bridge, Dictionary, Adapters, Models, Registry, Effects, Updates
<1>2. UNCHANGED all => UNCHANGED selecting  BY DEF all
<1>3. UNCHANGED selecting => UNCHANGED S!vars  BY DEF selecting, S!vars
<1>. QED  BY <1>1, <1>2, <1>3

\* While nobody else has written: until the key is pressed the clipboard is
\* what it was; from then on it is that, with its count, or what the
\* application made of it; and what was put aside is what there was or a
\* clipboard to be cleared, unless there is a warning.
CalmInv ==
    /\ selection # "user"
    /\ capture \in {"idle", "contents", "count", "press"} => front = "idle" /\ clipboard = original
    /\ capture \in {"contents", "count", "press", "poll"} => selection = "none"
    /\ capture = "press" => since = count
    /\ capture = "poll" => IF count = since THEN clipboard = original /\ front # "cleared"
                           ELSE clipboard \in {S!Empty, S!Selected}
    /\ capture \in {"count", "press", "poll", "restore"} =>
           IF aside = S!Nothing THEN warned ELSE aside \in {original, S!Empty}
    /\ capture = "over" /\ ~warned /\ selection # "error" =>
           /\ front = "idle"
           /\ \/ clipboard = original
              \/ clipboard = S!Empty /\ aside = S!Empty

CaptureInv ==
    /\ S!TypeOK /\ count \in Nat
    /\ clipboard.kind = "empty" => clipboard = S!Empty
    /\ original.kind = "empty" => original = S!Empty
    /\ aside.kind = "empty" => aside = S!Empty
    /\ calm => CalmInv

LEMMA CaptureBounded == MaxRuns \in Nat /\ MaxWrites \in Nat  BY BoundsAssumption

LEMMA CaptureInitHolds == ASSUME S!Init PROVE CaptureInv
<1>. USE DEF S!Init, S!Kinds, S!Content, S!Empty, S!Nothing
<1>1. clipboard \in S!Content  OBVIOUS
<1>2. S!TypeOK
  <2>1. runs \in 0 .. MaxRuns /\ writes \in 0 .. MaxWrites /\ since \in 0 .. count
    BY CaptureBounded
  <2>. QED  BY <1>1, <2>1 DEF S!TypeOK
<1>3. clipboard.kind = "empty" => clipboard = S!Empty  OBVIOUS
<1>4. CalmInv  BY DEF CalmInv
<1>. QED  BY <1>2, <1>3, <1>4 DEF CaptureInv

\* The extraction itself.
LEMMA ExtractionKeeps ==
    ASSUME CaptureInv, S!Begin \/ S!PutAside \/ S!TakeCount \/ S!Press \/ S!PollReads \/ S!TimeUp
                       \/ S!Restore
    PROVE  CaptureInv'
<1>. USE DEF CaptureInv, S!Kinds, S!Content, S!Empty, S!Nothing
<1>1. CASE S!Begin
  <2>0. warned' \in BOOLEAN /\ calm' \in BOOLEAN  BY <1>1 DEF S!Begin
  <2>1. S!TypeOK'  BY <1>1, <2>0, CaptureBounded DEF S!Begin, S!TypeOK
  <2>2. calm' => CalmInv'  BY <1>1 DEF S!Begin, CalmInv
  <2>. QED  BY <1>1, <2>1, <2>2 DEF S!Begin
<1>2. CASE S!PutAside
  <2>0. warned' \in BOOLEAN /\ calm' \in BOOLEAN  BY <1>2 DEF S!PutAside, S!TypeOK
  <2>1. S!TypeOK'  BY <1>2, <2>0 DEF S!PutAside, S!TypeOK
  <2>3. \/ aside' \in {clipboard, S!Empty} /\ warned' = warned
        \/ aside' = S!Nothing /\ warned' = TRUE
    BY <1>2 DEF S!PutAside
  <2>4. clipboard # S!Nothing  BY DEF S!TypeOK
  <2>5. UNCHANGED <<clipboard, front, selection, original, calm, count, since>> /\ capture = "contents"
        /\ capture' = "count"
    BY <1>2 DEF S!PutAside
  <2>6. calm => clipboard = original /\ front = "idle" /\ selection = "none"  BY <2>5 DEF CalmInv
  <2>2. calm' => CalmInv'
    <3>1. calm' => IF aside' = S!Nothing THEN warned' ELSE aside' \in {original', S!Empty}
      BY <2>3, <2>4, <2>5, <2>6
    <3>. QED  BY <2>5, <2>6, <3>1 DEF CalmInv
  <2>. QED  BY <1>2, <2>1, <2>2 DEF S!PutAside
<1>3. CASE S!TakeCount
  <2>1. S!TypeOK'  BY <1>3 DEF S!TakeCount, S!TypeOK
  <2>2. calm' => CalmInv'  BY <1>3 DEF S!TakeCount, CalmInv
  <2>. QED  BY <1>3, <2>1, <2>2 DEF S!TakeCount
<1>4. CASE S!Press
  <2>1. S!TypeOK'  BY <1>4 DEF S!Press, S!TypeOK
  <2>2. calm' => CalmInv'  BY <1>4 DEF S!Press, CalmInv
  <2>. QED  BY <1>4, <2>1, <2>2 DEF S!Press
<1>5. CASE S!PollReads \/ S!TimeUp
  <2>1. S!TypeOK'  BY <1>5 DEF S!PollReads, S!TimeUp, S!TypeOK, S!Read
  <2>2. calm' => CalmInv'
    <3>1. CASE S!PollReads
      BY <1>5, <3>1 DEF S!PollReads, S!Changed, S!Read, S!Selected, CalmInv
    <3>2. CASE S!TimeUp
      BY <1>5, <3>2 DEF S!TimeUp, S!Changed, CalmInv
    <3>. QED  BY <1>5, <3>1, <3>2
  <2>. QED  BY <1>5, <2>1, <2>2 DEF S!PollReads, S!TimeUp
<1>6. CASE S!Restore
  <2>1. clipboard' \in {clipboard, S!Empty} \/ (aside # S!Nothing /\ clipboard' = aside)
    BY <1>6 DEF S!Restore
  <2>0. warned' \in BOOLEAN /\ calm' \in BOOLEAN  BY <1>6 DEF S!Restore, S!TypeOK
  <2>7. count' \in {count, count + 1}  BY <1>6 DEF S!Restore
  <2>6. UNCHANGED <<front, aside, since, selection, original, runs, writes, machine>> /\ capture' = "over"
    BY <1>6 DEF S!Restore
  <2>8. clipboard' \in S!Content  BY <2>1 DEF S!TypeOK
  <2>9. since' \in 0 .. count'  BY <2>6, <2>7 DEF S!TypeOK
  <2>2. S!TypeOK'  BY <2>0, <2>6, <2>8, <2>9 DEF S!TypeOK
  <2>3. calm' => calm /\ front = "idle"  BY <1>6 DEF S!Restore, S!TypeOK
  <2>4. calm' => CalmInv'  BY <1>6, <2>3 DEF S!Restore, CalmInv, S!TypeOK
  <2>5. (clipboard.kind = "empty" => clipboard = S!Empty)'
    BY <2>1
  <2>. QED  BY <1>6, <2>2, <2>4, <2>5 DEF S!Restore
<1>. QED  BY <1>1, <1>2, <1>3, <1>4, <1>5, <1>6

\* Everyone else.
LEMMA OthersKeep ==
    ASSUME CaptureInv, S!Copies \/ S!OthersWrite \/ UNCHANGED S!vars
    PROVE  CaptureInv'
<1>. USE DEF CaptureInv, S!Kinds, S!Content, S!Empty, S!Nothing, S!Selected
<1>1. CASE S!Copies
  <2>1. S!TypeOK' /\ count' \in Nat  BY <1>1 DEF S!Copies, S!TypeOK
  <2>2. calm' => CalmInv'  BY <1>1 DEF S!Copies, CalmInv, S!TypeOK
  <2>. QED  BY <1>1, <2>1, <2>2 DEF S!Copies
<1>2. CASE S!OthersWrite
  <2>1. writes' \in 0 .. MaxWrites  BY <1>2, CaptureBounded DEF S!OthersWrite, S!TypeOK
  <2>2. count' = count + 1 /\ since' = since  BY <1>2 DEF S!OthersWrite
  <2>3. since' \in 0 .. count' /\ count' \in Nat  BY <2>2 DEF S!TypeOK
  <2>4. clipboard' \in S!Content  BY <1>2 DEF S!OthersWrite
  <2>5. calm' = FALSE /\ UNCHANGED <<front, capture, aside, selection, warned, original, runs, machine>>
    BY <1>2 DEF S!OthersWrite
  <2>7. calm' \in BOOLEAN /\ warned' \in BOOLEAN  BY <2>5 DEF S!TypeOK
  <2>6. S!TypeOK'
    <3>. HIDE DEF S!Content, S!Kinds
    <3>. QED  BY <2>1, <2>3, <2>4, <2>5, <2>7 DEF S!TypeOK
  <2>. QED  BY <1>2, <2>3, <2>5, <2>6 DEF S!OthersWrite
<1>3. CASE UNCHANGED S!vars
  BY <1>3 DEF S!vars, S!TypeOK, CalmInv
<1>. QED  BY <1>1, <1>2, <1>3

\* While nothing disturbs an extraction, the clipboard holds what the step it is
\* at leaves there.
THEOREM CaptureInductive == Spec => []CaptureInv
<1>1. Init => CaptureInv  BY CaptureInitHolds DEF Init
<1>2. CaptureInv /\ [S!Next]_S!vars => CaptureInv'
  BY ExtractionKeeps, OthersKeep DEF S!Next
<1>. QED  BY <1>1, <1>2, CaptureSteps, PTL DEF Spec

\* While nobody else writes, what is read is the selection, and what there was
\* is back after it, or cleared where it could not be put aside, unless the copy
\* came late or a warning was made.
THEOREM SelectionComesBack == Spec => []SelectionBack
<1>1. CaptureInv => SelectionBack  BY DEF CaptureInv, CalmInv, SelectionBack, S!SelectionBack
<1>. QED  BY <1>1, CaptureInductive, PTL

-----------------------------------------------------------------------------
(* The settings' effects                                                   *)

LEMMA EffectSteps == [Next]_all => [E!Next]_E!vars
<1>1. Next => E!Next \/ UNCHANGED effects
  BY DEF Next, Api, Capture, Bridge, Dictionary, Adapters, Models, Registry, Effects, Updates,
         desktop
<1>2. UNCHANGED all => UNCHANGED effects  BY DEF all, desktop
<1>3. UNCHANGED effects => UNCHANGED E!vars  BY DEF effects, E!vars, E!starting
<1>. QED  BY <1>1, <1>2, <1>3

Carrying == {"starting", "broken", "on", "failed"}

\* An effect is carried: the system has it, or refused just that.
Carried(k) == system[k] = store[k] \/ (refused[k] /\ tried[k] = store[k])

\* An effect that is not carried is cared for, by a loop that runs or is due;
\* and a correction corrects what the system refused, where an item has but
\* two states.
EffectsInv ==
    /\ {store, system, tried} \subseteq E!Settings
    /\ refused \in [E!Effects -> BOOLEAN]
    /\ sync \in [E!Effects -> {"idle", "applying", "correcting"}]
    /\ sync["login"] # "applying" /\ sync["theme"] # "correcting" /\ sync["server"] = "idle"
    /\ sync["login"] = "correcting" => refused["login"] /\ tried["login"] # system["login"]
    /\ awaited # {} => phase \in {"starting", "broken"}
    /\ phase \in Carrying =>
           \A k \in E!Effects : (k = "login" /\ ~supported) \/ k \in due \/ sync[k] # "idle" \/ Carried(k)

LEMMA EffectsInitHolds == E!Init => EffectsInv
BY DEF E!Init, EffectsInv, E!Settings, E!Wishes, E!Effects, Carrying

\* What a try leaves of one effect.
LEMMA SetsOne ==
    ASSUME EffectsInv, NEW k \in E!Effects, NEW left \in E!Wishes[k], NEW wish \in E!Wishes[k],
           NEW is_refused \in BOOLEAN, NEW then \in {"idle", "applying", "correcting"},
           E!Set(k, left, wish, is_refused, then)
    PROVE  /\ {system', tried'} \subseteq E!Settings
           /\ refused' \in [E!Effects -> BOOLEAN]
           /\ sync' \in [E!Effects -> {"idle", "applying", "correcting"}]
           /\ system'[k] = left /\ tried'[k] = wish /\ refused'[k] = is_refused
           /\ sync'[k] = then
           /\ \A j \in E!Effects \ {k} : /\ system'[j] = system[j] /\ tried'[j] = tried[j]
                                         /\ refused'[j] = refused[j] /\ sync'[j] = sync[j]
BY DEF EffectsInv, E!Set, E!Settings, E!Effects, E!Wishes

\* The first step of a loop leaves its effect carried, or the loop running.
LEMMA BeginsOne ==
    ASSUME EffectsInv, NEW k \in E!Effects, sync[k] = "idle",
           CASE k = "login" -> E!SyncLogin [] k = "theme" -> E!SyncTheme [] k = "server" -> E!SyncServer
    PROVE  \E left \in E!Wishes[k], is_refused \in BOOLEAN,
              then \in {"idle", "applying", "correcting"} :
               /\ E!Set(k, left, store[k], is_refused, then)
               /\ store[k] \in E!Wishes[k]
               /\ \/ then = "applying" /\ k = "theme"
                  \/ then = "correcting" /\ k = "login" /\ is_refused /\ left # store[k]
                  \/ then = "idle" /\ (left = store[k] \/ is_refused)
                  \/ then = "idle" /\ k = "login" /\ ~supported
<1>. USE DEF EffectsInv, E!Settings, E!Effects, E!Wishes
<1>1. CASE k = "login"  BY <1>1 DEF E!SyncLogin
<1>2. CASE k = "theme"  BY <1>2 DEF E!SyncTheme
<1>3. CASE k = "server"  BY <1>3 DEF E!SyncServer
<1>. QED  BY <1>1, <1>2, <1>3

LEMMA BeginKeeps ==
    ASSUME EffectsInv, NEW k \in E!Effects, E!Begin(k)
    PROVE  EffectsInv'
<1>0. due' = due \ {k} /\ UNCHANGED <<store, supported>>  BY DEF E!Begin
<1>1. CASE sync[k] # "idle"
  <2>1. UNCHANGED <<system, tried, refused, sync, phase, awaited>>
    BY <1>1 DEF E!Begin, E!starting
  <2>2. ASSUME phase \in Carrying, NEW j \in E!Effects
        PROVE  (j = "login" /\ ~supported) \/ j \in due' \/ sync[j] # "idle" \/ Carried(j)
    BY <1>0, <1>1, <2>2 DEF EffectsInv
  <2>. QED  BY <1>0, <2>1, <2>2 DEF EffectsInv, Carried
<1>2. CASE sync[k] = "idle"
  <2>1. PICK left \in E!Wishes[k], is_refused \in BOOLEAN,
             then \in {"idle", "applying", "correcting"} :
               /\ E!Set(k, left, store[k], is_refused, then)
               /\ store[k] \in E!Wishes[k]
               /\ \/ then = "applying" /\ k = "theme"
                  \/ then = "correcting" /\ k = "login" /\ is_refused /\ left # store[k]
                  \/ then = "idle" /\ (left = store[k] \/ is_refused)
                  \/ then = "idle" /\ k = "login" /\ ~supported
    BY <1>2, BeginsOne DEF E!Begin
  <2>2. /\ {system', tried'} \subseteq E!Settings
        /\ refused' \in [E!Effects -> BOOLEAN]
        /\ sync' \in [E!Effects -> {"idle", "applying", "correcting"}]
        /\ system'[k] = left /\ tried'[k] = store[k] /\ refused'[k] = is_refused
        /\ sync'[k] = then
        /\ \A j \in E!Effects \ {k} : /\ system'[j] = system[j] /\ tried'[j] = tried[j]
                                      /\ refused'[j] = refused[j] /\ sync'[j] = sync[j]
    BY <2>1, SetsOne
  <2>3. /\ phase' \in Carrying => phase \in Carrying
        /\ awaited' # {} => phase' \in {"starting", "broken"}
    BY <1>2 DEF E!Begin, E!starting, E!Returns, E!Throws, Carrying, EffectsInv
  <2>4. /\ sync'["login"] # "applying" /\ sync'["theme"] # "correcting" /\ sync'["server"] = "idle"
        /\ sync'["login"] = "correcting" => refused'["login"] /\ tried'["login"] # system'["login"]
    BY <2>1, <2>2 DEF EffectsInv, E!Effects
  <2>5. ASSUME phase \in Carrying, NEW j \in E!Effects
        PROVE  (j = "login" /\ ~supported) \/ j \in due' \/ sync'[j] # "idle" \/ Carried(j)'
    <3>1. CASE j = k  BY <1>0, <2>1, <2>2, <3>1 DEF Carried
    <3>2. CASE j # k  BY <1>0, <2>2, <2>5, <3>2 DEF Carried, EffectsInv
    <3>. QED  BY <3>1, <3>2
  <2>. QED  BY <1>0, <2>2, <2>3, <2>4, <2>5 DEF EffectsInv
<1>. QED  BY <1>1, <1>2

\* The answers the loops wait for.
LEMMA AnswersKeep ==
    ASSUME EffectsInv, E!ThemeEnds \/ E!Corrected \/ E!CorrectionFails
    PROVE  EffectsInv'
<1>. USE DEF E!Effects
<1>1. CASE E!ThemeEnds
  <2>1. PICK ok \in BOOLEAN :
            /\ system' = IF ok THEN [system EXCEPT !.theme = tried.theme] ELSE system
            /\ refused' = [refused EXCEPT !.theme = ~ok]
    BY <1>1 DEF E!ThemeEnds
  <2>2. /\ UNCHANGED <<store, tried, supported>> /\ due = {} /\ sync.theme = "applying"
        /\ sync' = [sync EXCEPT !.theme = "idle"]
        /\ awaited' \subseteq awaited /\ phase' = phase
        /\ phase = "disposed" \/ store.theme = tried.theme \/ due' = {"theme"}
    BY <1>1 DEF E!ThemeEnds, E!Returns, E!starting
  <2>3. /\ system' \in E!Settings
        /\ \A j \in {"login", "server"} : system'[j] = system[j]
        /\ ok => system'["theme"] = tried["theme"]
    BY <2>1 DEF EffectsInv, E!Settings
  <2>4. /\ refused' \in [E!Effects -> BOOLEAN]
        /\ \A j \in {"login", "server"} : refused'[j] = refused[j]
        /\ ~ok => refused'["theme"]
    BY <2>1 DEF EffectsInv
  <2>5. /\ sync' \in [E!Effects -> {"idle", "applying", "correcting"}]
        /\ sync'["theme"] = "idle" /\ \A j \in {"login", "server"} : sync'[j] = sync[j]
    BY <2>2 DEF EffectsInv
  <2>6. ASSUME phase \in Carrying, NEW j \in E!Effects
        PROVE  (j = "login" /\ ~supported) \/ j \in due' \/ sync'[j] # "idle" \/ Carried(j)'
    <3>1. CASE j = "theme"  BY <2>2, <2>3, <2>4, <2>6, <3>1 DEF Carried, Carrying
    <3>2. CASE j # "theme"  BY <2>2, <2>3, <2>4, <2>5, <2>6, <3>2 DEF Carried, EffectsInv
    <3>. QED  BY <3>1, <3>2
  <2>. QED  BY <2>2, <2>3, <2>4, <2>5, <2>6 DEF EffectsInv
<1>2. CASE E!Corrected \/ E!CorrectionFails
  <2>1. /\ UNCHANGED <<system, tried, refused, due, supported>>
        /\ due = {} /\ sync.login = "correcting" /\ sync' = [sync EXCEPT !.login = "idle"]
        /\ store' = store \/ store' = [store EXCEPT !.login = system.login]
        /\ awaited' \subseteq awaited
        /\ phase' = phase \/ (phase' = "broken" /\ "login" \in awaited)
    BY <1>2 DEF E!Corrected, E!CorrectionFails, E!Returns, E!Throws
  <2>2. store' \in E!Settings /\ \A j \in {"theme", "server"} : store'[j] = store[j]
    BY <2>1 DEF EffectsInv, E!Settings, E!Wishes
  <2>3. /\ sync' \in [E!Effects -> {"idle", "applying", "correcting"}]
        /\ sync'["login"] = "idle" /\ \A j \in {"theme", "server"} : sync'[j] = sync[j]
    BY <2>1 DEF EffectsInv
  <2>4. Carried("login")'
    BY <2>1, <2>2 DEF Carried, EffectsInv, E!Settings, E!Wishes
  <2>5. phase' \in Carrying => phase \in Carrying
    BY <2>1 DEF EffectsInv, Carrying
  <2>6. ASSUME phase \in Carrying, NEW j \in E!Effects
        PROVE  (j = "login" /\ ~supported) \/ j \in due' \/ sync'[j] # "idle" \/ Carried(j)'
    BY <2>1, <2>2, <2>3, <2>4, <2>6 DEF Carried, EffectsInv
  <2>7. awaited' # {} => phase' \in {"starting", "broken"}
    BY <2>1 DEF EffectsInv
  <2>. QED  BY <2>1, <2>2, <2>3, <2>5, <2>6, <2>7 DEF EffectsInv
<1>. QED  BY <1>1, <1>2

\* What sets the loops going.
LEMMA StartsKeep ==
    ASSUME EffectsInv, E!Start \/ E!Seeded \/ E!Started \/ E!Dispose \/ UNCHANGED E!vars
    PROVE  EffectsInv'
<1>1. CASE E!Start \/ E!Seeded
  <2>1. UNCHANGED <<store, system, tried, refused, sync, supported>>
    BY <1>1 DEF E!Start, E!Seeded
  <2>2. /\ awaited = {}
        /\ (phase' \notin Carrying /\ awaited' = awaited)
           \/ (phase' = "starting" /\ due' = E!Effects)
    BY <1>1 DEF E!Start, E!Seeded, Carrying, EffectsInv
  <2>. QED  BY <2>1, <2>2 DEF EffectsInv
<1>2. CASE E!Started \/ E!Dispose
  <2>1. UNCHANGED <<store, system, tried, refused, sync, due, supported>>
    BY <1>2 DEF E!Started, E!Dispose
  <2>2. awaited' = {} /\ (phase' \in Carrying => phase \in Carrying)
    BY <1>2 DEF E!Started, E!Dispose, Carrying, EffectsInv
  <2>. QED  BY <2>1, <2>2 DEF EffectsInv, Carried
<1>3. CASE UNCHANGED E!vars
  BY <1>3 DEF E!vars, E!starting, EffectsInv, Carried
<1>. QED  BY <1>1, <1>2, <1>3

\* An answer with settings makes the loop of its section due.
LEMMA NewsKeeps ==
    ASSUME EffectsInv, NEW k \in E!Effects, NEW w \in E!Wishes[k], E!News(k, w)
    PROVE  EffectsInv'
<1>1. /\ UNCHANGED <<system, tried, refused, sync, phase, awaited, supported>>
      /\ due = {} /\ (phase \in Carrying => due' = {k})
  BY DEF E!News, E!Listening, E!starting, Carrying
<1>2. store' \in E!Settings /\ \A j \in E!Effects \ {k} : store'[j] = store[j]
  BY DEF E!News, EffectsInv, E!Settings, E!Wishes, E!Effects
<1>3. ASSUME phase \in Carrying, NEW j \in E!Effects
      PROVE  (j = "login" /\ ~supported) \/ j \in due' \/ sync[j] # "idle" \/ Carried(j)'
  BY <1>1, <1>2, <1>3 DEF Carried, EffectsInv
<1>. QED  BY <1>1, <1>2, <1>3 DEF EffectsInv

\* What the system does not have of the settings, and did not refuse, is owed:
\* its loop runs or is due.
THEOREM EffectsInductive == Spec => []EffectsInv
<1>1. Init => EffectsInv  BY EffectsInitHolds DEF Init
<1>2. EffectsInv /\ [E!Next]_E!vars => EffectsInv'
  BY BeginKeeps, AnswersKeep, StartsKeep, NewsKeeps DEF E!Next
<1>. QED  BY <1>1, <1>2, EffectSteps, PTL DEF Spec

LEMMA EffectsFollowHere == EffectsInv => E!EffectsFollow
BY DEF EffectsInv, E!EffectsFollow, Carried, Carrying

-----------------------------------------------------------------------------
(* The local server                                                        *)

LEMMA ApiSteps == [Next]_all => [A!Next]_A!vars
<1>1. Next => A!Next \/ UNCHANGED api
  BY DEF Next, Api, Capture, Bridge, Dictionary, Adapters, Models, Registry, Effects, Updates
<1>2. UNCHANGED all => UNCHANGED api  BY DEF all
<1>3. UNCHANGED api => UNCHANGED A!vars  BY DEF api, A!vars, A!serving
<1>. QED  BY <1>1, <1>2, <1>3

LEMMA ZeroIsNoStart == A!None \notin A!Starts
BY DEF A!None, A!Starts

\* No loop but that of the server there is; its flag goes up only while it is
\* being stopped; and while nothing is being stopped the server is there as
\* the setting asks, or failed to start.
ServerInv ==
    /\ app \in {"idle", "stop", "wake", "join", "start"}
    /\ server \in A!Starts \cup {A!None}
    /\ DOMAIN loop = A!Starts /\ DOMAIN port = A!Starts /\ DOMAIN stopped = A!Starts
    /\ \A i \in A!Starts : loop[i] = "accepting" => server = i
    /\ \A i \in A!Starts : stopped[i] => loop[i] = "over" \/ (server = i /\ app \in {"wake", "join"})
    /\ app \in {"idle", "stop"} /\ server # A!None => loop[server] = "accepting"
    /\ app \in {"stop", "wake", "join"} => server # A!None
    /\ app = "start" => server = A!None
    /\ app = "idle" => IF server = A!None THEN wanted = Off \/ failed ELSE port[server] = wanted

LEMMA ServerInitHolds == A!Init => ServerInv
BY ZeroIsNoStart DEF A!Init, ServerInv

LEMMA ApplicationKeeps ==
    ASSUME ServerInv, (\E w \in Ports \cup {Off} : A!Change(w)) \/ A!AppStep
    PROVE  ServerInv'
<1>. USE ZeroIsNoStart DEF ServerInv
<1>1. CASE \E w \in Ports \cup {Off} : A!Change(w)
  <2>1. PICK w \in Ports \cup {Off} : A!Change(w)  BY <1>1
  <2>2. UNCHANGED <<server, failed, loop, port, stopped>> /\ wanted' = w /\ app = "idle"
    BY <2>1 DEF A!Change, A!serving
  <2>3. \/ app' = "idle" /\ server # A!None /\ w = port[server]
        \/ app' = "stop" /\ server # A!None
        \/ app' = "start" /\ server = A!None
        \/ app' = "idle" /\ server = A!None /\ w = Off
    BY <2>1 DEF A!Change
  <2>. QED  BY <2>2, <2>3
<1>2. CASE A!RaiseFlag
  BY <1>2 DEF A!RaiseFlag
<1>3. CASE A!WakeLoop
  BY <1>3 DEF A!WakeLoop
<1>4. CASE A!Join
  BY <1>4 DEF A!Join, A!serving
<1>5. CASE A!Start
  <2>1. CASE server' = A!None /\ failed' = TRUE /\ UNCHANGED <<loop, port>>
    BY <1>5, <2>1 DEF A!Start
  <2>2. CASE \E i \in A!Starts :
             /\ loop[i] = "unborn" /\ \A j \in A!Starts : j < i => loop[j] # "unborn"
             /\ \A j \in A!Starts : loop[j] = "accepting" => port[j] # wanted
             /\ loop' = [loop EXCEPT ![i] = "accepting"]
             /\ port' = [port EXCEPT ![i] = wanted]
             /\ server' = i /\ failed' = FALSE
    BY <1>5, <2>2 DEF A!Start
  <2>. QED  BY <1>5, <2>1, <2>2 DEF A!Start
<1>. QED  BY <1>1, <1>2, <1>3, <1>4, <1>5 DEF A!AppStep

LEMMA LoopKeeps == ASSUME ServerInv, NEW i \in A!Starts, A!Accept(i) PROVE ServerInv'
<1>. USE DEF ServerInv
<1>1. UNCHANGED <<wanted, app, server, failed, port, stopped>> /\ loop[i] = "accepting"
  BY DEF A!Accept
<1>2. CASE stopped[i]
  BY <1>1, <1>2 DEF A!Accept
<1>3. CASE ~stopped[i]
  BY <1>1, <1>3 DEF A!Accept
<1>. QED  BY <1>2, <1>3

LEMMA ServerStepKeeps == ASSUME ServerInv, [A!Next]_A!vars PROVE ServerInv'
<1>1. CASE UNCHANGED <<wanted, app, server, failed, loop, port, stopped>>
  BY <1>1 DEF ServerInv
<1>. QED  BY <1>1, ApplicationKeeps, LoopKeeps
     DEF A!Next, A!vars, A!serving, A!Read, A!ReadEnds, A!CallEnds, A!Send, A!Connect, A!TakeAction

\* Only the loop of the server there is accepts, and it is stopped or as wanted.
THEOREM ServerInductive == Spec => []ServerInv
<1>1. Init => ServerInv  BY ServerInitHolds DEF Init
<1>. QED  BY <1>1, ServerStepKeeps, ApiSteps, PTL DEF Spec

LEMMA ServerAsWantedHere == ServerInv => A!ServerAsWanted
BY ZeroIsNoStart DEF ServerInv, A!ServerAsWanted

\* The login item, the appearance and the server are as the settings ask, or
\* were refused just that, and no loop of an earlier server is left.
THEOREM SystemIsAsWanted == Spec => []SystemAsWanted
<1>1. EffectsInv /\ ServerInv => SystemAsWanted
  BY EffectsFollowHere, ServerAsWantedHere DEF SystemAsWanted
<1>. QED  BY <1>1, EffectsInductive, ServerInductive, PTL

\* A connection as its request's bytes, its answer and its action go together:
\* nothing is answered before it is over, a call and any answer but a refusal
\* have the whole request, and an action was emitted for a 202 and no other.
Connections ==
    [step : {"away", "queued", "reading", "calling", "over"}, request : Messages \cup {A!None},
     sent : 0 .. 2, got : 0 .. 2, closed : BOOLEAN, answer : A!Statuses \cup {A!None}, emitted : 0 .. 1]

Sound(d) ==
    /\ d \in Connections
    /\ d.got <= d.sent
    /\ d.step \in {"away", "queued"} => d.got = 0
    /\ d.step # "over" => d.answer = A!None
    /\ d.step # "away" => d.request \in Messages
    /\ d.emitted = IF d.answer = 202 THEN 1 ELSE 0
    /\ d.step = "calling" \/ d.answer \notin {A!None, 400} =>
           d.got >= A!Whole(d.request) /\ d.request.length # "bad"

\* A client waits in one place of one listener's queue.
QueuesInv ==
    /\ backlog \in [A!Starts -> Seq(Clients \cup {Wake})]
    /\ \A i \in A!Starts : \A k \in DOMAIN backlog[i] :
           backlog[i][k] # Wake => conn[backlog[i][k]].step = "queued"
    /\ \A i, j \in A!Starts : \A k \in DOMAIN backlog[i], l \in DOMAIN backlog[j] :
           backlog[i][k] = backlog[j][l] /\ backlog[i][k] # Wake => i = j /\ k = l

RequestsInv ==
    /\ DOMAIN conn = Clients
    /\ \A c \in Clients : Sound(conn[c])
    /\ QueuesInv

LEMMA StatusNumbers ==
    /\ A!None \notin A!Statuses /\ {202, 400} \subseteq A!Statuses /\ A!CallStatuses \subseteq A!Statuses
    /\ 202 \notin A!CallStatuses /\ A!None = 0
BY DEF A!None, A!Statuses, A!CallStatuses

LEMMA VerdictIsStatus == ASSUME NEW r PROVE A!Verdict(r) \in A!Statuses
BY DEF A!Verdict, A!Statuses, A!CallStatuses

LEMMA AnsweredSound ==
    ASSUME NEW d, Sound(d), d.step \in {"reading", "calling"},
           NEW got \in d.got .. d.sent, NEW status \in A!Statuses,
           status # 400 => got >= A!Whole(d.request) /\ d.request.length # "bad"
    PROVE  Sound(A!Answered(d, got, status))
<1> DEFINE e == A!Answered(d, got, status)
<1>1. d \in Connections /\ d.got \in 0 .. 2 /\ d.sent \in 0 .. 2 /\ d.got <= d.sent
      /\ d.answer = A!None /\ d.request \in Messages /\ d.closed \in BOOLEAN
  BY DEF Sound, Connections
<1>2. d.emitted = 0  BY <1>1, StatusNumbers DEF Sound
<1>3. PICK n \in 0 .. 1 : n = d.emitted + (IF status = 202 THEN 1 ELSE 0)  BY <1>2
<1>4. got \in 0 .. 2  BY <1>1
<1>5. e = [d EXCEPT !.got = got, !.step = "over", !.closed = TRUE, !.sent = got,
                      !.answer = status, !.emitted = n]
  BY <1>1, <1>3 DEF A!Answered, A!Shut, Connections
<1>. HIDE DEF e
<1>6. e \in Connections  BY <1>1, <1>4, <1>5 DEF Connections
<1>8. e.step = "over" /\ e.got = got /\ e.answer = status /\ e.request = d.request /\ e.sent = got
      /\ e.emitted = n
  BY <1>1, <1>5 DEF Connections
<1>7. Sound(e)  BY <1>1, <1>2, <1>3, <1>6, <1>8, StatusNumbers DEF Sound
<1>. QED  BY <1>7 DEF e

LEMMA RequestsInitHold == A!Init => RequestsInv
<1>. SUFFICES ASSUME A!Init PROVE RequestsInv
  OBVIOUS
<1>1. Sound(A!Away)  BY StatusNumbers DEF Sound, A!Away, Connections
<1>2. DOMAIN conn = Clients /\ \A c \in Clients : conn[c] = A!Away  BY DEF A!Init
<1>3. backlog = [i \in A!Starts |-> <<>>]  BY DEF A!Init
<1>4. QueuesInv  BY <1>3 DEF QueuesInv
<1>. QED  BY <1>1, <1>2, <1>4 DEF RequestsInv

\* A step of one connection that is in no queue.
LEMMA ConversationKeeps ==
    ASSUME RequestsInv, NEW c \in Clients, NEW d, Sound(d), conn' = [conn EXCEPT ![c] = d],
           conn[c].step # "queued" \/ d.step = "queued", UNCHANGED backlog
    PROVE  RequestsInv'
<1>1. DOMAIN conn' = Clients /\ \A e \in Clients : Sound(conn'[e])  BY DEF RequestsInv
<1>2. \A e \in Clients : conn[e].step = "queued" => conn'[e].step = "queued"  BY DEF RequestsInv
<1>3. \A i \in A!Starts : \A k \in DOMAIN backlog[i] : backlog[i][k] # Wake => backlog[i][k] \in Clients
  BY DEF RequestsInv, QueuesInv
<1>4. QueuesInv'  BY <1>2, <1>3 DEF RequestsInv, QueuesInv
<1>5. (\A e \in Clients : Sound(conn[e]))'  BY <1>1
<1>. QED  BY <1>1, <1>4, <1>5 DEF RequestsInv

LEMMA AnswerKeeps ==
    ASSUME RequestsInv, NEW c \in Clients, conn[c].step \in {"reading", "calling"}, UNCHANGED backlog,
           NEW got \in conn[c].got .. conn[c].sent, NEW status \in A!Statuses,
           status # 400 => got >= A!Whole(conn[c].request) /\ conn[c].request.length # "bad",
           A!Answer(c, got, status)
    PROVE  RequestsInv'
<1>1. Sound(conn[c])  BY DEF RequestsInv
<1>2. Sound(A!Answered(conn[c], got, status))  BY <1>1, AnsweredSound
<1>3. conn' = [conn EXCEPT ![c] = A!Answered(conn[c], got, status)]  BY DEF A!Answer
<1>4. QED  BY <1>2, <1>3, ConversationKeeps

LEMMA DispatchKeeps ==
    ASSUME RequestsInv, NEW c \in Clients, conn[c].step = "reading", UNCHANGED backlog,
           NEW got \in conn[c].got .. conn[c].sent, A!Dispatch(c, got),
           got >= A!Whole(conn[c].request), conn[c].request.length # "bad"
    PROVE  RequestsInv'
<1>1. CASE A!Delegated(conn[c].request)
  <2> DEFINE e == [conn[c] EXCEPT !.step = "calling", !.got = got]
  <2>1. Sound(conn[c])  BY DEF RequestsInv
  <2>2. /\ conn[c] \in Connections /\ conn[c].sent \in 0 .. 2 /\ conn[c].got \in 0 .. 2
    BY <2>1 DEF Sound, Connections
  <2>6. e \in Connections
    <3>2. got \in 0 .. 2  BY <2>2
    <3>. QED  BY <2>2, <3>2 DEF Connections
  <2>3. e.step = "calling" /\ e.got = got /\ e.sent = conn[c].sent
        /\ e.request = conn[c].request /\ e.answer = conn[c].answer /\ e.emitted = conn[c].emitted
    BY <2>2 DEF Connections
  <2>4. conn' = [conn EXCEPT ![c] = e]  BY <1>1 DEF A!Dispatch
  <2>. HIDE DEF e
  <2>5. Sound(e)  BY <2>1, <2>2, <2>3, <2>6 DEF Sound
  <2>. QED  BY <2>3, <2>4, <2>5, ConversationKeeps
<1>2. CASE ~A!Delegated(conn[c].request)
  <2>1. A!Answer(c, got, A!Verdict(conn[c].request))  BY <1>2 DEF A!Dispatch
  <2>2. A!Verdict(conn[c].request) \in A!Statuses  BY VerdictIsStatus
  <2>. QED  BY <2>1, <2>2, AnswerKeeps
<1>. QED  BY <1>1, <1>2

\* The part of a request that arrived, and what becomes of it.
LEMMA ReadKeeps == ASSUME RequestsInv, NEW c \in Clients, A!Read(c) PROVE RequestsInv'
<1> DEFINE r == conn[c].request
<1>1. PICK got \in conn[c].got + 1 .. conn[c].sent :
          \/ r.length = "bad" /\ A!Answer(c, got, 400)
          \/ r.length # "bad" /\ got >= A!Whole(r) /\ A!Dispatch(c, got)
          \/ /\ r.length # "bad" /\ got < A!Whole(r)
             /\ conn' = [conn EXCEPT ![c].got = got] /\ UNCHANGED actions
  BY DEF A!Read
<1>2. conn[c].step = "reading" /\ UNCHANGED backlog  BY DEF A!Read, A!serving
<1>3. Sound(conn[c]) /\ DOMAIN conn = Clients  BY DEF RequestsInv
<1>4. /\ conn[c] \in Connections /\ conn[c].sent \in 0 .. 2 /\ conn[c].got \in 0 .. 2
  BY <1>3 DEF Sound, Connections
<1>5. got \in conn[c].got .. conn[c].sent /\ got \in 0 .. 2  BY <1>4
<1>6. CASE r.length = "bad" /\ A!Answer(c, got, 400)
  BY <1>2, <1>5, <1>6, AnswerKeeps, StatusNumbers
<1>7. CASE r.length # "bad" /\ got >= A!Whole(r) /\ A!Dispatch(c, got)
  BY <1>2, <1>5, <1>7, DispatchKeeps
<1>8. CASE conn' = [conn EXCEPT ![c].got = got]
  <2> DEFINE e == [conn[c] EXCEPT !.got = got]
  <2>1. conn' = [conn EXCEPT ![c] = e]  BY <1>8
  <2>2. e \in Connections /\ e.step = "reading" /\ e.got = got /\ e.sent = conn[c].sent
        /\ e.request = conn[c].request /\ e.answer = conn[c].answer /\ e.emitted = conn[c].emitted
    BY <1>2, <1>4, <1>5 DEF Connections
  <2>. HIDE DEF e
  <2>3. Sound(e)  BY <1>2, <1>3, <1>5, <2>2 DEF Sound
  <2>. QED  BY <1>2, <2>1, <2>3, ConversationKeeps
<1>. QED  BY <1>1, <1>6, <1>7, <1>8

LEMMA ClientKeeps ==
    ASSUME RequestsInv, NEW c \in Clients, A!ReadEnds(c) \/ A!CallEnds(c) \/ A!Send(c)
    PROVE  RequestsInv'
<1>1. Sound(conn[c]) /\ DOMAIN conn = Clients  BY DEF RequestsInv
<1>2. /\ conn[c] \in Connections /\ conn[c].sent \in 0 .. 2 /\ conn[c].got \in 0 .. 2
      /\ conn[c].got \in conn[c].got .. conn[c].sent
  BY <1>1 DEF Sound, Connections
<1>3. UNCHANGED backlog  BY DEF A!ReadEnds, A!CallEnds, A!Send, A!serving
<1>4. CASE A!ReadEnds(c)
  BY <1>2, <1>3, <1>4, AnswerKeeps, StatusNumbers DEF A!ReadEnds
<1>5. CASE A!CallEnds(c)
  <2>1. PICK status \in A!CallStatuses : A!Answer(c, conn[c].got, status)  BY <1>5 DEF A!CallEnds
  <2>2. conn[c].step = "calling"  BY <1>5 DEF A!CallEnds
  <2>3. conn[c].got >= A!Whole(conn[c].request) /\ conn[c].request.length # "bad"  BY <1>1, <2>2 DEF Sound
  <2>. QED  BY <1>2, <1>3, <2>1, <2>2, <2>3, AnswerKeeps, StatusNumbers
<1>6. CASE A!Send(c)
  <2>1. PICK d \in {[conn[c] EXCEPT !.sent = @ + 1], [conn[c] EXCEPT !.closed = TRUE]} :
            conn' = [conn EXCEPT ![c] = d]
    BY <1>6 DEF A!Send
  <2>2. conn[c].sent < 2  BY <1>6 DEF A!Send
  <2>5. d \in Connections
    <3>1. CASE d = [conn[c] EXCEPT !.sent = @ + 1]
      BY <1>2, <2>2, <3>1 DEF Connections
    <3>2. CASE d = [conn[c] EXCEPT !.closed = TRUE]
      BY <1>2, <3>2 DEF Connections
    <3>. QED  BY <2>1, <3>1, <3>2
  <2>3. /\ d.step = conn[c].step /\ d.got = conn[c].got /\ d.sent >= conn[c].sent
        /\ d.request = conn[c].request /\ d.answer = conn[c].answer /\ d.emitted = conn[c].emitted
    BY <1>2, <2>2 DEF Connections
  <2>4. Sound(d)  BY <1>1, <1>2, <2>3, <2>5 DEF Sound, Connections
  <2>. QED  BY <1>3, <2>1, <2>3, <2>4, ConversationKeeps
<1>. QED  BY <1>4, <1>5, <1>6

\* A connection that leaves the queue: it is read, or closed.
Left(d, s) == IF s = "over" THEN A!Shut(d) ELSE [d EXCEPT !.step = s]

LEMMA LeftSound ==
    ASSUME NEW d, Sound(d), d.step = "queued", NEW s \in {"reading", "over"}
    PROVE  Sound(Left(d, s))
<1> DEFINE e == Left(d, s)
<1>1. d \in Connections /\ d.got \in 0 .. 2  BY DEF Sound, Connections
<1>2. e \in Connections /\ e.step = s /\ e.got = d.got /\ e.sent \in {d.sent, d.got}
      /\ e.request = d.request /\ e.answer = d.answer /\ e.emitted = d.emitted
  BY <1>1 DEF Connections, Left, A!Shut
<1>. HIDE DEF e
<1>3. Sound(e)  BY <1>1, <1>2 DEF Sound
<1>. QED  BY <1>3 DEF e

LEMMA QueueTyped ==
    ASSUME QueuesInv, NEW i \in A!Starts
    PROVE  /\ backlog[i] \in Seq(Clients \cup {Wake}) /\ DOMAIN backlog[i] = 1 .. Len(backlog[i])
           /\ Len(backlog[i]) \in Nat /\ DOMAIN backlog = A!Starts
           /\ \A k \in DOMAIN backlog[i] : backlog[i][k] \in Clients \cup {Wake}
BY DEF QueuesInv

\* The loop takes the first of its queue, whom no other queue has.
LEMMA AcceptKeeps == ASSUME RequestsInv, NEW i \in A!Starts, A!Accept(i) PROVE RequestsInv'
<1>1. DOMAIN conn = Clients /\ (\A c \in Clients : Sound(conn[c])) /\ QueuesInv /\ backlog[i] # <<>>
  BY DEF RequestsInv, A!Accept
<1>2. \A j \in A!Starts : /\ backlog[j] \in Seq(Clients \cup {Wake})
                          /\ DOMAIN backlog[j] = 1 .. Len(backlog[j]) /\ Len(backlog[j]) \in Nat
                          /\ \A k \in DOMAIN backlog[j] : backlog[j][k] \in Clients \cup {Wake}
  BY <1>1, QueueTyped
<1>3. DOMAIN backlog = A!Starts  BY <1>1, QueueTyped
<1>4. CASE stopped[i]
  <2>1. backlog' = [backlog EXCEPT ![i] = <<>>]  BY <1>4 DEF A!Accept
  <2>2. conn' = [c \in Clients |-> IF \E k \in DOMAIN backlog[i] : backlog[i][k] = c
                                   THEN Left(conn[c], "over") ELSE conn[c]]
    BY <1>4 DEF A!Accept, Left
  <2>3. DOMAIN conn' = Clients  BY <2>2
  <2>4. ASSUME NEW c \in Clients PROVE Sound(conn'[c])
    <3>1. CASE \E k \in DOMAIN backlog[i] : backlog[i][k] = c
      <4>1. conn[c].step = "queued"  BY <1>1, <3>1, WakeAssumption DEF QueuesInv
      <4>2. conn'[c] = Left(conn[c], "over")  BY <2>2, <3>1
      <4>. QED  BY <1>1, <4>1, <4>2, LeftSound
    <3>2. CASE ~\E k \in DOMAIN backlog[i] : backlog[i][k] = c
      BY <1>1, <2>2, <3>2
    <3>. QED  BY <3>1, <3>2
  <2>5. \A j \in A!Starts : backlog'[j] = IF j = i THEN <<>> ELSE backlog[j]  BY <1>3, <2>1
  <2>6. \A j \in A!Starts : \A k \in DOMAIN backlog'[j] : j # i /\ k \in DOMAIN backlog[j]
            /\ backlog'[j][k] = backlog[j][k]
    BY <2>5
  <2>7. \A j \in A!Starts : \A k \in DOMAIN backlog'[j] :
            backlog'[j][k] # Wake => conn'[backlog'[j][k]].step = "queued"
    <3> SUFFICES ASSUME NEW j \in A!Starts, NEW k \in DOMAIN backlog'[j], backlog'[j][k] # Wake
                 PROVE  conn'[backlog'[j][k]].step = "queued"
      OBVIOUS
    <3>1. j # i /\ k \in DOMAIN backlog[j] /\ backlog'[j][k] = backlog[j][k]  BY <2>6
    <3>2. backlog[j][k] \in Clients /\ conn[backlog[j][k]].step = "queued"
      BY <1>1, <1>2, <3>1 DEF QueuesInv
    <3>3. ~\E l \in DOMAIN backlog[i] : backlog[i][l] = backlog[j][k]  BY <1>1, <3>1 DEF QueuesInv
    <3>. QED  BY <2>2, <3>1, <3>2, <3>3
  <2>8. backlog' \in [A!Starts -> Seq(Clients \cup {Wake})]  BY <1>1, <2>1 DEF QueuesInv
  <2>9. \A j, m \in A!Starts : \A k \in DOMAIN backlog'[j], l \in DOMAIN backlog'[m] :
            backlog'[j][k] = backlog'[m][l] /\ backlog'[j][k] # Wake => j = m /\ k = l
    BY <1>1, <2>6 DEF QueuesInv
  <2>10. QueuesInv'  BY <2>7, <2>8, <2>9 DEF QueuesInv
  <2>. QED  BY <2>3, <2>4, <2>10 DEF RequestsInv
<1>5. CASE ~stopped[i]
  <2>1. backlog' = [backlog EXCEPT ![i] = Tail(backlog[i])]  BY <1>5 DEF A!Accept
  <2>2. PICK s \in {"reading", "over"} : conn' = [conn EXCEPT ![Head(backlog[i])] = Left(@, s)]
    BY <1>5 DEF A!Accept, Left
  <2>3. 1 \in DOMAIN backlog[i] /\ Head(backlog[i]) = backlog[i][1]  BY <1>1, <1>2
  <2>4. /\ Tail(backlog[i]) \in Seq(Clients \cup {Wake})
        /\ \A k \in DOMAIN Tail(backlog[i]) :
               k + 1 \in DOMAIN backlog[i] /\ k \in Nat /\ k > 0 /\ Tail(backlog[i])[k] = backlog[i][k + 1]
    BY <1>1, <1>2, HeadTailProperties
  <2>5. \A j \in A!Starts : backlog'[j] = IF j = i THEN Tail(backlog[i]) ELSE backlog[j]  BY <1>3, <2>1
  <2> DEFINE From(j, k) == IF j = i THEN k + 1 ELSE k
  <2>6. \A j \in A!Starts : \A k \in DOMAIN backlog'[j] :
            /\ From(j, k) \in DOMAIN backlog[j] /\ backlog'[j][k] = backlog[j][From(j, k)]
            /\ k \in Nat /\ (j = i => From(j, k) # 1)
    <3> SUFFICES ASSUME NEW j \in A!Starts, NEW k \in DOMAIN backlog'[j]
                 PROVE  /\ From(j, k) \in DOMAIN backlog[j] /\ backlog'[j][k] = backlog[j][From(j, k)]
                        /\ k \in Nat /\ (j = i => From(j, k) # 1)
      OBVIOUS
    <3>1. CASE j = i
      <4>1. backlog'[j] = Tail(backlog[i]) /\ k \in DOMAIN Tail(backlog[i]) /\ From(j, k) = k + 1
        BY <2>5, <3>1
      <4>2. k \in Nat /\ k > 0 /\ k + 1 \in DOMAIN backlog[i] /\ Tail(backlog[i])[k] = backlog[i][k + 1]
        BY <2>4, <4>1
      <4>. HIDE DEF From
      <4>. QED  BY <3>1, <4>1, <4>2
    <3>2. CASE j # i  BY <1>2, <2>5, <3>2
    <3>. QED  BY <3>1, <3>2
  <2>7. \A j, m \in A!Starts : \A k \in DOMAIN backlog'[j], l \in DOMAIN backlog'[m] :
            backlog'[j][k] = backlog'[m][l] /\ backlog'[j][k] # Wake => j = m /\ k = l
    <3> SUFFICES ASSUME NEW j \in A!Starts, NEW m \in A!Starts, NEW k \in DOMAIN backlog'[j],
                        NEW l \in DOMAIN backlog'[m], backlog'[j][k] = backlog'[m][l],
                        backlog'[j][k] # Wake
                 PROVE  j = m /\ k = l
      OBVIOUS
    <3>1. j = m /\ From(j, k) = From(m, l)
      <4>. HIDE DEF From
      <4>. QED  BY <1>1, <2>6 DEF QueuesInv
    <3>. QED  BY <2>6, <3>1
  <2>8. backlog' \in [A!Starts -> Seq(Clients \cup {Wake})]  BY <1>1, <2>1, <2>4 DEF QueuesInv
  <2>9. \A c \in Clients : conn'[c] = IF c = Head(backlog[i]) THEN Left(conn[c], s) ELSE conn[c]
    BY <1>1, <2>2
  <2>10. DOMAIN conn' = Clients  BY <1>1, <2>2
  <2>11. ASSUME NEW c \in Clients PROVE Sound(conn'[c])
    <3>1. CASE c = Head(backlog[i])
      <4>1. conn[c].step = "queued"  BY <1>1, <2>3, <3>1, WakeAssumption DEF QueuesInv
      <4>2. conn'[c] = Left(conn[c], s)  BY <2>9, <3>1
      <4>3. Sound(Left(conn[c], s))  BY <1>1, <4>1, LeftSound
      <4>. QED  BY <4>2, <4>3
    <3>2. CASE c # Head(backlog[i])  BY <1>1, <2>9, <3>2
    <3>. QED  BY <3>1, <3>2
  <2>12. \A j \in A!Starts : \A k \in DOMAIN backlog'[j] :
            backlog'[j][k] # Wake => conn'[backlog'[j][k]].step = "queued"
    <3> SUFFICES ASSUME NEW j \in A!Starts, NEW k \in DOMAIN backlog'[j], backlog'[j][k] # Wake
                 PROVE  conn'[backlog'[j][k]].step = "queued"
      OBVIOUS
    <3>1. /\ From(j, k) \in DOMAIN backlog[j] /\ backlog'[j][k] = backlog[j][From(j, k)]
          /\ (j = i => From(j, k) # 1)
      BY <2>6
    <3>. HIDE DEF From
    <3>2. backlog'[j][k] \in Clients /\ conn[backlog'[j][k]].step = "queued"
      BY <1>1, <1>2, <3>1 DEF QueuesInv
    <3>3. backlog'[j][k] # Head(backlog[i])  BY <1>1, <2>3, <3>1 DEF QueuesInv
    <3>. QED  BY <2>9, <3>2, <3>3
  <2>13. QueuesInv'  BY <2>7, <2>8, <2>12 DEF QueuesInv
  <2>. QED  BY <2>10, <2>11, <2>13 DEF RequestsInv
<1>. QED  BY <1>4, <1>5

\* One more at the end of a queue: the waking connection, or a client that was
\* in none.
LEMMA EnqueueKeeps ==
    ASSUME QueuesInv, NEW i \in A!Starts, NEW x \in Clients \cup {Wake},
           backlog' = [backlog EXCEPT ![i] = Append(backlog[i], x)],
           x = Wake \/ (conn[x].step # "queued" /\ conn'[x].step = "queued"),
           \A c \in Clients : conn[c].step = "queued" => conn'[c].step = "queued"
    PROVE  QueuesInv'
<1>1. \A j \in A!Starts : /\ backlog[j] \in Seq(Clients \cup {Wake})
                          /\ DOMAIN backlog[j] = 1 .. Len(backlog[j]) /\ Len(backlog[j]) \in Nat
                          /\ \A k \in DOMAIN backlog[j] : backlog[j][k] \in Clients \cup {Wake}
  BY QueueTyped
<1>2. DOMAIN backlog = A!Starts  BY QueueTyped
<1>3. \A j \in A!Starts : backlog'[j] = IF j = i THEN Append(backlog[i], x) ELSE backlog[j]  BY <1>2
<1>4. Append(backlog[i], x) \in Seq(Clients \cup {Wake})  BY <1>1
<1> DEFINE Old(j, k) == k \in DOMAIN backlog[j] /\ backlog'[j][k] = backlog[j][k]
           New(j, k) == j = i /\ k = Len(backlog[i]) + 1 /\ backlog'[j][k] = x
<1>5. \A j \in A!Starts : \A k \in DOMAIN backlog'[j] : Old(j, k) \/ New(j, k)
  <2> SUFFICES ASSUME NEW j \in A!Starts, NEW k \in DOMAIN backlog'[j] PROVE Old(j, k) \/ New(j, k)
    OBVIOUS
  <2>1. CASE j = i  BY <1>1, <1>3, <2>1, AppendProperties
  <2>2. CASE j # i  BY <1>3, <2>2
  <2>. QED  BY <2>1, <2>2
<1>6. \A j \in A!Starts : \A k \in DOMAIN backlog[j] :
          backlog[j][k] # Wake => backlog[j][k] \in Clients /\ conn[backlog[j][k]].step = "queued"
  BY <1>1 DEF QueuesInv
<1>7. backlog' \in [A!Starts -> Seq(Clients \cup {Wake})]  BY <1>4 DEF QueuesInv
<1>8. \A j \in A!Starts : \A k \in DOMAIN backlog'[j] :
          backlog'[j][k] # Wake => conn'[backlog'[j][k]].step = "queued"
  BY <1>5, <1>6
<1>9. \A j, m \in A!Starts : \A k \in DOMAIN backlog'[j], l \in DOMAIN backlog'[m] :
          backlog'[j][k] = backlog'[m][l] /\ backlog'[j][k] # Wake => j = m /\ k = l
  <2> SUFFICES ASSUME NEW j \in A!Starts, NEW m \in A!Starts, NEW k \in DOMAIN backlog'[j],
                      NEW l \in DOMAIN backlog'[m], backlog'[j][k] = backlog'[m][l],
                      backlog'[j][k] # Wake
               PROVE  j = m /\ k = l
    OBVIOUS
  <2>1. CASE Old(j, k) /\ Old(m, l)  BY <2>1 DEF QueuesInv
  <2>2. CASE New(j, k) /\ New(m, l)  BY <2>2
  <2>3. CASE Old(j, k) /\ New(m, l)  BY <1>6, <2>3
  <2>4. CASE New(j, k) /\ Old(m, l)  BY <1>6, <2>4
  <2>. HIDE DEF Old, New
  <2>. QED  BY <1>5, <2>1, <2>2, <2>3, <2>4
<1>. QED  BY <1>7, <1>8, <1>9 DEF QueuesInv

LEMMA ConnectKeeps ==
    ASSUME RequestsInv, NEW c \in Clients, NEW i \in A!Starts, NEW r \in Messages, A!Connect(c, i, r)
    PROVE  RequestsInv'
<1> DEFINE e == [A!Away EXCEPT !.step = "queued", !.request = r]
<1>1. e \in Connections /\ e.step = "queued" /\ e.request = r /\ e.got = 0 /\ e.sent = 0
      /\ e.answer = A!None /\ e.emitted = 0
  <2>1. A!Away \in Connections /\ A!Away.got = 0 /\ A!Away.sent = 0 /\ A!Away.answer = A!None
        /\ A!Away.emitted = 0
    BY StatusNumbers DEF Connections, A!Away
  <2>. QED  BY <2>1 DEF Connections
<1>2. conn' = [conn EXCEPT ![c] = e] /\ conn[c].step = "away"
      /\ backlog' = [backlog EXCEPT ![i] = Append(backlog[i], c)]
  BY DEF A!Connect
<1>. HIDE DEF e
<1>3. Sound(e)  BY <1>1, StatusNumbers DEF Sound
<1>4. DOMAIN conn = Clients /\ (\A d \in Clients : Sound(conn[d])) /\ QueuesInv  BY DEF RequestsInv
<1>5. DOMAIN conn' = Clients /\ \A d \in Clients : conn'[d] = IF d = c THEN e ELSE conn[d]
  BY <1>2, <1>4
<1>6. \A d \in Clients : Sound(conn'[d])  BY <1>3, <1>4, <1>5
<1>7. QueuesInv'  BY <1>1, <1>2, <1>4, <1>5, EnqueueKeeps
<1>. QED  BY <1>5, <1>6, <1>7 DEF RequestsInv

LEMMA RequestsRest == ASSUME RequestsInv, UNCHANGED <<conn, backlog>> PROVE RequestsInv'
BY DEF RequestsInv, QueuesInv

LEMMA WakeKeeps == ASSUME ServerInv, RequestsInv, A!WakeLoop PROVE RequestsInv'
<1>1. UNCHANGED conn /\ server \in A!Starts
  BY DEF A!WakeLoop, ServerInv
<1>2. CASE UNCHANGED backlog  BY <1>1, <1>2, RequestsRest
<1>3. CASE backlog' = [backlog EXCEPT ![server] = Append(backlog[server], Wake)]
  <2>1. QueuesInv'  BY <1>1, <1>3, EnqueueKeeps DEF RequestsInv
  <2>. QED  BY <1>1, <2>1 DEF RequestsInv
<1>. QED  BY <1>2, <1>3 DEF A!WakeLoop

LEMMA RequestsStepKeeps ==
    ASSUME ServerInv, RequestsInv, [A!Next]_A!vars PROVE RequestsInv'
<1>1. CASE UNCHANGED <<conn, backlog>>  BY <1>1, RequestsRest
<1>2. CASE (\E w \in Ports \cup {Off} : A!Change(w)) \/ A!RaiseFlag \/ A!Join \/ A!Start \/ A!TakeAction
  BY <1>1, <1>2 DEF A!Change, A!RaiseFlag, A!Join, A!Start, A!TakeAction, A!serving
<1>3. CASE UNCHANGED A!vars  BY <1>1, <1>3 DEF A!vars, A!serving
<1>4. CASE A!WakeLoop  BY <1>4, WakeKeeps
<1>5. ASSUME NEW i \in A!Starts, A!Accept(i) PROVE RequestsInv'  BY <1>5, AcceptKeeps
<1>6. ASSUME NEW c \in Clients, A!Read(c) PROVE RequestsInv'  BY <1>6, ReadKeeps
<1>7. ASSUME NEW c \in Clients, A!ReadEnds(c) \/ A!CallEnds(c) \/ A!Send(c) PROVE RequestsInv'
  BY <1>7, ClientKeeps
<1>8. ASSUME NEW c \in Clients, NEW i \in A!Starts, NEW r \in Messages, A!Connect(c, i, r)
      PROVE RequestsInv'
  BY <1>8, ConnectKeeps
<1>. QED  BY <1>2, <1>3, <1>4, <1>5, <1>6, <1>7, <1>8 DEF A!Next, A!AppStep

\* What connections were sent, told and made the application do goes together,
\* and each waits in one place.
THEOREM RequestsInductive == Spec => []RequestsInv
<1>1. Init => RequestsInv  BY RequestsInitHold DEF Init
<1>. QED  BY <1>1, RequestsStepKeeps, ServerInductive, ApiSteps, PTL DEF Spec

LEMMA RequestsAreWhole == RequestsInv => A!WholeRequests
BY StatusNumbers DEF RequestsInv, Sound, A!WholeRequests

-----------------------------------------------------------------------------
(* The bridge to the system's translation                                  *)

LEMMA BridgeSteps == [Next]_all => [B!Next]_B!vars
<1>1. Next => B!Next \/ UNCHANGED bridge
  BY DEF Next, Api, Capture, Bridge, Dictionary, Adapters, Models, Registry, Effects, Updates
<1>2. UNCHANGED all => UNCHANGED bridge  BY DEF all
<1>3. UNCHANGED bridge => UNCHANGED B!vars  BY DEF bridge, B!vars
<1>. QED  BY <1>1, <1>2, <1>3

BridgeTypes ==
    /\ asked \in [Requests -> B!Asks]
    /\ step \in [Requests -> {"new", "entered", "waiting", "late", "over"}]
    /\ number \in [Requests -> Nat] /\ next \in Nat \ {0}
    /\ registry \subseteq [number : Nat, request : Requests]
    /\ DOMAIN channel = Requests /\ DOMAIN result = Requests

Registered(r) == \E e \in registry : e.request = r

\* What a waiting thread may be sent: an answer to its request, or an error.
Fit(o, r) == o # B!None /\ (o.kind = "answer" => o.of = r)

\* Numbers are given once, before they are sent to the native side.
NumbersInv ==
    /\ \A r \in Requests : number[r] < next
    /\ \A r \in Requests : step[r] = "new" => number[r] = 0
    /\ \A r \in Requests : step[r] \in {"entered", "waiting", "late"} => number[r] # 0
    /\ \A r, q \in Requests : number[r] = number[q] /\ number[r] # 0 => r = q
    /\ \A n \in native : n # 0 /\ \E r \in Requests :
                             number[r] = n /\ step[r] \in {"waiting", "late", "over"}

\* A request is in the registry until it is answered or given up, and then its
\* answer is with the callback or in its channel.
RegistryInv ==
    /\ \A e \in registry : e.number = number[e.request] /\ e.number # 0
    /\ \A e \in registry :
           \/ step[e.request] \in {"entered", "waiting", "late"} /\ channel[e.request] = B!None
           \/ /\ step[e.request] = "over"
              /\ asked[e.request].operation = "translate" /\ ~asked[e.request].whole
    /\ \A r \in Requests : step[r] \in {"entered", "waiting"} =>
           Registered(r) \/ channel[r] # B!None \/ (inflight # B!None /\ inflight.to = r)
    /\ \A r \in Requests : step[r] = "entered" => Registered(r)

AnswersInv ==
    /\ \A r \in Requests : channel[r] # B!None => Fit(channel[r], r) /\ step[r] # "new"
    /\ \A r \in Requests : result[r].kind = "answer" => result[r].of = r
    /\ inflight # B!None => /\ inflight.to \in Requests /\ Fit(inflight.outcome, inflight.to)
                            /\ ~Registered(inflight.to) /\ step[inflight.to] # "new"

BridgeInv == BridgeTypes /\ NumbersInv /\ RegistryInv /\ AnswersInv

LEMMA BridgeInitHolds == B!Init => BridgeInv
BY DEF B!Init, BridgeInv, BridgeTypes, NumbersInv, RegistryInv, AnswersInv, B!None

\* A request that takes a step of its own, without touching the registry.
LEMMA StepsAlong ==
    ASSUME BridgeInv, NEW r \in Requests,
           B!RefuseTexts(r) \/ B!RefuseTarget(r) \/ B!Post(r) \/ B!Receive(r) \/ B!GiveUp(r)
    PROVE  BridgeInv'
<1>. USE DEF BridgeInv
<1>1. /\ UNCHANGED <<asked, number, next, registry, inflight, channel>>
      /\ \E s \in {"waiting", "late", "over"} : step' = [step EXCEPT ![r] = s]
  BY DEF B!RefuseTexts, B!RefuseTarget, B!Post, B!Receive, B!GiveUp, B!Over
<1>2. \A q \in Requests \ {r} : step'[q] = step[q]  BY <1>1 DEF BridgeTypes
<1>3. BridgeTypes' 
  BY <1>1 DEF BridgeTypes, B!RefuseTexts, B!RefuseTarget, B!Post, B!Receive, B!GiveUp, B!Over
<1>4. step'[r] \in {"waiting", "late", "over"}  BY <1>1 DEF BridgeTypes
<1>5. native' \subseteq native \cup {number[r]}
      /\ (native' # native => step[r] = "entered" /\ step'[r] = "waiting")
  BY DEF B!RefuseTexts, B!RefuseTarget, B!Post, B!Receive, B!GiveUp, BridgeTypes
<1>6. step[r] = "new" => step'[r] = "over"
  BY DEF B!RefuseTexts, B!RefuseTarget, B!Post, B!Receive, B!GiveUp, B!Over, BridgeTypes
<1>8. /\ step'[r] = "waiting" => step[r] = "entered"
      /\ step'[r] = "late" => step[r] = "waiting"
      /\ step'[r] = "over" => \/ step[r] = "new"
                              \/ step[r] = "entered" /\ asked[r].operation = "translate" /\ ~asked[r].whole
                              \/ step[r] = "waiting" /\ channel[r] # B!None
  BY DEF B!RefuseTexts, B!RefuseTarget, B!Post, B!Receive, B!GiveUp, B!Over, BridgeTypes
<1>7. NumbersInv'
  <2>1. \A n \in native' : n # 0 /\ \E q \in Requests :
                             number[q] = n /\ step'[q] \in {"waiting", "late", "over"}
    BY <1>2, <1>4, <1>5 DEF NumbersInv
  <2>. QED  BY <1>1, <1>2, <1>4, <1>8, <2>1 DEF NumbersInv
<1>9. RegistryInv'  BY <1>1, <1>2, <1>8 DEF RegistryInv, BridgeTypes, Registered, NumbersInv
<1>10. result' = result
       \/ \E o : result' = [result EXCEPT ![r] = o] /\ (o.kind = "answer" => o.of = r)
  BY DEF B!RefuseTexts, B!RefuseTarget, B!Post, B!Receive, B!GiveUp, B!Over, B!Error, AnswersInv, Fit
<1>11. AnswersInv'  BY <1>1, <1>2, <1>4, <1>10 DEF AnswersInv, BridgeTypes, Registered, Fit
<1>. QED  BY <1>3, <1>7, <1>9, <1>11

LEMMA Enters == ASSUME BridgeInv, NEW r \in Requests, B!Enter(r) PROVE BridgeInv'
<1>. USE DEF BridgeInv
<1>. DEFINE own == [number |-> next, request |-> r]
<1>1. /\ step[r] = "new" /\ inflight = B!None
      /\ number' = [number EXCEPT ![r] = next] /\ next' = next + 1
      /\ registry' = (registry \ B!Entry(next)) \cup {own}
      /\ step' = [step EXCEPT ![r] = "entered"]
      /\ UNCHANGED <<asked, native, inflight, channel, result>>
  BY DEF B!Enter, B!Locked
<1>2. B!Entry(next) = {}  BY DEF B!Entry, RegistryInv, NumbersInv, BridgeTypes
<1>3. /\ own.number = next /\ own.request = r /\ own \in [number : Nat, request : Requests]
      /\ registry' = registry \cup {own}
  BY <1>1, <1>2 DEF BridgeTypes
<1>. HIDE DEF own
<1>4. /\ step'[r] = "entered" /\ number'[r] = next
      /\ \A q \in Requests \ {r} : step'[q] = step[q] /\ number'[q] = number[q]
  BY <1>1 DEF BridgeTypes
<1>5. BridgeTypes'  BY <1>1, <1>3 DEF BridgeTypes
<1>6. NumbersInv'
  <2>1. next \in Nat /\ next # 0 /\ next' = next + 1 /\ number[r] = 0
    BY <1>1 DEF BridgeTypes, NumbersInv
  <2>2. \A q \in Requests : number[q] \in Nat /\ number[q] < next
    BY DEF BridgeTypes, NumbersInv
  <2>. QED  BY <1>1, <1>4, <2>1, <2>2 DEF NumbersInv
<1>7. /\ channel[r] = B!None /\ ~Registered(r)
  BY <1>1 DEF RegistryInv, NumbersInv, AnswersInv, Registered, BridgeTypes
<1>8. \A q \in Requests : Registered(q)' <=> Registered(q) \/ q = r
  BY <1>3 DEF Registered
<1>9. RegistryInv'
  <2>1. ASSUME NEW e \in registry'
        PROVE  /\ e.number = number'[e.request] /\ e.number # 0
               /\ \/ step'[e.request] \in {"entered", "waiting", "late"} /\ channel[e.request] = B!None
                  \/ /\ step'[e.request] = "over"
                     /\ asked[e.request].operation = "translate" /\ ~asked[e.request].whole
    <3>1. CASE e = own  BY <1>3, <1>4, <1>7, <3>1 DEF BridgeTypes
    <3>2. CASE e \in registry /\ e.request # r  BY <1>4, <3>2 DEF RegistryInv, BridgeTypes
    <3>. QED  BY <1>3, <1>7, <2>1, <3>1, <3>2 DEF Registered
  <2>. QED  BY <1>1, <1>4, <1>8, <2>1 DEF RegistryInv
<1>10. AnswersInv'  BY <1>1, <1>4, <1>8 DEF AnswersInv, Fit
<1>. QED  BY <1>5, <1>6, <1>9, <1>10

\* A request given up takes its entry with it.
LEMMA Forgets == ASSUME BridgeInv, NEW r \in Requests, B!Forget(r) PROVE BridgeInv'
<1>. USE DEF BridgeInv
<1>1. /\ step[r] = "late" /\ inflight = B!None
      /\ registry' = registry \ B!Entry(number[r])
      /\ step' = [step EXCEPT ![r] = "over"]
      /\ result' = [result EXCEPT ![r] = B!Error("timeout")]
      /\ UNCHANGED <<asked, number, next, native, inflight, channel>>
  BY DEF B!Forget, B!Locked, B!Over
<1>2. step'[r] = "over" /\ \A q \in Requests \ {r} : step'[q] = step[q]
  BY <1>1 DEF BridgeTypes
<1>3. \A e \in registry : e.request \in Requests /\ (e \in registry' <=> e.request # r)
  BY <1>1 DEF B!Entry, RegistryInv, NumbersInv, BridgeTypes
<1>4. \A q \in Requests : Registered(q)' <=> Registered(q) /\ q # r
  BY <1>1, <1>3 DEF Registered
<1>5. BridgeTypes'  BY <1>1 DEF BridgeTypes
<1>6. NumbersInv'  BY <1>1, <1>2 DEF NumbersInv
<1>7. RegistryInv'  BY <1>1, <1>2, <1>3, <1>4 DEF RegistryInv
<1>8. AnswersInv'  BY <1>1, <1>2, <1>4 DEF AnswersInv, Fit, BridgeTypes, B!Error
<1>. QED  BY <1>5, <1>6, <1>7, <1>8

\* The callback takes the entry of the number it is called with, which is of
\* the request that has the number.
LEMMA CallsBack == ASSUME BridgeInv, NEW n \in native, B!OnResponse(n) PROVE BridgeInv'
<1>. USE DEF BridgeInv
<1>1. /\ inflight = B!None /\ native' = native \ {n}
      /\ UNCHANGED <<asked, step, number, next, channel, result>>
  BY DEF B!OnResponse, B!Locked
<1>2. NumbersInv'  BY <1>1 DEF NumbersInv
<1>3. CASE B!Entry(n) = {}
  <2>1. UNCHANGED <<registry, inflight>>  BY <1>3 DEF B!OnResponse
  <2>. QED  BY <1>1, <1>2, <2>1 DEF BridgeTypes, RegistryInv, AnswersInv, Registered, Fit
<1>4. CASE B!Entry(n) # {}
  <2>. DEFINE e == CHOOSE x \in B!Entry(n) : TRUE
              of == CHOOSE r \in Requests : number[r] = n
  <2>1. PICK got \in {[kind |-> "answer", of |-> of, operation |-> asked[of].operation],
                       B!Error("json"), B!Error("native")} :
            /\ inflight' = [kind |-> "sending", to |-> e.request, outcome |-> got]
            /\ registry' = registry \ {e}
    BY <1>4 DEF B!OnResponse
  <2>2. e \in registry /\ e.number = n  BY <1>4 DEF B!Entry
  <2>3. e.request \in Requests /\ number[e.request] = n /\ n # 0
    BY <2>2 DEF RegistryInv, BridgeTypes
  <2>4. of \in Requests /\ number[of] = n  BY <2>3
  <2>5. of = e.request  BY <2>3, <2>4 DEF NumbersInv
  <2>6. got # B!None /\ (got.kind = "answer" => got.of = e.request)
    <3>1. got.kind # "none" /\ B!None.kind = "none"
      BY <2>1 DEF B!Error, B!None
    <3>2. CASE got = [kind |-> "answer", of |-> of, operation |-> asked[of].operation]
      <4>1. got.of = of  BY <3>2
      <4>. QED  BY <3>1, <4>1, <2>5
    <3>3. CASE got \in {B!Error("json"), B!Error("native")}
      <4>1. got.kind = "error"  BY <3>3 DEF B!Error
      <4>. QED  BY <3>1, <4>1
    <3>. QED  BY <2>1, <3>2, <3>3
  <2>7. \A f \in registry : f.request = e.request => f = e
    BY <2>2 DEF RegistryInv, BridgeTypes
  <2>. DEFINE to == e.request
  <2>8. /\ to \in Requests /\ inflight' # B!None /\ inflight'.to = to /\ inflight'.outcome = got
        /\ step[to] # "new"
    BY <2>1, <2>2, <2>3 DEF B!None, RegistryInv
  <2>9. registry' \subseteq registry /\ \A f \in registry : f \in registry' <=> f.request # to
    BY <2>1, <2>2, <2>7
  <2>10. step[to] # "entered"
    BY <2>3 DEF NumbersInv
  <2>. HIDE DEF e, of, to
  <2>11. \A q \in Requests : Registered(q)' <=> Registered(q) /\ q # to
    BY <2>9 DEF Registered
  <2>12. BridgeTypes'  BY <1>1, <2>9 DEF BridgeTypes
  <2>13. RegistryInv'  BY <1>1, <2>8, <2>9, <2>10, <2>11 DEF RegistryInv
  <2>14. AnswersInv'  BY <1>1, <2>6, <2>8, <2>11 DEF AnswersInv, Fit, to
  <2>. QED  BY <1>2, <2>12, <2>13, <2>14
<1>. QED  BY <1>3, <1>4

LEMMA Sends == ASSUME BridgeInv, B!Send PROVE BridgeInv'
<1>. USE DEF BridgeInv
<1>1. /\ inflight # B!None /\ inflight' = B!None
      /\ channel' = [channel EXCEPT ![inflight.to] = inflight.outcome]
      /\ UNCHANGED <<asked, step, number, next, registry, native, result>>
  BY DEF B!Send, B!Locked
<1>2. /\ inflight.to \in Requests /\ Fit(inflight.outcome, inflight.to)
      /\ ~Registered(inflight.to) /\ step[inflight.to] # "new"
  BY <1>1 DEF AnswersInv
<1>3. /\ channel'[inflight.to] = inflight.outcome
      /\ \A q \in Requests \ {inflight.to} : channel'[q] = channel[q]
  BY <1>1, <1>2 DEF BridgeTypes
<1>4. BridgeTypes'  BY <1>1 DEF BridgeTypes
<1>5. NumbersInv'  BY <1>1 DEF NumbersInv
<1>6. RegistryInv'
  BY <1>1, <1>2, <1>3 DEF RegistryInv, Registered, Fit, BridgeTypes
<1>7. AnswersInv'  BY <1>1, <1>2, <1>3 DEF AnswersInv, Fit
<1>. QED  BY <1>4, <1>5, <1>6, <1>7

LEMMA BridgeStepKeeps == ASSUME BridgeInv, [B!Next]_B!vars PROVE BridgeInv'
<1>1. CASE UNCHANGED B!vars
  BY <1>1 DEF B!vars, BridgeInv, BridgeTypes, NumbersInv, RegistryInv, AnswersInv, Registered, Fit
<1>. QED  BY <1>1, StepsAlong, Enters, Forgets, CallsBack, Sends DEF B!Next

\* A number is given to one request, and a request is registered until it is
\* answered or given up.
THEOREM BridgeInductive == Spec => []BridgeInv
<1>1. Init => BridgeInv  BY BridgeInitHolds DEF Init
<1>. QED  BY <1>1, BridgeStepKeeps, BridgeSteps, PTL DEF Spec

\* on_translation_response and wait_for_translation_response: an answer is the
\* answer to the request that gets it, no wait ends for want of a sender, and
\* no entry is left of a request that is over but one without a target.
THEOREM AnswersAreOwn == Spec => []B!OwnAnswer
<1>1. ASSUME BridgeInv, NEW r \in Requests
      PROVE  /\ result[r].kind = "answer" => result[r].of = r
             /\ ~B!Disconnected(r)
             /\ step[r] = "over" /\ Registered(r)
                    => asked[r] = [operation |-> "translate", whole |-> FALSE]
  <2>. USE DEF BridgeInv
  <2>1. ~B!Disconnected(r)
    <3>1. SUFFICES ASSUME B!Disconnected(r) PROVE FALSE  OBVIOUS
    <3>2. PICK e \in registry : e.request = r
      BY <1>1, <3>1 DEF B!Disconnected, RegistryInv, Registered
    <3>3. e = [number |-> number[r], request |-> r]
      BY <1>1, <3>2 DEF RegistryInv, BridgeTypes
    <3>. QED  BY <3>1, <3>2, <3>3 DEF B!Disconnected
  <2>2. ASSUME step[r] = "over", Registered(r)
        PROVE  asked[r] = [operation |-> "translate", whole |-> FALSE]
    <3>1. asked[r].operation = "translate" /\ ~asked[r].whole
      BY <1>1, <2>2 DEF RegistryInv, Registered
    <3>2. asked[r] \in B!Asks  BY <1>1 DEF BridgeTypes
    <3>. QED  BY <3>1, <3>2 DEF B!Asks
  <2>. QED  BY <1>1, <2>1, <2>2 DEF AnswersInv
<1>2. BridgeInv => B!OwnAnswer  BY <1>1 DEF B!OwnAnswer, Registered
<1>. QED  BY <1>2, BridgeInductive, PTL

-----------------------------------------------------------------------------
(* The lists of models                                                     *)

LEMMA ListSteps == [Next]_all => [L!Next]_L!vars
<1>1. Next => L!Next \/ UNCHANGED listing
  BY DEF Next, Api, Capture, Bridge, Dictionary, Adapters, Models, Registry, Effects, Updates
<1>2. UNCHANGED all => UNCHANGED listing  BY DEF all
<1>3. UNCHANGED listing => UNCHANGED L!vars  BY DEF listing, L!vars
<1>. QED  BY <1>1, <1>2, <1>3

GoodPage(p) == p.status = "ok" /\ p.list

\* While a traversal goes on, every page served was good and said there was
\* more, and its models are theirs; while addresses are tried, none was there.
ListInv ==
    /\ page \in Nat
    /\ page < MaxPages \/ kind # "anthropic"
    /\ kind = "anthropic" /\ list = L!None =>
           /\ \A p \in served : GoodPage(p)
           /\ models = UNION {p.ids : p \in served}
    /\ kind = "anthropic" /\ list.kind = "list" =>
           /\ \A p \in served : GoodPage(p)
           /\ list.ids = UNION {p.ids : p \in served}
           /\ \E p \in served : ~p.more
    /\ kind = "compatible" /\ list = L!None => \A p \in served : p.status = "missing"
    /\ kind = "compatible" /\ list.kind = "list" =>
           \E p \in served : /\ GoodPage(p) /\ p.ids = list.ids
                             /\ \A q \in served \ {p} : q.status = "missing"

LEMMA ListInitHolds == L!Init => ListInv
<1>1. 0 < MaxPages  BY BoundsAssumption
<1>2. L!Init => page = 0 /\ list = L!None /\ served = {} /\ models = {}  BY DEF L!Init
<1>. QED  BY <1>1, <1>2 DEF ListInv, L!None

\* One page more of a traversal.
LEMMA PageKeeps == ASSUME ListInv, L!Page PROVE ListInv'
<1>0. PICK p \in L!Pages :
          /\ served' = served \cup {p}
          /\ list' = L!Ends(p)
          /\ models' = IF L!Interpret(p) = "success" THEN models \cup p.ids ELSE models
          /\ page' = IF list' = L!None THEN page + 1 ELSE page
  BY DEF L!Page
<1>1. kind = "anthropic" /\ kind' = "anthropic" /\ list = L!None  BY DEF L!Page, L!Asking
<1>2. /\ \A q \in served : GoodPage(q)
      /\ models = UNION {q.ids : q \in served} /\ page \in Nat /\ page < MaxPages
  BY <1>1 DEF ListInv
<1>3. L!Interpret(p) = "success" <=> GoodPage(p)
  BY DEF L!Interpret, GoodPage
<1>4. \/ list' = L!Error("network")
      \/ GoodPage(p) /\ ~p.more /\ list' = L!List(models \cup p.ids)
      \/ GoodPage(p) /\ page + 1 # MaxPages /\ list' = L!None
  <2>1. CASE ~GoodPage(p)  BY <1>0, <1>3, <2>1 DEF L!Ends
  <2>2. CASE GoodPage(p) /\ ~p.more  BY <1>0, <1>3, <2>2 DEF L!Ends
  <2>3. CASE GoodPage(p) /\ p.more
    <3>2. L!Ends(p) = L!Error("network") \/ (page + 1 # MaxPages /\ L!Ends(p) = L!None)
      BY <1>3, <2>3 DEF L!Ends
    <3>. QED  BY <1>0, <2>3, <3>2
  <2>. QED  BY <2>1, <2>2, <2>3
<1>5. L!Error("network").kind = "error" /\ L!None.kind = "none"
      /\ \A ids : L!List(ids).kind = "list" /\ L!List(ids).ids = ids
  BY DEF L!Error, L!None, L!List
<1>6. UNION {q.ids : q \in served'} = (UNION {q.ids : q \in served}) \cup p.ids
  <2>1. \A x : (\E q \in served' : x \in q.ids) <=> (\E q \in served : x \in q.ids) \/ x \in p.ids
    BY <1>0
  <2>. QED  BY <2>1
<1>7. page' \in Nat /\ page' < MaxPages
  BY <1>0, <1>2, <1>4, <1>5, BoundsAssumption
<1>8. CASE list' = L!Error("network")
  BY <1>1, <1>5, <1>7, <1>8 DEF ListInv
<1>9. CASE GoodPage(p) /\ ~p.more /\ list' = L!List(models \cup p.ids)
  <2>1. \A q \in served' : GoodPage(q)  BY <1>0, <1>2, <1>9
  <2>2. \E q \in served' : ~q.more  BY <1>0, <1>9
  <2>3. list'.ids = UNION {q.ids : q \in served'}  
    <3>1. L!List(models \cup p.ids).ids = models \cup p.ids  BY DEF L!List
    <3>. QED  BY <1>2, <1>6, <1>9, <3>1
  <2>4. list' # L!None  BY <1>5, <1>9
  <2>. QED  BY <1>1, <1>7, <2>1, <2>2, <2>3, <2>4 DEF ListInv
<1>10. CASE GoodPage(p) /\ page + 1 # MaxPages /\ list' = L!None
  <2>1. \A q \in served' : GoodPage(q)  BY <1>0, <1>2, <1>10
  <2>2. models' = UNION {q.ids : q \in served'}  BY <1>0, <1>2, <1>3, <1>6, <1>10
  <2>. QED  BY <1>1, <1>5, <1>7, <1>10, <2>1, <2>2 DEF ListInv
<1>. QED  BY <1>4, <1>8, <1>9, <1>10

\* One address more of a base.
LEMMA CandidateKeeps == ASSUME ListInv, L!Candidate PROVE ListInv'
<1>0. PICK p \in L!Pages :
          /\ served' = served \cup {p}
          /\ IF L!Interpret(p) = "next" /\ page + 1 < bases
             THEN page' = page + 1 /\ list' = list
             ELSE /\ page' = page
                  /\ list' = IF L!Interpret(p) = "success" THEN L!List(p.ids)
                             ELSE IF p.status = "denied" THEN L!Error("auth")
                             ELSE L!Error("network")
  BY DEF L!Candidate
<1>1. kind = "compatible" /\ kind' = "compatible" /\ list = L!None  BY DEF L!Candidate, L!Asking
<1>2. (\A q \in served : q.status = "missing") /\ page \in Nat  BY <1>1 DEF ListInv
<1>3. /\ L!Interpret(p) = "success" <=> GoodPage(p)
      /\ L!Interpret(p) = "next" => p.status = "missing"
  BY DEF L!Interpret, GoodPage
<1>5. (\A why : L!Error(why).kind = "error") /\ L!None.kind = "none"
      /\ \A ids : L!List(ids).kind = "list" /\ L!List(ids).ids = ids
  BY DEF L!Error, L!None, L!List
<1>6. page' \in Nat  BY <1>0, <1>2
<1>7. list' = L!None => \A q \in served' : q.status = "missing"
  BY <1>0, <1>1, <1>2, <1>3, <1>5
<1>8. list'.kind = "list" => GoodPage(p) /\ list'.ids = p.ids
  BY <1>0, <1>1, <1>3, <1>5
<1>. QED  BY <1>0, <1>1, <1>2, <1>6, <1>7, <1>8 DEF ListInv

LEMMA ListStepKeeps == ASSUME ListInv, [L!Next]_L!vars PROVE ListInv'
<1>1. CASE L!Fail
  BY <1>1 DEF L!Fail, L!Error, L!None, ListInv
<1>2. CASE L!NoCandidate
  BY <1>2 DEF L!NoCandidate, L!Error, L!None, ListInv
<1>3. CASE L!Tags \/ L!Health
  BY <1>3 DEF L!Tags, L!Health, ListInv
<1>4. CASE UNCHANGED L!vars
  BY <1>4 DEF L!vars, ListInv
<1>. QED  BY <1>1, <1>2, <1>3, <1>4, PageKeeps, CandidateKeeps DEF L!Next

\* A traversal goes on only after good pages, all of whose models it has.
THEOREM ListInductive == Spec => []ListInv
<1>1. Init => ListInv  BY ListInitHolds DEF Init
<1>. QED  BY <1>1, ListStepKeeps, ListSteps, PTL DEF Spec

\* list_models: a list is whole, every page of it good and the last one the
\* last, or the one address's that is there; and its pages are bounded.
THEOREM ListsAreWhole == Spec => []L!WholeList
<1>1. ListInv => L!WholeList  BY DEF ListInv, L!WholeList, GoodPage
<1>. QED  BY <1>1, ListInductive, PTL

-----------------------------------------------------------------------------
(* The adapters                                                            *)

LEMMA AdapterSteps == [Next]_all => [P!Next]_P!vars
<1>1. Next => P!Next \/ UNCHANGED adapting
  BY DEF Next, Api, Capture, Bridge, Dictionary, Adapters, Models, Registry, Effects, Updates
<1>2. UNCHANGED all => UNCHANGED adapting  BY DEF all
<1>3. UNCHANGED adapting => UNCHANGED P!vars  BY DEF adapting, P!vars
<1>. QED  BY <1>1, <1>2, <1>3

\* The exchanges an adapter can have, and the refusals it looks for.
Courses == {<<"query">>, <<"stream">>, <<"index">>, <<"vision">>,
            <<"token", "query">>, <<"bearer", "query">>, <<"query", "pictures">>}

Regular(a) ==
    /\ a.trips \in Courses
    /\ a.tells \subseteq P!Forms

LEMMA AdaptersRegular == \A a \in P!Adapters : Regular(a)
<1>. USE DEF Regular, Courses, P!Adapter, P!Forms
<1>1. \A a \in P!Baidu : Regular(a)
  BY DEF P!Baidu, P!BaiduDetect, P!BaiduTranslate, P!BaiduOcr, P!ensure_baidu_success
<1>2. \A a \in P!Youdao : Regular(a)
  BY DEF P!Youdao, P!YoudaoDetect, P!YoudaoTranslate, P!YoudaoLookUp, P!YoudaoOcr
<1>3. \A a \in P!Keyed : Regular(a)
  BY DEF P!Keyed, P!TencentDetect, P!TencentTranslate, P!TencentRefusals, P!GoogleDetect,
         P!GoogleTranslate, P!DeepLTranslate, P!CaiyunTranslate, P!TransmartTranslate,
         P!LibreTranslate, P!MTranTranslate
<1>4. \A a \in P!Web : Regular(a)
  <2>1. Regular(P!GoogleWebTranslate) /\ Regular(P!GoogleWebDetect)
    BY DEF P!GoogleWebTranslate, P!GoogleWebDetect
  <2>2. Regular(P!BingTranslate)  BY DEF P!BingTranslate
  <2>3. Regular(P!BingDetect)
    <3>1. P!BingDetect.trips = P!BingTranslate.trips /\ P!BingDetect.tells = P!BingTranslate.tells
      BY DEF P!BingDetect, P!BingTranslate
    <3>. QED  BY <2>2, <3>1
  <2>. QED  BY <2>1, <2>2, <2>3 DEF P!Web
<1>5. \A a \in P!Models : Regular(a)
  BY DEF P!Models, P!OpenAiChat, P!AnthropicChat, P!OllamaChat, P!OpenAiStream, P!AnthropicStream,
         P!OllamaStream
<1>6. \A a \in P!Local : Regular(a)
  BY DEF P!Local, P!EcdictLookUp, P!MacOcr, P!WindowsOcr, P!SystemImage
<1>. HIDE DEF Regular
<1>. QED  BY <1>1, <1>2, <1>3, <1>4, <1>5, <1>6 DEF P!Adapters

\* The replies a call can have.
Heard == P!Replies \cup {P!Lost}

\* The last exchange is for pictures, which a call's answer does not hang on.
Decorated(a) == a.trips[Len(a.trips)] = "pictures"

\* A body that passes for an answer without parts.
Partless(a, body) ==
    /\ body \notin {"answer", "mangled"} \cup a.tells
    /\ body = "half" \/ "empty" \in a.missing.blank

\* An answer stands by what was said: good statuses, and the answer in the
\* reply that decides, or nothing where the adapter takes that for an answer.
Stands(a, o, w) ==
    o.kind = "answer" =>
        /\ \A k \in DOMAIN w : w[k].status = "ok" \/ (Decorated(a) /\ k = 2)
        /\ LET decisive == IF Decorated(a) THEN w[1] ELSE w[Len(w)]
           IN  IF o.whole THEN decisive.body = "answer" \/ a.trips[1] = "stream"
               ELSE Partless(a, decisive.body)

\* A call of adapter a at step x of exchange n, with outcome o, after the
\* replies w: while it goes on, nothing bad was said.
GoesOn(a, n, o, w) ==
    /\ o = P!None
    /\ n \in DOMAIN a.trips /\ Len(w) < n
    /\ \A k \in DOMAIN w : w[k].status = "ok"
    /\ a.trips[n] = "pictures" => Len(w) = 1 /\ w[1].body = "answer"

InOrder(a, x, n, o, w) ==
    /\ a \in P!Adapters /\ n \in 0 .. 2 /\ w \in Seq(Heard)
    /\ x = "idle" => w = <<>> /\ o = P!None
    /\ x \in {"ready", "sent"} => GoesOn(a, n, o, w)
    /\ Len(w) <= 2
    /\ Stands(a, o, w)

CallsInv ==
    /\ adapter \in [Calls -> P!Adapters] /\ at \in [Calls -> 0 .. 2] /\ said \in [Calls -> Seq(Heard)]
    /\ outcome = [c \in Calls |-> outcome[c]]
    /\ exchange \in [Calls -> {"idle", "ready", "sent", "over"}]
    /\ \A c \in Calls : InOrder(adapter[c], exchange[c], at[c], outcome[c], said[c])

LEMMA CourseShapes ==
    ASSUME NEW a \in P!Adapters
    PROVE  /\ Len(a.trips) \in 1 .. 2 /\ DOMAIN a.trips = 1 .. Len(a.trips)
           /\ Len(a.trips) = 2 <=> a.trips[1] \in {"token", "bearer"} \/ Decorated(a)
           /\ Decorated(a) => a.trips[1] = "query" /\ a.trips[2] = "pictures"
           /\ \A n \in DOMAIN a.trips : (a.trips[n] = "pictures" <=> Decorated(a) /\ n = 2)
           /\ \A n \in DOMAIN a.trips : a.trips[n] \in {"token", "bearer"} => n = 1 /\ Len(a.trips) = 2
<1>1. a.trips \in Courses  BY AdaptersRegular DEF Regular
<1>2. CASE a.trips \in {<<"query">>, <<"stream">>, <<"index">>, <<"vision">>}
  <2>1. Len(a.trips) = 1 /\ DOMAIN a.trips = 1 .. 1 /\ a.trips[1] \in {"query", "stream", "index", "vision"}
    BY <1>2
  <2>. QED  BY <2>1 DEF Decorated
<1>3. CASE a.trips \in {<<"token", "query">>, <<"bearer", "query">>}
  <2>1. Len(a.trips) = 2 /\ DOMAIN a.trips = 1 .. 2 /\ a.trips[1] \in {"token", "bearer"} /\ a.trips[2] = "query"
    BY <1>3
  <2>. QED  BY <2>1 DEF Decorated
<1>4. CASE a.trips = <<"query", "pictures">>
  <2>1. Len(a.trips) = 2 /\ DOMAIN a.trips = 1 .. 2 /\ a.trips[1] = "query" /\ a.trips[2] = "pictures"
    BY <1>4
  <2>. QED  BY <2>1 DEF Decorated
<1>. QED  BY <1>1, <1>2, <1>3, <1>4 DEF Courses

LEMMA OutcomeKinds ==
    /\ P!None.kind # "answer"
    /\ \A why : P!Error(why).kind # "answer"
    /\ \A whole : P!Answer(whole).kind = "answer" /\ P!Answer(whole).whole = whole
    /\ \A status : P!classify_status(status).kind # "answer"
BY DEF P!None, P!Error, P!Answer, P!classify_status

\* An error stands by anything.
LEMMA ErrorStands == ASSUME NEW a, NEW o, o.kind # "answer", NEW w PROVE Stands(a, o, w)
BY DEF Stands

\* What a body comes to.
LEMMA ReadStands ==
    ASSUME NEW a \in P!Adapters, NEW body, NEW got \in P!Read(a, body), got.kind = "answer"
    PROVE  IF got.whole THEN body = "answer" ELSE Partless(a, body)
<1>1. Regular(a)  BY AdaptersRegular
<1>2. "answer" \notin a.tells /\ "mangled" \notin a.tells  BY <1>1 DEF Regular, P!Forms
<1>3. CASE body = "answer"  BY <1>2, <1>3, OutcomeKinds DEF P!Read
<1>4. CASE body = "mangled"  BY <1>2, <1>4, OutcomeKinds DEF P!Read
<1>5. CASE body \in a.tells  BY <1>2, <1>5, OutcomeKinds DEF P!Read
<1>6. CASE body \notin a.tells \cup {"answer", "mangled"}
  <2>1. P!Read(a, body) = P!Missing(a, body)  BY <1>6 DEF P!Read
  <2>2. PICK how \in IF body = "half" THEN a.missing.half ELSE a.missing.blank :
               got = IF how = "empty" THEN P!Answer(FALSE) ELSE P!Error(how)
    BY <2>1 DEF P!Missing
  <2>3. how = "empty" /\ got = P!Answer(FALSE)  BY <2>2, OutcomeKinds
  <2>4. got.whole = FALSE  BY <2>3, OutcomeKinds
  <2>. QED  BY <1>6, <2>2, <2>3, <2>4 DEF Partless
<1>. QED  BY <1>3, <1>4, <1>5, <1>6

LEMMA CallsInitHold == P!Init => CallsInv
<1>. SUFFICES ASSUME P!Init PROVE CallsInv
  OBVIOUS
<1>1. P!BingTranslate \in P!Adapters  BY DEF P!Adapters, P!Web
<1>2. /\ adapter \in [Calls -> P!Adapters] /\ at \in [Calls -> 0 .. 2] /\ said \in [Calls -> Seq(Heard)]
      /\ outcome = [c \in Calls |-> outcome[c]]
      /\ exchange \in [Calls -> {"idle", "ready", "sent", "over"}]
  BY <1>1 DEF P!Init
<1>3. ASSUME NEW c \in Calls PROVE InOrder(adapter[c], exchange[c], at[c], outcome[c], said[c])
  <2>1. /\ adapter[c] = P!BingTranslate /\ exchange[c] = "idle" /\ at[c] = 0 /\ outcome[c] = P!None
        /\ said[c] = <<>>
    BY DEF P!Init
  <2>2. Stands(adapter[c], P!None, said[c])  BY OutcomeKinds, ErrorStands
  <2>. QED  BY <1>1, <2>1, <2>2 DEF InOrder
<1>. QED  BY <1>2, <1>3 DEF CallsInv

\* A step of one call leaves the others in order.
LEMMA CallKeeps ==
    ASSUME CallsInv, NEW c \in Calls, NEW a, NEW x \in {"idle", "ready", "sent", "over"},
           NEW n, NEW o, NEW w, InOrder(a, x, n, o, w),
           adapter' = [adapter EXCEPT ![c] = a], exchange' = [exchange EXCEPT ![c] = x],
           at' = [at EXCEPT ![c] = n], outcome' = [outcome EXCEPT ![c] = o],
           said' = [said EXCEPT ![c] = w]
    PROVE  CallsInv'
<1>1. a \in P!Adapters /\ n \in 0 .. 2 /\ w \in Seq(Heard)  BY DEF InOrder
<1>2. /\ adapter' \in [Calls -> P!Adapters] /\ at' \in [Calls -> 0 .. 2] /\ said' \in [Calls -> Seq(Heard)]
      /\ exchange' \in [Calls -> {"idle", "ready", "sent", "over"}]
  BY <1>1 DEF CallsInv
<1>3. (outcome = [d \in Calls |-> outcome[d]])'  BY DEF CallsInv
<1>4. \A d \in Calls : /\ adapter'[d] = IF d = c THEN a ELSE adapter[d]
                       /\ exchange'[d] = IF d = c THEN x ELSE exchange[d]
                       /\ at'[d] = IF d = c THEN n ELSE at[d]
                       /\ outcome'[d] = IF d = c THEN o ELSE outcome[d]
                       /\ said'[d] = IF d = c THEN w ELSE said[d]
  BY DEF CallsInv
<1>5. ASSUME NEW d \in Calls
      PROVE  InOrder(adapter'[d], exchange'[d], at'[d], outcome'[d], said'[d])
  <2>1. InOrder(adapter[d], exchange[d], at[d], outcome[d], said[d])  BY DEF CallsInv
  <2>2. CASE d = c  BY <1>4, <2>2
  <2>3. CASE d # c  BY <1>4, <2>1, <2>3
  <2>. QED  BY <2>2, <2>3
<1>6. (\A d \in Calls : InOrder(adapter[d], exchange[d], at[d], outcome[d], said[d]))'  BY <1>5
<1>. QED  BY <1>2, <1>3, <1>6 DEF CallsInv

\* What a step leaves of a call.
LEMMA CallSame ==
    ASSUME CallsInv, NEW c \in Calls
    PROVE  /\ adapter = [adapter EXCEPT ![c] = adapter[c]] /\ exchange = [exchange EXCEPT ![c] = exchange[c]]
           /\ at = [at EXCEPT ![c] = at[c]] /\ outcome = [outcome EXCEPT ![c] = outcome[c]]
           /\ said = [said EXCEPT ![c] = said[c]]
           /\ InOrder(adapter[c], exchange[c], at[c], outcome[c], said[c])
BY DEF CallsInv

\* A call that ends with an error.
LEMMA ErrorInOrder ==
    ASSUME NEW a \in P!Adapters, NEW n \in 0 .. 2, NEW o, o.kind # "answer", NEW w \in Seq(Heard), Len(w) <= 2
    PROVE  InOrder(a, "over", n, o, w)
BY ErrorStands DEF InOrder

LEMMA AskKeeps == ASSUME CallsInv, NEW c \in Calls, P!Ask(c) PROVE CallsInv'
<1>1. PICK a \in P!Adapters :
          /\ adapter' = [adapter EXCEPT ![c] = a] /\ at' = [at EXCEPT ![c] = 1]
          /\ \/ exchange' = [exchange EXCEPT ![c] = "ready"] /\ UNCHANGED outcome
             \/ P!End(c, P!Error("request"))
  BY DEF P!Ask
<1>2. exchange[c] = "idle" /\ UNCHANGED said  BY DEF P!Ask
<1>3. InOrder(adapter[c], exchange[c], at[c], outcome[c], said[c])  BY CallSame
<1>4. said[c] = <<>> /\ outcome[c] = P!None /\ Len(said[c]) = 0 /\ DOMAIN said[c] = {}
      /\ said[c] \in Seq(Heard)
  BY <1>2, <1>3 DEF InOrder
<1>5. CASE exchange' = [exchange EXCEPT ![c] = "ready"] /\ UNCHANGED outcome
  <2>1. 1 \in DOMAIN a.trips /\ a.trips[1] # "pictures"  BY CourseShapes
  <2>2. GoesOn(a, 1, P!None, said[c])  BY <1>4, <2>1 DEF GoesOn
  <2>3. InOrder(a, "ready", 1, P!None, said[c])  BY <1>4, <2>2, ErrorStands, OutcomeKinds DEF InOrder
  <2>4. outcome' = [outcome EXCEPT ![c] = P!None] /\ said' = [said EXCEPT ![c] = said[c]]
    BY <1>2, <1>4, <1>5, CallSame
  <2>. QED  BY <1>1, <1>5, <2>3, <2>4, CallKeeps
<1>6. CASE P!End(c, P!Error("request"))
  <2>1. Len(said[c]) <= 2 /\ 1 \in 0 .. 2 /\ P!Error("request").kind # "answer"
    BY <1>4, OutcomeKinds
  <2>2. InOrder(a, "over", 1, P!Error("request"), said[c])
    BY <1>4, <2>1, ErrorInOrder
  <2>3. said' = [said EXCEPT ![c] = said[c]]  BY <1>2, CallSame
  <2>4. /\ exchange' = [exchange EXCEPT ![c] = "over"]
        /\ outcome' = [outcome EXCEPT ![c] = P!Error("request")]
    BY <1>6 DEF P!End
  <2>. QED  BY <1>1, <2>2, <2>3, <2>4, CallKeeps
<1>. QED  BY <1>1, <1>5, <1>6

\* A call that goes on in the place it is at: what it hears next.
LEMMA Underway ==
    ASSUME CallsInv, NEW c \in Calls, exchange[c] \in {"ready", "sent"}
    PROVE  /\ adapter[c] \in P!Adapters /\ at[c] \in 1 .. 2 /\ at[c] \in DOMAIN adapter[c].trips
           /\ said[c] \in Seq(Heard) /\ Len(said[c]) < at[c] /\ Len(said[c]) \in Nat
           /\ GoesOn(adapter[c], at[c], P!None, said[c]) /\ outcome[c] = P!None
BY CallSame, CourseShapes DEF InOrder, GoesOn

\* The next exchange, after good replies.
LEMMA NextInOrder ==
    ASSUME NEW a \in P!Adapters, NEW w \in Seq(Heard), Len(w) <= 1, Len(a.trips) = 2,
           \A k \in DOMAIN w : w[k].status = "ok",
           Decorated(a) => Len(w) = 1 /\ w[1].body = "answer"
    PROVE  InOrder(a, "ready", 2, P!None, w)
<1>1. 2 \in DOMAIN a.trips /\ (a.trips[2] = "pictures" <=> Decorated(a))  BY CourseShapes
<1>2. GoesOn(a, 2, P!None, w)  BY <1>1 DEF GoesOn
<1>. QED  BY <1>2, ErrorStands, OutcomeKinds DEF InOrder

LEMMA CachedKeeps == ASSUME CallsInv, NEW c \in Calls, P!UseCached(c) PROVE CallsInv'
<1>1. /\ exchange[c] = "ready" /\ adapter[c].trips[at[c]] = "bearer"
      /\ at' = [at EXCEPT ![c] = at[c] + 1] /\ UNCHANGED <<adapter, exchange, outcome, said>>
  BY DEF P!UseCached, P!Trip
<1>2. /\ adapter[c] \in P!Adapters /\ at[c] \in DOMAIN adapter[c].trips /\ said[c] \in Seq(Heard)
      /\ Len(said[c]) < at[c] /\ Len(said[c]) \in Nat
      /\ GoesOn(adapter[c], at[c], P!None, said[c]) /\ outcome[c] = P!None
  BY <1>1, Underway
<1>3. at[c] = 1 /\ Len(adapter[c].trips) = 2 /\ ~Decorated(adapter[c])
  BY <1>1, <1>2, CourseShapes
<1>4. InOrder(adapter[c], "ready", 2, P!None, said[c])  BY <1>2, <1>3, NextInOrder DEF GoesOn
<1>5. /\ adapter' = [adapter EXCEPT ![c] = adapter[c]] /\ said' = [said EXCEPT ![c] = said[c]]
      /\ exchange' = [exchange EXCEPT ![c] = "ready"]
  BY <1>1, CallSame
<1>6. outcome' = [outcome EXCEPT ![c] = P!None] /\ at' = [at EXCEPT ![c] = 2]
  BY <1>1, <1>2, <1>3, CallSame
<1>. QED  BY <1>4, <1>5, <1>6, CallKeeps

LEMMA SendKeeps == ASSUME CallsInv, NEW c \in Calls, P!Send(c) PROVE CallsInv'
<1>1. exchange[c] = "ready" /\ UNCHANGED <<adapter, at, said>>  BY DEF P!Send
<1>2. InOrder(adapter[c], exchange[c], at[c], outcome[c], said[c])  BY CallSame
<1>0. /\ adapter' = [adapter EXCEPT ![c] = adapter[c]] /\ said' = [said EXCEPT ![c] = said[c]]
      /\ at' = [at EXCEPT ![c] = at[c]]
  BY <1>1, CallSame
<1>3. CASE exchange' = [exchange EXCEPT ![c] = "sent"] /\ UNCHANGED outcome
  <2>1. InOrder(adapter[c], "sent", at[c], outcome[c], said[c])  BY <1>1, <1>2 DEF InOrder
  <2>2. outcome' = [outcome EXCEPT ![c] = outcome[c]]  BY <1>3, CallSame
  <2>. QED  BY <1>0, <1>3, <2>1, <2>2, CallKeeps
<1>4. CASE adapter[c].trips[at[c]] = "pictures" /\ P!End(c, P!Answer(TRUE))
  <2>1. /\ adapter[c] \in P!Adapters /\ at[c] \in DOMAIN adapter[c].trips /\ at[c] \in 1 .. 2
        /\ GoesOn(adapter[c], at[c], P!None, said[c]) /\ said[c] \in Seq(Heard)
    BY <1>1, Underway
  <2>2. Decorated(adapter[c]) /\ Len(said[c]) = 1 /\ said[c][1].body = "answer"
        /\ \A k \in DOMAIN said[c] : said[c][k].status = "ok"
    BY <1>4, <2>1, CourseShapes DEF GoesOn
  <2>3. Stands(adapter[c], P!Answer(TRUE), said[c])  BY <2>2, OutcomeKinds DEF Stands
  <2>4. at[c] \in 0 .. 2 /\ Len(said[c]) <= 2  BY <2>1, <2>2
  <2>5. InOrder(adapter[c], "over", at[c], P!Answer(TRUE), said[c])
    BY <2>1, <2>3, <2>4 DEF InOrder
  <2>6. /\ exchange' = [exchange EXCEPT ![c] = "over"]
        /\ outcome' = [outcome EXCEPT ![c] = P!Answer(TRUE)]
    BY <1>4 DEF P!End
  <2>. QED  BY <1>0, <2>5, <2>6, CallKeeps
<1>. QED  BY <1>3, <1>4 DEF P!Send, P!Trip

\* A reply heard.
LEMMA HeardMore ==
    ASSUME NEW w \in Seq(Heard), NEW heard \in Heard
    PROVE  LET v == Append(w, heard)
           IN  /\ v \in Seq(Heard) /\ Len(v) = Len(w) + 1 /\ v[Len(w) + 1] = heard
               /\ DOMAIN v = 1 .. Len(w) + 1 /\ Len(w) \in Nat /\ DOMAIN w = 1 .. Len(w)
               /\ \A k \in DOMAIN w : v[k] = w[k]
BY AppendProperties

\* What a step of a call that hears a reply comes to.
LEMMA HearKeeps ==
    ASSUME CallsInv, NEW c \in Calls, UNCHANGED adapter, NEW heard \in Heard, P!Hear(c, heard),
           \/ /\ at' = [at EXCEPT ![c] = at[c] + 1] /\ exchange' = [exchange EXCEPT ![c] = "ready"]
              /\ UNCHANGED outcome /\ outcome[c] = P!None
              /\ InOrder(adapter[c], "ready", at[c] + 1, P!None, Append(said[c], heard))
           \/ /\ UNCHANGED at
              /\ \E o : /\ P!End(c, o)
                        /\ InOrder(adapter[c], "over", at[c], o, Append(said[c], heard))
    PROVE  CallsInv'
<1>1. /\ adapter' = [adapter EXCEPT ![c] = adapter[c]]
      /\ said' = [said EXCEPT ![c] = Append(said[c], heard)]
  BY CallSame DEF P!Hear
<1>2. CASE /\ at' = [at EXCEPT ![c] = at[c] + 1] /\ exchange' = [exchange EXCEPT ![c] = "ready"]
           /\ UNCHANGED outcome /\ outcome[c] = P!None
           /\ InOrder(adapter[c], "ready", at[c] + 1, P!None, Append(said[c], heard))
  <2>1. outcome' = [outcome EXCEPT ![c] = P!None]  BY <1>2, CallSame
  <2>. QED  BY <1>1, <1>2, <2>1, CallKeeps
<1>3. CASE /\ UNCHANGED at
           /\ \E o : /\ P!End(c, o)
                     /\ InOrder(adapter[c], "over", at[c], o, Append(said[c], heard))
  <2>1. PICK o : P!End(c, o) /\ InOrder(adapter[c], "over", at[c], o, Append(said[c], heard))
    BY <1>3
  <2>2. exchange' = [exchange EXCEPT ![c] = "over"] /\ outcome' = [outcome EXCEPT ![c] = o]
    BY <2>1 DEF P!End
  <2>3. at' = [at EXCEPT ![c] = at[c]]  BY <1>3, CallSame
  <2>. QED  BY <1>1, <2>1, <2>2, <2>3, CallKeeps
<1>. QED  BY <1>2, <1>3

\* The reply of an exchange an answer hangs on.
LEMMA AnswerHeardKeeps == ASSUME CallsInv, NEW c \in Calls, P!ReceiveAnswer(c) PROVE CallsInv'
<1> DEFINE a == adapter[c]
           Outcomes(heard) == IF heard.status # "ok" THEN {P!classify_status(heard.status)}
                              ELSE IF a.trips[at[c]] = "stream" THEN {P!Answer(TRUE)}
                              ELSE P!Read(a, heard.body)
<1>1. PICK heard \in Heard : \E got \in Outcomes(heard) :
          /\ P!Hear(c, heard)
          /\ IF got.kind = "answer" /\ got.whole /\ at[c] # Len(a.trips)
             THEN at' = [at EXCEPT ![c] = at[c] + 1]
                  /\ exchange' = [exchange EXCEPT ![c] = "ready"] /\ UNCHANGED outcome
             ELSE P!End(c, got) /\ UNCHANGED at
  BY DEF P!ReceiveAnswer, P!Trip, P!Last, Heard
<1>13. PICK got \in Outcomes(heard) :
          /\ P!Hear(c, heard)
          /\ IF got.kind = "answer" /\ got.whole /\ at[c] # Len(a.trips)
             THEN at' = [at EXCEPT ![c] = at[c] + 1]
                  /\ exchange' = [exchange EXCEPT ![c] = "ready"] /\ UNCHANGED outcome
             ELSE P!End(c, got) /\ UNCHANGED at
  BY <1>1
<1>2. exchange[c] = "sent" /\ a.trips[at[c]] \in {"query", "stream", "index", "vision"} /\ UNCHANGED adapter
  BY DEF P!ReceiveAnswer, P!Trip
<1>3. /\ a \in P!Adapters /\ at[c] \in 1 .. 2 /\ at[c] \in DOMAIN a.trips
      /\ said[c] \in Seq(Heard) /\ Len(said[c]) < at[c] /\ Len(said[c]) \in Nat
      /\ GoesOn(a, at[c], P!None, said[c]) /\ outcome[c] = P!None
  BY <1>2, Underway
<1> DEFINE v == Append(said[c], heard)
<1>4. /\ v \in Seq(Heard) /\ Len(v) = Len(said[c]) + 1 /\ v[Len(v)] = heard
      /\ DOMAIN v = 1 .. Len(v) /\ DOMAIN said[c] = 1 .. Len(said[c])
      /\ \A k \in DOMAIN said[c] : v[k] = said[c][k]
  BY <1>3, HeardMore
<1>5. Len(v) <= 2 /\ Len(v) <= at[c] /\ Len(v) >= 1  BY <1>3, <1>4
<1>6. Decorated(a) => at[c] = 1 /\ Len(v) = 1 /\ v[1] = heard
  <2>1. Decorated(a) => at[c] # 2  BY <1>2, <1>3, CourseShapes
  <2>. QED  BY <1>3, <1>4, <1>5, <2>1
<1>7. got.kind = "answer" => heard.status = "ok"  BY <1>13, OutcomeKinds
<1>8. \A k \in DOMAIN said[c] : said[c][k].status = "ok"  BY <1>3 DEF GoesOn
<1>9. heard.status = "ok" => \A k \in DOMAIN v : v[k].status = "ok"
  <2>1. \A k \in DOMAIN v : k \in DOMAIN said[c] \/ v[k] = heard  BY <1>3, <1>4
  <2>. QED  BY <1>4, <1>8, <2>1
<1>10. got.kind = "answer" =>
           IF got.whole THEN heard.body = "answer" \/ a.trips[1] = "stream"
           ELSE Partless(a, heard.body)
  <2>1. CASE a.trips[at[c]] = "stream"
    <3>1. at[c] = 1  BY <1>3, <2>1, CourseShapes, AdaptersRegular DEF Regular, Courses
    <3>. QED  BY <1>7, <1>13, <2>1, <3>1, OutcomeKinds
  <2>2. CASE a.trips[at[c]] # "stream"
    <3>1. got.kind = "answer" => got \in P!Read(a, heard.body)  BY <1>7, <1>13, <2>2
    <3>. HIDE DEF Outcomes
    <3>. QED  BY <1>3, <3>1, ReadStands
  <2>. QED  BY <2>1, <2>2
<1>. HIDE DEF Outcomes
<1>11. CASE got.kind = "answer" /\ got.whole /\ at[c] # Len(a.trips)
  <2>5. Len(a.trips) \in 1 .. 2 /\ DOMAIN a.trips = 1 .. Len(a.trips)  BY <1>3, CourseShapes
  <2>1. at[c] = 1 /\ Len(a.trips) = 2 /\ Len(v) <= 1
    <3>. HIDE DEF v, a
    <3>1. \A n, m \in 1 .. 2 : n \in 1 .. m /\ n # m => n = 1 /\ m = 2  OBVIOUS
    <3>2. at[c] = 1 /\ Len(a.trips) = 2  BY <1>3, <1>11, <2>5, <3>1
    <3>. QED  BY <1>5, <3>2
  <2>2. Decorated(a) => Len(v) = 1 /\ v[1].body = "answer"
    <3>1. Decorated(a) => a.trips[1] # "stream"  BY <1>3, CourseShapes
    <3>. QED  BY <1>6, <1>10, <1>11, <3>1
  <2>3. InOrder(a, "ready", 2, P!None, v)
    <3>. HIDE DEF v
    <3>. QED  BY <1>3, <1>4, <1>7, <1>9, <1>11, <2>1, <2>2, NextInOrder
  <2>4. InOrder(a, "ready", at[c] + 1, P!None, v)  BY <2>1, <2>3
  <2>. QED  BY <1>13, <1>2, <1>3, <1>11, <2>4, HearKeeps
<1>12. CASE ~(got.kind = "answer" /\ got.whole /\ at[c] # Len(a.trips))
  <2>1. Stands(a, got, v)
    <3>. HIDE DEF v
    <3>1. CASE got.kind # "answer"  BY <3>1, ErrorStands
    <3>2. CASE got.kind = "answer"
      <4>1. (IF Decorated(a) THEN v[1] ELSE v[Len(v)]) = heard  BY <1>4, <1>6
      <4>. QED  BY <1>7, <1>9, <1>10, <3>2, <4>1 DEF Stands
    <3>. QED  BY <3>1, <3>2
  <2>2. InOrder(a, "over", at[c], got, v)
    <3>1. at[c] \in 0 .. 2  BY <1>3
    <3>. HIDE DEF v
    <3>. QED  BY <1>3, <1>4, <1>5, <2>1, <3>1 DEF InOrder
  <2>. QED  BY <1>13, <1>2, <1>12, <2>2, HearKeeps
<1>. QED  BY <1>11, <1>12

\* A first exchange before the one that decides.
LEMMA FirstKeeps ==
    ASSUME CallsInv, NEW c \in Calls, UNCHANGED adapter, NEW heard \in Heard, P!Hear(c, heard),
           exchange[c] = "sent", adapter[c].trips[at[c]] \in {"token", "bearer"},
           IF heard.status = "ok" /\ heard.body = "answer"
           THEN at' = [at EXCEPT ![c] = at[c] + 1]
                /\ exchange' = [exchange EXCEPT ![c] = "ready"] /\ UNCHANGED outcome
           ELSE /\ UNCHANGED at
                /\ \E o : P!End(c, o) /\ o.kind # "answer"
    PROVE  CallsInv'
<1>1. /\ adapter[c] \in P!Adapters /\ at[c] \in 1 .. 2 /\ at[c] \in DOMAIN adapter[c].trips
      /\ said[c] \in Seq(Heard) /\ Len(said[c]) < at[c] /\ Len(said[c]) \in Nat
      /\ GoesOn(adapter[c], at[c], P!None, said[c]) /\ outcome[c] = P!None
  BY Underway
<1>2. at[c] = 1 /\ Len(adapter[c].trips) = 2 /\ ~Decorated(adapter[c])
  BY <1>1, CourseShapes
<1> DEFINE v == Append(said[c], heard)
<1>3. v \in Seq(Heard) /\ Len(v) = 1 /\ DOMAIN v = 1 .. 1 /\ v[1] = heard
  <2>1. Len(said[c]) = 0  BY <1>1, <1>2
  <2>. QED  BY <1>1, <2>1, HeardMore
<1>4. CASE heard.status = "ok" /\ heard.body = "answer"
  <2>. HIDE DEF v
  <2>1. InOrder(adapter[c], "ready", 2, P!None, v)
    <3>1. (\A k \in DOMAIN v : v[k].status = "ok") /\ Len(v) <= 1  BY <1>3, <1>4
    <3>. QED  BY <1>1, <1>2, <1>3, <3>1, NextInOrder
  <2>2. at[c] + 1 = 2  BY <1>2
  <2>3. InOrder(adapter[c], "ready", at[c] + 1, P!None, v)  BY <2>1, <2>2
  <2>. USE DEF v
  <2>. QED  BY <1>1, <1>4, <2>3, HearKeeps
<1>5. CASE ~(heard.status = "ok" /\ heard.body = "answer")
  <2>1. PICK o : P!End(c, o) /\ o.kind # "answer"  BY <1>5
  <2>2. UNCHANGED at  BY <1>5
  <2>3. InOrder(adapter[c], "over", at[c], o, v)
    <3>. HIDE DEF v
    <3>1. at[c] \in 0 .. 2 /\ Len(v) <= 2  BY <1>1, <1>3
    <3>. QED  BY <1>1, <1>3, <2>1, <3>1, ErrorInOrder
  <2>. QED  BY <2>1, <2>2, <2>3, HearKeeps
<1>. QED  BY <1>4, <1>5

\* Baidu's token: what is heard of it, the call goes on or ends with an error.
LEMMA TokenKeeps == ASSUME CallsInv, NEW c \in Calls, P!ReceiveToken(c) PROVE CallsInv'
<1>1. PICK heard \in Heard :
          /\ P!Hear(c, heard)
          /\ IF heard.status = "ok" /\ heard.body = "answer"
             THEN at' = [at EXCEPT ![c] = at[c] + 1]
                  /\ exchange' = [exchange EXCEPT ![c] = "ready"] /\ UNCHANGED outcome
             ELSE /\ UNCHANGED at
                  /\ \E o : P!End(c, o) /\ o.kind # "answer"
  BY OutcomeKinds DEF P!ReceiveToken, Heard
<1>2. exchange[c] = "sent" /\ adapter[c].trips[at[c]] \in {"token", "bearer"} /\ UNCHANGED adapter
  BY DEF P!ReceiveToken, P!Trip
<1>. QED  BY <1>1, <1>2, FirstKeeps

LEMMA BearerKeeps == ASSUME CallsInv, NEW c \in Calls, P!ReceiveBearer(c) PROVE CallsInv'
<1>1. PICK heard \in Heard :
          /\ P!Hear(c, heard)
          /\ IF heard.status = "ok" /\ heard.body = "answer"
             THEN at' = [at EXCEPT ![c] = at[c] + 1]
                  /\ exchange' = [exchange EXCEPT ![c] = "ready"] /\ UNCHANGED outcome
             ELSE /\ UNCHANGED at
                  /\ \E o : P!End(c, o) /\ o.kind # "answer"
  BY OutcomeKinds DEF P!ReceiveBearer, Heard
<1>2. exchange[c] = "sent" /\ adapter[c].trips[at[c]] \in {"token", "bearer"} /\ UNCHANGED adapter
  BY DEF P!ReceiveBearer, P!Trip
<1>. QED  BY <1>1, <1>2, FirstKeeps

\* Pictures change nothing of an answer that stands.
LEMMA PicturesKeep == ASSUME CallsInv, NEW c \in Calls, P!ReceivePictures(c) PROVE CallsInv'
<1>1. PICK heard \in Heard : P!Hear(c, heard)  BY DEF P!ReceivePictures, Heard
<1>2. exchange[c] = "sent" /\ adapter[c].trips[at[c]] = "pictures" /\ UNCHANGED <<adapter, at>>
      /\ P!End(c, P!Answer(TRUE))
  BY DEF P!ReceivePictures, P!Trip
<1>3. /\ adapter[c] \in P!Adapters /\ at[c] \in 1 .. 2 /\ at[c] \in DOMAIN adapter[c].trips
      /\ said[c] \in Seq(Heard) /\ GoesOn(adapter[c], at[c], P!None, said[c])
  BY <1>2, Underway
<1>4. Decorated(adapter[c]) /\ Len(said[c]) = 1 /\ said[c][1].body = "answer" /\ said[c][1].status = "ok"
  BY <1>2, <1>3, CourseShapes DEF GoesOn
<1> DEFINE v == Append(said[c], heard)
<1>5. v \in Seq(Heard) /\ Len(v) = 2 /\ DOMAIN v = 1 .. 2 /\ v[1] = said[c][1]
  <2>1. 1 \in DOMAIN said[c]  BY <1>3, <1>4
  <2>2. /\ v \in Seq(Heard) /\ Len(v) = Len(said[c]) + 1 /\ DOMAIN v = 1 .. Len(said[c]) + 1
        /\ \A k \in DOMAIN said[c] : v[k] = said[c][k]
    BY <1>3, HeardMore
  <2>. HIDE DEF v
  <2>. QED  BY <1>4, <2>1, <2>2
<1>. HIDE DEF v
<1>6. Stands(adapter[c], P!Answer(TRUE), v)
  <2>1. \A k \in DOMAIN v : k = 1 \/ k = 2  BY <1>5
  <2>2. v[1].status = "ok" /\ v[1].body = "answer"  BY <1>4, <1>5
  <2>. QED  BY <1>4, <2>1, <2>2, OutcomeKinds DEF Stands
<1>7. InOrder(adapter[c], "over", at[c], P!Answer(TRUE), v)
  <2>1. at[c] \in 0 .. 2 /\ Len(v) <= 2  BY <1>3, <1>5
  <2>. QED  BY <1>3, <1>5, <1>6, <2>1 DEF InOrder
<1>. USE DEF v
<1>. QED  BY <1>1, <1>2, <1>7, HearKeeps

LEMMA CallsStepKeeps == ASSUME CallsInv, [P!Next]_P!vars PROVE CallsInv'
<1>1. CASE UNCHANGED <<adapter, at, exchange, outcome, said>>
  BY <1>1 DEF CallsInv
<1>2. CASE P!Tick \/ UNCHANGED P!vars  BY <1>1, <1>2 DEF P!Tick, P!vars
<1>. QED  BY <1>2, AskKeeps, CachedKeeps, SendKeeps, AnswerHeardKeeps, TokenKeeps, BearerKeeps,
             PicturesKeep DEF P!Next

\* A call goes on only after good replies, and its answer stands by them.
THEOREM CallsInductive == Spec => []CallsInv
<1>1. Init => CallsInv  BY CallsInitHold DEF Init
<1>. QED  BY <1>1, CallsStepKeeps, AdapterSteps, PTL DEF Spec

LEMMA RefusalsAreNoAnswers == CallsInv => P!RefusalIsNoAnswer
<1>. SUFFICES ASSUME CallsInv, NEW c \in Calls, outcome[c].kind = "answer"
              PROVE  /\ \A k \in P!Needed(c) : said[c][k].status = "ok"
                     /\ LET last == said[c][Len(said[c])]
                            decisive == IF Decorated(adapter[c]) THEN said[c][1] ELSE last
                        IN  IF outcome[c].whole
                            THEN decisive.body = "answer" \/ adapter[c].trips[1] = "stream"
                            ELSE Partless(adapter[c], decisive.body)
  BY DEF P!RefusalIsNoAnswer, Decorated, Partless
<1>1. Stands(adapter[c], outcome[c], said[c])  BY DEF CallsInv, InOrder
<1>2. \A k \in P!Needed(c) : k \in DOMAIN said[c] /\ ~(Decorated(adapter[c]) /\ k = 2)
  BY DEF P!Needed, Decorated
<1>. QED  BY <1>1, <1>2 DEF Stands

-----------------------------------------------------------------------------
(* The services                                                            *)

LEMMA RegistrySteps == [Next]_all => [R!Next]_R!vars
<1>1. Next => R!Next \/ UNCHANGED settings
  BY DEF Next, Api, Capture, Bridge, Dictionary, Adapters, Models, Registry, Effects, Updates
<1>2. UNCHANGED all => UNCHANGED settings  BY DEF all
<1>3. UNCHANGED settings => UNCHANGED R!vars  BY DEF settings, R!vars, R!registry
<1>. QED  BY <1>1, <1>2, <1>3

\* A provider that can do what a call asks for.
Able(p, k) == p \in DOMAIN providers /\ R!provider_supports_service(providers[p].type, k)

\* Stored services have their providers and stored defaults their services.
StoredInv ==
    /\ DOMAIN services \subseteq R!Services /\ checked \in R!Services \cup {R!None}
    /\ \A s \in DOMAIN services : s.provider \in DOMAIN providers
    /\ DOMAIN defaults = R!Kinds
    /\ \A k \in R!Kinds : defaults[k] \in R!Services /\ defaults[k].custom
           => defaults[k] \in DOMAIN services

\* A calm call is on its way to a provider that can do what it asks for.
CallInv ==
    /\ DOMAIN call = {"step", "kind", "service", "calm"}
    /\ call.calm \in BOOLEAN
    /\ call.calm =>
           /\ call.step # "refused"
           /\ call.step = "resolved" => Able(call.service.provider, call.kind)
           /\ call.step = "again" =>
                  /\ call.kind = "llm" /\ call.service.custom /\ call.service \in DOMAIN services
                  /\ call.service.provider \in DOMAIN providers
                  /\ "llm" \in Offers[providers[call.service.provider].type]

ServicesInv == StoredInv /\ CallInv

LEMMA NoneIsNoService == R!None \notin R!Services
BY DEF R!None, R!Services, R!Kinds

LEMMA ServicesInitHold == R!Init => ServicesInv
<1>. SUFFICES ASSUME R!Init PROVE ServicesInv
  OBVIOUS
<1>1. call = R!Idle /\ checked = R!None  BY DEF R!Init
<1>2. CallInv  BY <1>1 DEF CallInv, R!Idle
<1>3. PICK old, revision : R!apply_catalog_seed_for(old, revision)  BY DEF R!Init
<1>4. CASE DOMAIN old \subseteq {"system"}
  <2>1. providers = R!DefaultSeed /\ services = [s \in R!SeedServices |-> 0] /\ defaults = R!SeedDefaults
    BY <1>3, <1>4 DEF R!apply_catalog_seed_for
  <2>2. R!SeedServices \subseteq {R!Implicit(p, "translation") : p \in {"google-web", "system"}}
    BY DEF R!SeedServices
  <2>3. \A p \in {"google-web", "system"} : R!Implicit(p, "translation") \in R!Services
    BY NamesAssumption DEF R!Implicit, R!Services, R!Kinds
  <2>4. DOMAIN defaults = R!Kinds /\ \A k \in R!Kinds : ~defaults[k].custom
    BY <2>1 DEF R!SeedDefaults, R!Kinds, R!Implicit
  <2>5. \A s \in DOMAIN services : s.provider \in {"google-web", "system"}  BY <2>1, <2>2 DEF R!Implicit
  <2>. QED  BY <1>1, <1>2, <2>1, <2>2, <2>3, <2>4, <2>5 DEF ServicesInv, StoredInv, R!DefaultSeed
<1>5. CASE ~(DOMAIN old \subseteq {"system"})
  <2>1. services = <<>>  BY <1>3, <1>5 DEF R!apply_catalog_seed_for
  <2>2. defaults = [translation |-> R!None,
                    dictionary |-> IF revision < 2 THEN R!Implicit("ecdict", "dictionary") ELSE R!None,
                    ocr |-> IF "system" \in DOMAIN providers THEN R!Implicit("system", "ocr") ELSE R!None]
    BY <1>3, <1>5 DEF R!apply_catalog_seed_for
  <2>3. R!None \notin R!Services  BY NoneIsNoService
  <2>4. DOMAIN defaults = R!Kinds
        /\ \A k \in R!Kinds : defaults[k] = R!None \/ ~defaults[k].custom
    BY <2>2 DEF R!Kinds, R!Implicit
  <2>. QED  BY <1>1, <1>2, <2>1, <2>3, <2>4 DEF ServicesInv, StoredInv
<1>. QED  BY <1>4, <1>5

\* What a commit leaves: a call that is no longer calm is under no promise.
LEMMA CommitKeepsCall == ASSUME CallInv, R!Commit PROVE CallInv'
BY DEF CallInv, R!Commit

LEMMA CommitKeeps ==
    ASSUME ServicesInv, R!Commit,
           DOMAIN services' \subseteq R!Services, checked' \in {checked, R!None},
           \A s \in DOMAIN services' : s.provider \in DOMAIN providers',
           DOMAIN defaults' = R!Kinds,
           \A k \in R!Kinds : defaults'[k] \in R!Services /\ defaults'[k].custom
               => defaults'[k] \in DOMAIN services'
    PROVE  ServicesInv'
BY CommitKeepsCall DEF ServicesInv, StoredInv

LEMMA SavesKeep ==
    ASSUME ServicesInv,
           \/ \E p \in R!Providers, t \in R!Types, n \in 1 .. MaxTime : R!SaveProvider(p, t, n)
           \/ \E n \in 1 .. MaxTime : R!SaveService(n)
    PROVE  ServicesInv'
<1>0. checked \in R!Services \cup {R!None} /\ R!None \notin R!Services
  BY NoneIsNoService DEF ServicesInv, StoredInv
<1>1. ASSUME NEW p \in R!Providers, NEW t \in R!Types, NEW n \in 1 .. MaxTime, R!SaveProvider(p, t, n)
      PROVE  ServicesInv'
  <2>1. R!Commit /\ UNCHANGED <<services, defaults, checked>>  BY <1>1 DEF R!SaveProvider
  <2>2. DOMAIN providers \subseteq DOMAIN providers'  BY <1>1 DEF R!SaveProvider, R!With
  <2>. QED  BY <2>1, <2>2, CommitKeeps DEF ServicesInv, StoredInv
<1>2. ASSUME NEW n \in 1 .. MaxTime, R!SaveService(n) PROVE ServicesInv'
  <2>1. CASE checked.provider \notin DOMAIN providers
    <3>1. UNCHANGED <<providers, services, defaults, call>> /\ checked' = R!None
      BY <1>2, <2>1 DEF R!SaveService, R!registry
    <3>. QED  BY <3>1 DEF ServicesInv, StoredInv, CallInv, Able
  <2>2. CASE checked.provider \in DOMAIN providers
    <3>1. R!Commit /\ UNCHANGED <<providers, defaults>> /\ DOMAIN services' = DOMAIN services \cup {checked}
         /\ checked' = R!None
      BY <1>2, <2>2 DEF R!SaveService, R!With
    <3>2. checked \in R!Services  BY <1>0, <1>2 DEF R!SaveService
    <3>. QED  BY <2>2, <3>1, <3>2, CommitKeeps DEF ServicesInv, StoredInv
  <2>. QED  BY <2>1, <2>2
<1>. QED  BY <1>1, <1>2

\* What is forgotten is forgotten by the defaults too.
LEMMA ForgetKeeps ==
    ASSUME ServicesInv, R!Commit, UNCHANGED checked, NEW gone,
           services' = R!Without(services, gone), defaults' = R!Cleared(gone),
           \A s \in DOMAIN services \ gone : s.provider \in DOMAIN providers'
    PROVE  ServicesInv'
<1>1. DOMAIN services' = DOMAIN services \ gone  BY DEF R!Without
<1>2. DOMAIN defaults' = R!Kinds
      /\ \A k \in R!Kinds : defaults'[k] = R!None \/ (defaults'[k] = defaults[k] /\ defaults[k] \notin gone)
  BY DEF R!Cleared
<1>3. \A k \in R!Kinds : defaults'[k] \in R!Services /\ defaults'[k].custom
          => defaults'[k] \in DOMAIN services'
  BY <1>1, <1>2, NoneIsNoService DEF ServicesInv, StoredInv
<1>4. DOMAIN services' \subseteq R!Services  BY <1>1 DEF ServicesInv, StoredInv
<1>5. \A s \in DOMAIN services' : s.provider \in DOMAIN providers'  BY <1>1
<1>6. DOMAIN defaults' = R!Kinds /\ checked' \in {checked, R!None}  BY <1>2
<1>. QED  BY <1>3, <1>4, <1>5, <1>6, CommitKeeps

LEMMA DeletesKeep ==
    ASSUME ServicesInv, \/ \E p \in R!Providers : R!DeleteProvider(p)
                        \/ \E s \in R!Services : R!DeleteService(s)
    PROVE  ServicesInv'
<1>1. ASSUME NEW p \in R!Providers, R!DeleteProvider(p) PROVE ServicesInv'
  <2> DEFINE stored == {s \in DOMAIN services : s.provider = p}
  <2>1. /\ R!Commit /\ UNCHANGED checked
        /\ services' = R!Without(services, stored) /\ defaults' = R!Cleared(stored)
        /\ providers' = R!Without(providers, {p})
    BY <1>1 DEF R!DeleteProvider
  <2>2. \A s \in DOMAIN services \ stored : s.provider \in DOMAIN providers'
    BY <2>1 DEF R!Without, ServicesInv, StoredInv
  <2>. HIDE DEF stored
  <2>. QED  BY <2>1, <2>2, ForgetKeeps
<1>2. ASSUME NEW s \in R!Services, R!DeleteService(s) PROVE ServicesInv'
  <2>1. /\ R!Commit /\ UNCHANGED <<checked, providers>>
        /\ services' = R!Without(services, {s}) /\ defaults' = R!Cleared({s})
    BY <1>2 DEF R!DeleteService
  <2>2. \A t \in DOMAIN services \ {s} : t.provider \in DOMAIN providers'
    BY <2>1 DEF ServicesInv, StoredInv
  <2>. QED  BY <2>1, <2>2, ForgetKeeps
<1>. QED  BY <1>1, <1>2

LEMMA ChoicesKeep ==
    ASSUME ServicesInv, \/ \E s \in R!Services : R!CheckService(s) \/ R!SetDefault(s)
                        \/ \E i \in DOMAIN R!Effective : R!SetOrder(i)
    PROVE  ServicesInv'
<1>1. ASSUME NEW s \in R!Services, R!CheckService(s) PROVE ServicesInv'
  BY <1>1 DEF R!CheckService, R!registry, ServicesInv, StoredInv, CallInv, Able
<1>2. ASSUME NEW s \in R!Services, R!SetDefault(s) PROVE ServicesInv'
  <2>1. R!Commit /\ UNCHANGED <<services, providers, checked>>
        /\ defaults' = [defaults EXCEPT ![s.kind] = s]
    BY <1>2 DEF R!SetDefault
  <2>2. s.custom => s \in DOMAIN services  BY <1>2 DEF R!SetDefault, R!Listed
  <2>. QED  BY <2>1, <2>2, CommitKeeps DEF ServicesInv, StoredInv
<1>3. ASSUME NEW i \in DOMAIN R!Effective, R!SetOrder(i) PROVE ServicesInv'
  <2>1. R!Commit /\ UNCHANGED <<services, providers, checked, defaults>>  BY <1>3 DEF R!SetOrder
  <2>. QED  BY <2>1, CommitKeeps DEF ServicesInv, StoredInv
<1>. QED  BY <1>1, <1>2, <1>3

\* A call changes only itself.
LEMMA CallKept ==
    ASSUME ServicesInv, UNCHANGED <<providers, services, defaults, checked>>, CallInv'
    PROVE  ServicesInv'
BY DEF ServicesInv, StoredInv

\* What is left of a call that is over.
LEMMA OverCall ==
    ASSUME NEW end, NEW quiet
    PROVE  LET o == R!Over(end, quiet)
           IN  DOMAIN o = {"step", "kind", "service", "calm"} /\ o.step = end /\ o.calm = quiet
BY DEF R!Over, R!Idle

LEMMA AsksKeep ==
    ASSUME ServicesInv, NEW s \in R!Services, NEW k \in R!Kinds \cup {"llm"}, R!Ask(s, k)
    PROVE  ServicesInv'
<1> DEFINE quiet == s \in R!Listed /\ (k = "llm" => R!Supports(s.provider, "llm"))
           where == IF R!Resolves(s, k) THEN "resolved" ELSE "again"
           over == ~R!Resolves(s, k) /\ k # "llm"
<1>1. call' = IF over THEN R!Over("refused", quiet)
              ELSE [step |-> where, kind |-> k, service |-> s, calm |-> quiet]
  BY DEF R!Ask
<1>10. UNCHANGED <<providers, services, defaults, checked>>  BY DEF R!Ask, R!registry
<1>2. k = s.kind \/ (k = "llm" /\ s.kind = "translation")  BY DEF R!Ask
<1>3. s.kind # "llm" /\ s.custom \in BOOLEAN  BY DEF R!Services, R!Kinds
<1>4. quiet => R!Supports(s.provider, k)  BY <1>2 DEF R!Listed
<1>5. R!Supports(s.provider, k) => Able(s.provider, k)  BY DEF R!Supports, Able
<1>6. quiet => (s.custom => s \in DOMAIN services)  BY DEF R!Listed
<1>7. CASE R!Resolves(s, k)
  <2>1. where = "resolved" /\ Able(s.provider, k)  BY <1>5, <1>7 DEF R!Resolves
  <2>. QED  BY <1>1, <1>7, <1>10, <2>1, CallKept DEF CallInv, Able
<1>8. CASE ~R!Resolves(s, k) /\ quiet
  <2>1. s.custom /\ k = "llm" /\ s \in DOMAIN services
    BY <1>2, <1>3, <1>4, <1>6, <1>8 DEF R!Resolves
  <2>2. s.provider \in DOMAIN providers /\ "llm" \in Offers[providers[s.provider].type]
    BY <1>4, <1>8, <2>1 DEF R!Supports, R!provider_supports_service
  <2>3. where = "again" /\ ~over  BY <1>8, <2>1
  <2>. QED  BY <1>1, <1>10, <2>1, <2>2, <2>3, CallKept DEF CallInv
<1>9. CASE ~quiet
  <2>1. CallInv'  BY <1>1, <1>9, OverCall DEF CallInv
  <2>. QED  BY <1>10, <2>1, CallKept
<1>. QED  BY <1>7, <1>8, <1>9

LEMMA GoingKeeps ==
    ASSUME ServicesInv, R!AskAgain \/ R!NextCall \/ \E has \in BOOLEAN : R!Require(has)
    PROVE  ServicesInv'
<1>0. CallInv  BY DEF ServicesInv
<1>1. CASE R!AskAgain
  <2>1. UNCHANGED <<providers, services, defaults, checked>> /\ call.step = "again"
    BY <1>1 DEF R!AskAgain, R!registry
  <2> DEFINE able == /\ call.service.custom /\ call.service \in DOMAIN services
                     /\ call.service.provider \in DOMAIN providers
                     /\ "llm" \in Offers[providers[call.service.provider].type]
  <2>2. call' = IF able THEN [call EXCEPT !.step = "resolved"] ELSE R!Over("refused", call.calm)
    BY <1>1 DEF R!AskAgain
  <2>3. call.calm => able /\ Able(call.service.provider, call.kind)
    BY <1>0, <2>1 DEF CallInv, Able, R!provider_supports_service
  <2>. HIDE DEF able
  <2>4. CallInv'
    <3>1. CASE able  BY <1>0, <2>1, <2>2, <2>3, <3>1 DEF CallInv, Able
    <3>2. CASE ~able  BY <1>0, <2>2, <2>3, <3>2, OverCall DEF CallInv
    <3>. QED  BY <3>1, <3>2
  <2>. QED  BY <2>1, <2>4, CallKept
<1>2. CASE R!NextCall
  <2>1. UNCHANGED <<providers, services, defaults, checked>> /\ call' = R!Idle
    BY <1>2 DEF R!NextCall, R!registry
  <2>2. CallInv'  BY <2>1 DEF CallInv, R!Idle
  <2>. QED  BY <2>1, <2>2, CallKept
<1>3. ASSUME NEW has \in BOOLEAN, R!Require(has) PROVE ServicesInv'
  <2>1. UNCHANGED <<providers, services, defaults, checked>> /\ call.step = "resolved"
    BY <1>3 DEF R!Require, R!registry
  <2>2. PICK w \in {"refused", "answered", "no model"} : call' = R!Over(w, call.calm)
            /\ (w = "refused" => ~Able(call.service.provider, call.kind))
    BY <1>3 DEF R!Require, Able
  <2>3. CallInv'  BY <1>0, <2>1, <2>2, OverCall DEF CallInv
  <2>. QED  BY <2>1, <2>3, CallKept
<1>. QED  BY <1>1, <1>2, <1>3

LEMMA ServicesStepKeeps == ASSUME ServicesInv, [R!Next]_R!vars PROVE ServicesInv'
<1>1. CASE UNCHANGED R!vars
  BY <1>1 DEF R!vars, R!registry, ServicesInv, StoredInv, CallInv, Able
<1>. QED  BY <1>1, SavesKeep, DeletesKeep, ChoicesKeep, AsksKeep, GoingKeeps DEF R!Next

\* Stored services have their providers, stored defaults their services, and a
\* call no commit disturbs is on its way to a provider that can answer it.
THEOREM ServicesInductive == Spec => []ServicesInv
<1>1. Init => ServicesInv  BY ServicesInitHold DEF Init
<1>. QED  BY <1>1, ServicesStepKeeps, RegistrySteps, PTL DEF Spec

LEMMA ListedResolve == ServicesInv => R!ServicesResolve
BY DEF ServicesInv, StoredInv, CallInv, R!ServicesResolve

-----------------------------------------------------------------------------
(* The services' order.  What is listed by rank is listed once: a finite set *)
(* that is ordered has as many ranks as members, each for one of them.      *)

\* Cardinality is the same for the registry.
LEMMA SameSize == \A X : R!Cardinality(X) = Cardinality(X)
BY DEF R!Cardinality, Cardinality

\* before orders the members of X, one before the other.
Orders(before, X) ==
    /\ \A x, y \in X : x # y => <<x, y>> \in before \/ <<y, x>> \in before
    /\ \A x, y \in X : <<x, y>> \in before => <<y, x>> \notin before
    /\ \A x, y, z \in X : <<x, y>> \in before /\ <<y, z>> \in before => <<x, z>> \in before

\* How many of X are before each.
RankIn(before, X) == [s \in X |-> Cardinality({t \in X \ {s} : <<t, s>> \in before})]

\* Every number below the size of a finite set that is ordered is the rank of
\* one of its members.
LEMMA Ranked ==
    ASSUME NEW X, IsFiniteSet(X), NEW before, Orders(before, X)
    PROVE  /\ Cardinality(X) \in Nat
           /\ RankIn(before, X) \in [X -> 0 .. Cardinality(X) - 1]
           /\ \A x, y \in X : RankIn(before, X)[x] = RankIn(before, X)[y] => x = y
           /\ \A n \in 0 .. Cardinality(X) - 1 : \E s \in X : RankIn(before, X)[s] = n
<1> DEFINE rank == RankIn(before, X)
<1>. USE DEF RankIn, Orders
<1> DEFINE Below(s) == {t \in X \ {s} : <<t, s>> \in before}
<1>1. \A s \in X : IsFiniteSet(Below(s)) /\ Cardinality(Below(s)) \in 0 .. Cardinality(X) - 1
  <2>. TAKE s \in X
  <2>1. IsFiniteSet(X \ {s}) /\ Cardinality(X \ {s}) = Cardinality(X) - 1
    BY FS_RemoveElement
  <2>2. Below(s) \in SUBSET (X \ {s})  OBVIOUS
  <2>3. IsFiniteSet(Below(s)) /\ Cardinality(Below(s)) <= Cardinality(X \ {s})
    BY <2>1, <2>2, FS_Subset
  <2>4. Cardinality(Below(s)) \in Nat /\ Cardinality(X) \in Nat  BY <2>3, FS_CardinalityType
  <2>. QED  BY <2>1, <2>3, <2>4
<1>2. Cardinality(X) \in Nat  BY FS_CardinalityType
<1>3. rank \in [X -> 0 .. Cardinality(X) - 1]  BY <1>1
<1>4. \A x, y \in X : <<x, y>> \in before => rank[x] < rank[y]
  <2>. SUFFICES ASSUME NEW x \in X, NEW y \in X, <<x, y>> \in before PROVE rank[x] < rank[y]
    OBVIOUS
  <2>1. x \notin Below(x)  OBVIOUS
  <2>2. Below(x) \cup {x} \in SUBSET Below(y)  OBVIOUS
  <2>3. IsFiniteSet(Below(x) \cup {x}) /\ Cardinality(Below(x) \cup {x}) = Cardinality(Below(x)) + 1
    BY <1>1, <2>1, FS_AddElement
  <2>4. Cardinality(Below(x) \cup {x}) <= Cardinality(Below(y))
    BY <1>1, <2>2, FS_Subset
  <2>5. rank[x] = Cardinality(Below(x)) /\ rank[y] = Cardinality(Below(y))  OBVIOUS
  <2>6. rank[x] \in Int /\ rank[y] \in Int  BY <1>2, <1>3
  <2>. HIDE DEF Below
  <2>. QED  BY <2>3, <2>4, <2>5, <2>6
<1>5. \A x, y \in X : rank[x] = rank[y] => x = y
  <2>. SUFFICES ASSUME NEW x \in X, NEW y \in X, rank[x] = rank[y], x # y PROVE FALSE
    OBVIOUS
  <2>1. rank[x] < rank[y] \/ rank[y] < rank[x]  BY <1>4
  <2>2. rank[x] \in Int /\ rank[y] \in Int  BY <1>2, <1>3
  <2>. HIDE DEF Below
  <2>. QED  BY <2>1, <2>2
<1>6. rank \in Surjection(X, 0 .. Cardinality(X) - 1)
  <2>1. rank \in Injection(X, 0 .. Cardinality(X) - 1)  BY <1>3, <1>5 DEF Injection, IsInjective
  <2>2. IsFiniteSet(0 .. Cardinality(X) - 1)
        /\ Cardinality(0 .. Cardinality(X) - 1) = Cardinality(X)
    BY <1>2, FS_Interval
  <2>. QED  BY <2>1, <2>2, FS_Injection
<1>7. \A n \in 0 .. Cardinality(X) - 1 : \E s \in X : rank[s] = n  BY <1>6 DEF Surjection
<1>. QED  BY <1>2, <1>3, <1>5, <1>7

\* So the members of X, each at the place of its rank, are a list of them all,
\* each once.
LEMMA Listing ==
    ASSUME NEW X, IsFiniteSet(X), NEW before, Orders(before, X)
    PROVE  /\ R!Sorted(RankIn(before, X)) \in Seq(X)
           /\ \A i, j \in DOMAIN R!Sorted(RankIn(before, X)) : R!Sorted(RankIn(before, X))[i] = R!Sorted(RankIn(before, X))[j] => i = j
           /\ \A s \in X : \E i \in DOMAIN R!Sorted(RankIn(before, X)) : R!Sorted(RankIn(before, X))[i] = s
<1> DEFINE rank == RankIn(before, X)
           listed == R!Sorted(RankIn(before, X))
           Chosen(n) == CHOOSE s \in DOMAIN rank : rank[s] = n - 1
<1>1. /\ Cardinality(X) \in Nat
      /\ rank \in [X -> 0 .. Cardinality(X) - 1]
      /\ \A x, y \in X : rank[x] = rank[y] => x = y
      /\ \A n \in 0 .. Cardinality(X) - 1 : \E s \in X : rank[s] = n
  BY Ranked
<1>2. DOMAIN rank = X  BY DEF RankIn
<1>3. listed = [n \in 1 .. Cardinality(DOMAIN rank) |-> Chosen(n)]
  BY SameSize DEF R!Sorted
<1>. HIDE DEF rank, listed
<1>9. \A n \in 1 .. Cardinality(X) : Chosen(n) \in X /\ rank[Chosen(n)] = n - 1
  <2>. TAKE n \in 1 .. Cardinality(X)
  <2>1. n - 1 \in 0 .. Cardinality(X) - 1  BY <1>1
  <2>2. PICK s \in X : rank[s] = n - 1  BY <1>1, <2>1
  <2>. QED  BY <1>2, <2>2
<1>. HIDE DEF Chosen
<1>8. \A n \in 1 .. Cardinality(X) : listed[n] \in X /\ rank[listed[n]] = n - 1
  BY <1>2, <1>3, <1>9
<1>4. listed \in Seq(X) /\ DOMAIN listed = 1 .. Cardinality(X)
  <2>1. listed \in [1 .. Cardinality(X) -> X]  BY <1>2, <1>3, <1>8
  <2>2. listed \in UNION {[1 .. n -> X] : n \in Nat}  BY <1>1, <2>1
  <2>. QED  BY <2>1, <2>2, SeqDef
<1>5. \A i, j \in DOMAIN listed : listed[i] = listed[j] => i = j
  <2>. SUFFICES ASSUME NEW i \in 1 .. Cardinality(X), NEW j \in 1 .. Cardinality(X),
                       listed[i] = listed[j] PROVE i = j
    BY <1>4
  <2>1. i - 1 = j - 1  BY <1>8
  <2>. QED  BY <1>1, <2>1
<1>6. \A s \in X : \E i \in DOMAIN listed : listed[i] = s
  <2>. TAKE s \in X
  <2>1. rank[s] \in 0 .. Cardinality(X) - 1  BY <1>1
  <2>2. PICK i \in 1 .. Cardinality(X) : i - 1 = rank[s]
    <3>1. rank[s] + 1 \in 1 .. Cardinality(X) /\ (rank[s] + 1) - 1 = rank[s]  BY <1>1, <2>1
    <3>. QED  BY <3>1
  <2>3. listed[i] \in X /\ rank[listed[i]] = rank[s]  BY <1>8, <2>2
  <2>4. listed[i] = s  BY <1>1, <2>3
  <2>. QED  BY <1>4, <2>4
<1>. QED  BY <1>4, <1>5, <1>6 DEF listed

\* What is retained of an order are the places of it that hold what is kept.
LEMMA RetainedHolds ==
    ASSUME NEW X, order \in Seq(R!Services), IsInjective(order)
    PROVE  /\ R!Retained(X) \in Seq(R!Services \cap X) /\ IsInjective(R!Retained(X))
           /\ Range(R!Retained(X)) = X \cap Range(order)
<1> DEFINE kept == {i \in DOMAIN order : order[i] \in X}
           less == {q \in kept \X kept : q[1] < q[2]}
           rank == [i \in kept |-> R!Cardinality({j \in kept : j < i})]
           places == R!Sorted(rank)
<1>1. kept \subseteq 1 .. Len(order) /\ Len(order) \in Nat /\ DOMAIN order = 1 .. Len(order)
  OBVIOUS
<1>2. IsFiniteSet(kept)
  <2>1. IsFiniteSet(1 .. Len(order))  BY <1>1, FS_Interval
  <2>. QED  BY <1>1, <2>1, FS_Subset
<1>3. Orders(less, kept)  BY <1>1 DEF Orders
<1>4. rank = RankIn(less, kept)
  <2>1. \A i \in kept : {j \in kept : j < i} = {j \in kept \ {i} : <<j, i>> \in less}  BY <1>1
  <2>. QED  BY <2>1, SameSize DEF RankIn
<1>. HIDE DEF less
<1>5. /\ places \in Seq(kept)
      /\ \A i, j \in DOMAIN places : places[i] = places[j] => i = j
      /\ \A i \in kept : \E n \in DOMAIN places : places[n] = i
  <2>. HIDE DEF kept, rank
  <2>. QED  BY <1>2, <1>3, <1>4, Listing
<1>6. R!Retained(X) = [n \in DOMAIN places |-> order[places[n]]]  BY DEF R!Retained
<1>. HIDE DEF rank, places
<1>7. \A n \in DOMAIN places : places[n] \in DOMAIN order /\ order[places[n]] \in R!Services \cap X
  <2>1. \A n \in DOMAIN places : places[n] \in kept  BY <1>5
  <2>2. \A i \in DOMAIN order : order[i] \in R!Services  BY <1>1
  <2>. QED  BY <2>1, <2>2
<1>8. R!Retained(X) \in Seq(R!Services \cap X)
  <2>1. DOMAIN places = 1 .. Len(places) /\ Len(places) \in Nat  BY <1>5
  <2>2. R!Retained(X) \in [1 .. Len(places) -> R!Services \cap X]  BY <1>6, <1>7, <2>1
  <2>3. R!Retained(X) \in UNION {[1 .. n -> R!Services \cap X] : n \in Nat}  BY <2>1, <2>2
  <2>. QED  BY <2>3, SeqDef
<1>9. IsInjective(R!Retained(X))  BY <1>5, <1>6, <1>7 DEF IsInjective
<1>10. \A s \in X : s \in Range(order) => s \in Range(R!Retained(X))
  <2>. SUFFICES ASSUME NEW i \in DOMAIN order, order[i] \in X
                PROVE  order[i] \in Range(R!Retained(X))
    BY DEF Range
  <2>1. PICK n \in DOMAIN places : places[n] = i  BY <1>5
  <2>. QED  BY <1>6, <2>1 DEF Range
<1>11. Range(R!Retained(X)) \subseteq X \cap Range(order)  BY <1>6, <1>7 DEF Range
<1>. QED  BY <1>8, <1>9, <1>10, <1>11

\* The settings are of their types, and no service is twice in the order.
OrderInv ==
    /\ order \in Seq(R!Services) /\ IsInjective(order)
    /\ \A p \in DOMAIN providers :
           p \in R!Providers /\ providers[p] \in [type : R!Types, created : Nat]
    /\ \A s \in DOMAIN services : services[s] \in Nat

LEMMA ProviderNames ==
    /\ DOMAIN Names = 1 .. Len(Names) /\ Len(Names) \in Nat
    /\ \A p \in R!Providers : \E i \in DOMAIN Names : Names[i] = p
<1>1. DOMAIN Names = 1 .. Len(Names) /\ Len(Names) \in Nat  BY NamesAssumption, LenProperties
<1>. QED  BY <1>1 DEF R!Providers, R!Range

\* The translations are finitely many.
LEMMA FewTranslations ==
    ASSUME NEW X, X \subseteq {s \in R!Services : s.kind = "translation"} PROVE IsFiniteSet(X)
<1> DEFINE T(c) == {s \in R!Services : s.kind = "translation" /\ s.custom = c}
           f(c) == [i \in 1 .. Len(Names) |-> [provider |-> Names[i], kind |-> "translation", custom |-> c]]
<1>1. ASSUME NEW c \in BOOLEAN PROVE IsFiniteSet(T(c))
  <2>1. DOMAIN Names = 1 .. Len(Names) /\ Len(Names) \in Nat  BY ProviderNames
  <2>2. \A i \in 1 .. Len(Names) : f(c)[i] \in T(c)
    BY <2>1 DEF R!Services, R!Kinds, R!Providers, R!Range
  <2>3. \A s \in T(c) : \E i \in 1 .. Len(Names) : f(c)[i] = s
    <3>. TAKE s \in T(c)
    <3>1. PICK i \in 1 .. Len(Names) : Names[i] = s.provider
      BY <2>1, ProviderNames DEF R!Services
    <3>2. s = [provider |-> s.provider, kind |-> "translation", custom |-> c]  BY DEF R!Services
    <3>. QED  BY <3>1, <3>2
  <2>4. f(c) \in [1 .. Len(Names) -> T(c)]  BY <2>2
  <2>5. IsFiniteSet(1 .. Len(Names))  BY <2>1, FS_Interval
  <2>. HIDE DEF T, f
  <2>6. f(c) \in Surjection(1 .. Len(Names), T(c))  BY <2>3, <2>4 DEF Surjection
  <2>. QED  BY <2>5, <2>6, FS_Surjection
<1>2. IsFiniteSet(T(TRUE) \cup T(FALSE))  BY <1>1, FS_Union
<1>3. X \subseteq T(TRUE) \cup T(FALSE)  BY DEF R!Services
<1>. QED  BY <1>2, <1>3, FS_Subset

\* Of two translations one is the earlier: made before, of a provider whose name
\* comes before, or the one that was added to its provider.
LEMMA EarlierOrders ==
    ASSUME OrderInv, NEW X, X \subseteq {s \in R!Listed : s.kind = "translation"}
    PROVE  Orders({q \in X \X X : q[1] # q[2] /\ R!Earlier(q[1], q[2])}, X)
<1> DEFINE Place(p) == CHOOSE i \in DOMAIN Names : Names[i] = p
           before == {q \in X \X X : q[1] # q[2] /\ R!Earlier(q[1], q[2])}
<1>1. \A s \in X : s \in R!Services /\ s.kind = "translation" /\ s.provider \in DOMAIN providers
  BY DEF R!Listed, R!Supports
<1>2. \A s \in X : R!Created(s) \in Nat  BY <1>1 DEF R!Created, OrderInv
<1>3. \A p \in R!Providers : Place(p) \in Nat /\ Names[Place(p)] = p
  BY ProviderNames
<1>4. \A s, t \in X : R!Earlier(s, t) <=>
          \/ R!Created(s) < R!Created(t)
          \/ R!Created(s) = R!Created(t) /\ \/ Place(s.provider) < Place(t.provider)
                                            \/ s.provider = t.provider /\ s.custom
  BY DEF R!Earlier
<1>. HIDE DEF Place
<1>5. \A s, t \in X : s.provider = t.provider /\ s.custom = t.custom => s = t
  BY <1>1 DEF R!Services
<1>6. \A s \in X : s.provider \in R!Providers /\ s.custom \in BOOLEAN  BY <1>1 DEF R!Services
<1>7. \A s, t \in X : <<s, t>> \in before <=> s # t /\ R!Earlier(s, t)  OBVIOUS
<1>. HIDE DEF before
<1>8. \A s, t \in X : Place(s.provider) = Place(t.provider) => s.provider = t.provider
  BY <1>3, <1>6
<1>9. \A s \in X : Place(s.provider) \in Nat  BY <1>3, <1>6
<1>10. \A s, t \in X : s # t => <<s, t>> \in before \/ <<t, s>> \in before
  BY <1>2, <1>4, <1>5, <1>6, <1>7, <1>8, <1>9
<1>11. \A s, t \in X : <<s, t>> \in before => <<t, s>> \notin before
  BY <1>2, <1>4, <1>5, <1>6, <1>7, <1>8, <1>9
<1>12. \A s, t, u \in X : <<s, t>> \in before /\ <<t, u>> \in before => <<s, u>> \in before
  BY <1>2, <1>4, <1>5, <1>6, <1>7, <1>8, <1>9
<1>. QED  BY <1>10, <1>11, <1>12 DEF Orders, before

LEMMA SameFunctions ==
    \A f : (R!IsInjective(f) <=> IsInjective(f)) /\ R!Range(f) = Range(f)
BY DEF R!IsInjective, IsInjective, R!Range, Range

\* One list after another, without a member in common.
LEMMA ApartInjective ==
    ASSUME NEW X, NEW v \in Seq(X), NEW w \in Seq(X), IsInjective(v), IsInjective(w),
           \A i \in DOMAIN v, j \in DOMAIN w : v[i] # w[j]
    PROVE  v \o w \in Seq(X) /\ IsInjective(v \o w) /\ Range(v \o w) = Range(v) \cup Range(w)
<1>1. /\ v \o w \in Seq(X) /\ Len(v \o w) = Len(v) + Len(w)
      /\ \A i \in 1 .. Len(v) + Len(w) : (v \o w)[i] = IF i <= Len(v) THEN v[i] ELSE w[i - Len(v)]
  BY ConcatProperties
<1>2. /\ Len(v) \in Nat /\ Len(w) \in Nat /\ DOMAIN v = 1 .. Len(v) /\ DOMAIN w = 1 .. Len(w)
      /\ DOMAIN (v \o w) = 1 .. Len(v) + Len(w)
  BY <1>1, LenProperties
<1> DEFINE both == v \o w
<1>. HIDE DEF both
<1>3. /\ DOMAIN both = 1 .. Len(v) + Len(w)
      /\ \A i \in 1 .. Len(v) + Len(w) : both[i] = IF i <= Len(v) THEN v[i] ELSE w[i - Len(v)]
  BY <1>1, <1>2 DEF both
<1>4. IsInjective(both)
  <2>. SUFFICES ASSUME NEW i \in 1 .. Len(v) + Len(w), NEW j \in 1 .. Len(v) + Len(w),
                       both[i] = both[j] PROVE i = j
    BY <1>3 DEF IsInjective
  <2>1. CASE i <= Len(v) /\ j <= Len(v)
    <3>1. i \in DOMAIN v /\ j \in DOMAIN v /\ v[i] = v[j]  BY <1>2, <1>3, <2>1
    <3>. QED  BY <3>1 DEF IsInjective
  <2>2. CASE ~(i <= Len(v)) /\ ~(j <= Len(v))
    <3>1. i - Len(v) \in DOMAIN w /\ j - Len(v) \in DOMAIN w /\ w[i - Len(v)] = w[j - Len(v)]
      BY <1>2, <1>3, <2>2
    <3>2. i - Len(v) = j - Len(v)  BY <3>1 DEF IsInjective
    <3>. QED  BY <1>2, <3>2
  <2>3. CASE i <= Len(v) /\ ~(j <= Len(v))
    <3>1. i \in DOMAIN v /\ j - Len(v) \in DOMAIN w /\ v[i] = w[j - Len(v)]  BY <1>2, <1>3, <2>3
    <3>. QED  BY <3>1
  <2>4. CASE ~(i <= Len(v)) /\ j <= Len(v)
    <3>1. j \in DOMAIN v /\ i - Len(v) \in DOMAIN w /\ v[j] = w[i - Len(v)]  BY <1>2, <1>3, <2>4
    <3>. QED  BY <3>1
  <2>. QED  BY <2>1, <2>2, <2>3, <2>4
<1>5. Range(both) \subseteq Range(v) \cup Range(w)
  <2>. SUFFICES ASSUME NEW i \in 1 .. Len(v) + Len(w) PROVE both[i] \in Range(v) \cup Range(w)
    BY <1>3 DEF Range
  <2>1. CASE i <= Len(v)  BY <1>2, <1>3, <2>1 DEF Range
  <2>2. CASE ~(i <= Len(v))
    <3>1. i - Len(v) \in DOMAIN w /\ both[i] = w[i - Len(v)]  BY <1>2, <1>3, <2>2
    <3>. QED  BY <3>1 DEF Range
  <2>. QED  BY <2>1, <2>2
<1>6. Range(v) \subseteq Range(both)
  <2>1. \A i \in DOMAIN v : i \in DOMAIN both /\ both[i] = v[i]  BY <1>2, <1>3
  <2>. QED  BY <2>1 DEF Range
<1>7. Range(w) \subseteq Range(both)
  <2>1. \A j \in DOMAIN w : Len(v) + j \in DOMAIN both /\ both[Len(v) + j] = w[j]
    <3>. TAKE j \in DOMAIN w
    <3>1. Len(v) + j \in 1 .. Len(v) + Len(w) /\ ~(Len(v) + j <= Len(v)) /\ (Len(v) + j) - Len(v) = j
      BY <1>2
    <3>. QED  BY <1>3, <3>1
  <2>. QED  BY <2>1 DEF Range
<1>. QED  BY <1>1, <1>4, <1>5, <1>6, <1>7 DEF both

\* The order a window shows has every listed translation once: those that are
\* placed already, and the others behind them.
LEMMA EffectiveHolds ==
    ASSUME OrderInv PROVE R!OnePlace /\ R!Effective \in Seq(R!Services)
<1> DEFINE ids == {s \in R!Listed : s.kind = "translation"}
           others == ids \ R!Range(order)
           before == {q \in others \X others : q[1] # q[2] /\ R!Earlier(q[1], q[2])}
           rank == [s \in others |-> R!Cardinality({t \in others \ {s} : R!Earlier(t, s)})]
           added == R!Sorted(rank)
           placed == R!Retained(ids)
<1>1. R!Effective = placed \o added  BY DEF R!Effective
<1>2. IsFiniteSet(others) /\ Orders(before, others)
  <2>1. others \subseteq ids /\ ids \subseteq {s \in R!Services : s.kind = "translation"}
    BY DEF R!Listed
  <2>. QED  BY <2>1, FewTranslations, EarlierOrders
<1>3. rank = RankIn(before, others)
  <2>1. \A s \in others : {t \in others \ {s} : R!Earlier(t, s)} = {t \in others \ {s} : <<t, s>> \in before}
    OBVIOUS
  <2>. QED  BY <2>1, SameSize DEF RankIn
<1>4. ids \subseteq R!Services  BY DEF R!Listed
<1>. HIDE DEF before
<1>5. added \in Seq(others) /\ IsInjective(added) /\ Range(added) = others
  <2>. HIDE DEF others, rank
  <2>1. /\ added \in Seq(others)
        /\ \A i, j \in DOMAIN added : added[i] = added[j] => i = j
        /\ \A s \in others : \E i \in DOMAIN added : added[i] = s
    BY <1>2, <1>3, Listing
  <2>. HIDE DEF added
  <2>2. \A i \in DOMAIN added : added[i] \in others  BY <2>1
  <2>. QED  BY <2>1, <2>2 DEF IsInjective, Range
<1>. HIDE DEF added
<1>6. /\ placed \in Seq(R!Services \cap ids) /\ IsInjective(placed)
      /\ Range(placed) = ids \cap Range(order)
  <2>. HIDE DEF ids
  <2>. QED  BY RetainedHolds DEF OrderInv
<1>7. Range(placed) = ids \cap R!Range(order)  BY <1>6, SameFunctions
<1>8. placed \in Seq(ids) /\ added \in Seq(ids)
  <2>1. R!Services \cap ids = ids  BY <1>4
  <2>. QED  BY <1>5, <1>6, <2>1, SeqMonotonic
<1>9. \A i \in DOMAIN placed, j \in DOMAIN added : placed[i] # added[j]
  BY <1>5, <1>7 DEF Range
<1>10. placed \o added \in Seq(ids) /\ IsInjective(placed \o added)
       /\ Range(placed \o added) = Range(placed) \cup Range(added)
  <2>. HIDE DEF ids, placed
  <2>. QED  BY <1>5, <1>6, <1>8, <1>9, ApartInjective
<1>11. Range(placed) \cup Range(added) = ids  BY <1>5, <1>7
<1>12. R!Effective \in Seq(R!Services)  BY <1>1, <1>4, <1>10, SeqMonotonic
<1>. HIDE DEF placed
<1>. QED  BY <1>1, <1>10, <1>11, <1>12, SameFunctions DEF R!OnePlace

SettingsInv == OrderInv /\ R!TypeOK

LEMMA SettingsInitHold == R!Init => SettingsInv
<1>. SUFFICES ASSUME R!Init PROVE SettingsInv
  OBVIOUS
<1>1. call = R!Idle /\ checked = R!None /\ commits = 0  BY DEF R!Init
<1>10. call.step = "idle" /\ commits \in 0 .. MaxCommits
  <2>1. MaxCommits \in Nat  BY BoundsAssumption
  <2>2. call.step = "idle"  BY <1>1 DEF R!Idle
  <2>. QED  BY <1>1, <2>1, <2>2
<1>2. PICK ids \in {{}, {"system"}, {"google-web"}}, revision \in 1 .. 2 :
          R!apply_catalog_seed_for([p \in ids |-> R!Entry(p)], revision)
  BY DEF R!Init
<1> DEFINE old == [p \in ids |-> R!Entry(p)]
<1>3. {"ecdict", "system", "google-web"} \subseteq R!Providers  BY NamesAssumption
<1>4. {"ecdict", "system", "google-web"} \subseteq R!Types
  BY NamesAssumption
<1>5. \A p \in {"ecdict", "system", "google-web"}, k \in R!Kinds : R!Implicit(p, k) \in R!Services
  BY <1>3 DEF R!Implicit, R!Services
<1>6. \A p \in ids : old[p] = R!Entry(p) /\ p \in {"ecdict", "system", "google-web"}  OBVIOUS
<1>7. {"translation", "dictionary", "ocr"} = R!Kinds  BY DEF R!Kinds
<1>11. \A p \in {"ecdict", "system", "google-web"} :
           p \in R!Providers /\ R!Entry(p) \in [type : R!Types, created : Nat]
  BY <1>3, <1>4 DEF R!Entry
<1>8. CASE DOMAIN old \subseteq {"system"}
  <2>1. /\ providers = R!DefaultSeed /\ services = [s \in R!SeedServices |-> 0]
        /\ order = R!SeedOrder /\ defaults = R!SeedDefaults
    BY <1>2, <1>8 DEF R!apply_catalog_seed_for
  <2> DEFINE web == R!Implicit("google-web", "translation")
             mac == R!Implicit("system", "translation")
  <2>2. order = <<web>> \o <<mac>> \/ order = <<web>>
    <3>1. Macos \in BOOLEAN  BY NamesAssumption
    <3>2. order = <<web>> \o (IF Macos THEN <<mac>> ELSE <<>>)  BY <2>1 DEF R!SeedOrder
    <3>. HIDE DEF web, mac
    <3>3. <<web>> \o <<>> = <<web>>  OBVIOUS
    <3>. QED  BY <3>1, <3>2, <3>3
  <2>3. DOMAIN services \subseteq R!Services /\ \A s \in DOMAIN services : services[s] = 0
    BY <1>5, <1>7, <2>1 DEF R!SeedServices
  <2>4. \A p \in DOMAIN providers : p \in {"ecdict", "system", "google-web"} /\ providers[p] = R!Entry(p)
    BY <2>1 DEF R!DefaultSeed
  <2>5. defaults \in [R!Kinds -> R!Services \cup {R!None}]
    <3>1. /\ R!Implicit("google-web", "translation") \in R!Services
          /\ R!Implicit("ecdict", "dictionary") \in R!Services
          /\ R!Implicit("system", "ocr") \in R!Services
      BY <1>5, <1>7
    <3>. QED  BY <2>1, <3>1 DEF R!SeedDefaults, R!Kinds
  <2>6. order \in Seq(R!Services) /\ IsInjective(order)
    <3>1. web \in R!Services /\ mac \in R!Services  BY <1>5, <1>7
    <3>2. web # mac  BY DEF R!Implicit
    <3>. HIDE DEF web, mac
    <3>3. \A s \in R!Services :
              <<s>> \in Seq(R!Services) /\ IsInjective(<<s>>) /\ \A i \in DOMAIN <<s>> : <<s>>[i] = s
      BY DEF IsInjective
    <3>4. <<web>> \o <<mac>> \in Seq(R!Services) /\ IsInjective(<<web>> \o <<mac>>)
      BY <3>1, <3>2, <3>3, ApartInjective
    <3>. QED  BY <2>2, <3>1, <3>3, <3>4
  <2>7. OrderInv  BY <1>11, <2>3, <2>4, <2>6 DEF OrderInv
  <2>. QED  BY <1>10, <2>3, <2>5, <2>6, <2>7 DEF SettingsInv, OrderInv, R!TypeOK
<1>9. CASE ~(DOMAIN old \subseteq {"system"})
  <2>1. /\ services = <<>> /\ order = <<>>
        /\ defaults = [translation |-> R!None,
                       dictionary |-> IF revision < 2 THEN R!Implicit("ecdict", "dictionary")
                                      ELSE R!None,
                       ocr |-> IF "system" \in DOMAIN providers THEN R!Implicit("system", "ocr")
                               ELSE R!None]
    BY <1>2, <1>9 DEF R!apply_catalog_seed_for
  <2>2. \A p \in DOMAIN providers : p \in {"ecdict", "system", "google-web"} /\ providers[p] = R!Entry(p)
    <3> DEFINE first == IF revision < 2 /\ "ecdict" \notin DOMAIN old
                        THEN R!With(old, "ecdict", R!Entry("ecdict")) ELSE old
    <3>1. \A p \in DOMAIN first : p \in {"ecdict", "system", "google-web"} /\ first[p] = R!Entry(p)
      BY <1>6 DEF R!With
    <3>2. providers = first \/ providers = R!With(first, "system", R!Entry("system"))
      BY <1>2, <1>9 DEF R!apply_catalog_seed_for
    <3>. HIDE DEF first
    <3>. QED  BY <3>1, <3>2 DEF R!With
  <2>3. defaults \in [R!Kinds -> R!Services \cup {R!None}]
    <3>1. R!Implicit("ecdict", "dictionary") \in R!Services /\ R!Implicit("system", "ocr") \in R!Services
      BY <1>5, <1>7
    <3>. QED  BY <2>1, <3>1 DEF R!Kinds
  <2>4. order \in Seq(R!Services) /\ IsInjective(order)  BY <2>1 DEF IsInjective
  <2>5. DOMAIN services = {}  BY <2>1
  <2>6. OrderInv  BY <1>11, <2>2, <2>4, <2>5 DEF OrderInv
  <2>. QED  BY <1>10, <2>3, <2>4, <2>5, <2>6 DEF SettingsInv, OrderInv, R!TypeOK
<1>. QED  BY <1>8, <1>9

\* What a commit has to leave.
LEMMA CommitTypes ==
    ASSUME SettingsInv, CallInv, R!Commit,
           order' \in Seq(R!Services), IsInjective(order'),
           \A p \in DOMAIN providers' :
               p \in R!Providers /\ providers'[p] \in [type : R!Types, created : Nat],
           DOMAIN services' \subseteq R!Services, \A s \in DOMAIN services' : services'[s] \in Nat,
           defaults' \in [R!Kinds -> R!Services \cup {R!None}]
    PROVE  SettingsInv'
<1>1. commits' \in 0 .. MaxCommits
  <2>1. MaxCommits \in Nat  BY BoundsAssumption
  <2>2. commits \in 0 .. MaxCommits /\ commits < MaxCommits /\ commits' = commits + 1
    BY DEF R!Commit, SettingsInv, R!TypeOK
  <2>. QED  BY <2>1, <2>2
<1>2. call'.step = call.step  BY DEF R!Commit, CallInv
<1>. QED  BY <1>1, <1>2 DEF SettingsInv, OrderInv, R!TypeOK

LEMMA AppendedHolds ==
    ASSUME SettingsInv, NEW s \in R!Services
    PROVE  R!Appended(s) \in Seq(R!Services) /\ IsInjective(R!Appended(s))
<1>1. CASE s \in R!Range(order)  BY <1>1 DEF R!Appended, SettingsInv, OrderInv
<1>2. CASE s \notin R!Range(order)
  <2>1. \A i \in DOMAIN order : order[i] # s  BY <1>2 DEF R!Range
  <2>2. order \in Seq(R!Services) /\ IsInjective(order)  BY DEF SettingsInv, OrderInv
  <2>3. /\ Append(order, s) \in Seq(R!Services) /\ Len(Append(order, s)) = Len(order) + 1
        /\ \A i \in 1 .. Len(order) : Append(order, s)[i] = order[i]
        /\ Append(order, s)[Len(order) + 1] = s
    BY <2>2, AppendProperties
  <2>4. Len(order) \in Nat /\ DOMAIN order = 1 .. Len(order)
        /\ DOMAIN Append(order, s) = 1 .. Len(order) + 1
    BY <2>2, <2>3, LenProperties
  <2>5. IsInjective(Append(order, s))
    <3>. SUFFICES ASSUME NEW i \in 1 .. Len(order) + 1, NEW j \in 1 .. Len(order) + 1,
                         Append(order, s)[i] = Append(order, s)[j], i # j PROVE FALSE
      BY <2>4 DEF IsInjective
    <3>1. CASE i \in DOMAIN order /\ j \in DOMAIN order
      <4>1. order[i] = order[j]  BY <2>3, <2>4, <3>1
      <4>. QED  BY <2>2, <3>1, <4>1 DEF IsInjective
    <3>2. CASE i = Len(order) + 1
      <4>1. j \in DOMAIN order  BY <2>4, <3>2
      <4>2. order[j] = s  BY <2>3, <2>4, <3>2, <4>1
      <4>. QED  BY <2>1, <4>1, <4>2
    <3>3. CASE j = Len(order) + 1
      <4>1. i \in DOMAIN order  BY <2>4, <3>3
      <4>2. order[i] = s  BY <2>3, <2>4, <3>3, <4>1
      <4>. QED  BY <2>1, <4>1, <4>2
    <3>4. \A n \in 1 .. Len(order) + 1 : n \in DOMAIN order \/ n = Len(order) + 1  BY <2>4
    <3>. QED  BY <3>1, <3>2, <3>3, <3>4
  <2>. QED  BY <1>2, <2>3, <2>5 DEF R!Appended
<1>. QED  BY <1>1, <1>2

\* To be kept, an order may lose places; a window's has every listed service once.
LEMMA RetainedTypes ==
    ASSUME SettingsInv, NEW X
    PROVE  R!Retained(X) \in Seq(R!Services) /\ IsInjective(R!Retained(X))
<1>1. R!Retained(X) \in Seq(R!Services \cap X) /\ IsInjective(R!Retained(X))
  BY RetainedHolds DEF SettingsInv, OrderInv
<1>2. R!Services \cap X \subseteq R!Services  OBVIOUS
<1>. QED  BY <1>1, <1>2, SeqMonotonic

LEMMA RegistrySaves ==
    ASSUME SettingsInv, ServicesInv,
           \/ \E p \in R!Providers, t \in R!Types, n \in 1 .. MaxTime : R!SaveProvider(p, t, n)
           \/ \E n \in 1 .. MaxTime : R!SaveService(n)
    PROVE  SettingsInv'
<1>0. CallInv /\ StoredInv /\ R!None \notin R!Services  BY NoneIsNoService DEF ServicesInv
<1>1. ASSUME NEW p \in R!Providers, NEW t \in R!Types, NEW n \in 1 .. MaxTime, R!SaveProvider(p, t, n)
      PROVE  SettingsInv'
  <2>1. R!Commit /\ UNCHANGED <<services, defaults>>  BY <1>1 DEF R!SaveProvider
  <2>2. R!Implicit(p, "translation") \in R!Services
    BY DEF R!Implicit, R!Services, R!Kinds
  <2>3. order' \in Seq(R!Services) /\ IsInjective(order')
    <3>1. order' = order \/ order' = R!Appended(R!Implicit(p, "translation"))
      BY <1>1 DEF R!SaveProvider
    <3>. QED  BY <2>2, <3>1, AppendedHolds DEF SettingsInv, OrderInv
  <2>4. \A q \in DOMAIN providers' :
            q \in R!Providers /\ providers'[q] \in [type : R!Types, created : Nat]
    <3>1. CASE p \in DOMAIN providers
      <4>1. providers' = [providers EXCEPT ![p].type = t]  BY <1>1, <3>1 DEF R!SaveProvider
      <4>3. DOMAIN providers' = DOMAIN providers
            /\ \A q \in DOMAIN providers : q # p => providers'[q] = providers[q]
        BY <4>1
      <4>4. providers'[p] \in [type : R!Types, created : Nat]
        BY <3>1, <4>1 DEF SettingsInv, OrderInv
      <4>. QED  BY <3>1, <4>3, <4>4 DEF SettingsInv, OrderInv
    <3>2. CASE p \notin DOMAIN providers
      <4>1. providers' = R!With(providers, p, [type |-> t, created |-> n])
        BY <1>1, <3>2 DEF R!SaveProvider
      <4>. QED  BY <3>2, <4>1 DEF R!With, SettingsInv, OrderInv
    <3>. QED  BY <3>1, <3>2
  <2>. QED  BY <1>0, <2>1, <2>3, <2>4, CommitTypes DEF SettingsInv, OrderInv, R!TypeOK
<1>2. ASSUME NEW n \in 1 .. MaxTime, R!SaveService(n) PROVE SettingsInv'
  <2>1. CASE checked.provider \notin DOMAIN providers
    <3>1. UNCHANGED <<providers, services, order, defaults, call, commits>>
      BY <1>2, <2>1 DEF R!SaveService, R!registry
    <3>. QED  BY <3>1 DEF SettingsInv, OrderInv, R!TypeOK
  <2>2. CASE checked.provider \in DOMAIN providers
    <3>1. R!Commit /\ UNCHANGED <<providers, defaults>>  BY <1>2, <2>2 DEF R!SaveService
    <3>2. checked \in R!Services  BY <1>0, <1>2 DEF R!SaveService, StoredInv
    <3>3. order' \in Seq(R!Services) /\ IsInjective(order')
      <4>1. order' = order \/ order' = R!Appended(checked)  BY <1>2, <2>2 DEF R!SaveService
      <4>. QED  BY <3>2, <4>1, AppendedHolds DEF SettingsInv, OrderInv
    <3>4. PICK v : /\ services' = R!With(services, checked, v)
                   /\ v = n \/ (checked \in DOMAIN services /\ v = services[checked])
      BY <1>2, <2>2 DEF R!SaveService
    <3>5. DOMAIN services' \subseteq R!Services /\ \A s \in DOMAIN services' : services'[s] \in Nat
      <4>1. v \in Nat  BY <3>4 DEF SettingsInv, OrderInv
      <4>2. DOMAIN services' = DOMAIN services \cup {checked}
            /\ \A s \in DOMAIN services' : services'[s] = IF s = checked THEN v ELSE services[s]
        BY <3>4 DEF R!With
      <4>. QED  BY <3>2, <4>1, <4>2 DEF SettingsInv, OrderInv, R!TypeOK
    <3>. QED  BY <1>0, <3>1, <3>3, <3>5, CommitTypes DEF SettingsInv, OrderInv, R!TypeOK
  <2>. QED  BY <2>1, <2>2
<1>. QED  BY <1>1, <1>2

LEMMA RegistryDeletes ==
    ASSUME SettingsInv, ServicesInv, \/ \E p \in R!Providers : R!DeleteProvider(p)
                                     \/ \E s \in R!Services : R!DeleteService(s)
    PROVE  SettingsInv'
<1>1. PICK X, gone, some :
          /\ R!Commit
          /\ providers' = providers \/ providers' = R!Without(providers, some)
          /\ services' = R!Without(services, gone) /\ order' = R!Retained(X)
          /\ defaults' = R!Cleared(gone)
  BY DEF R!DeleteProvider, R!DeleteService
<1>2. order' \in Seq(R!Services) /\ IsInjective(order')  BY <1>1, RetainedTypes
<1>3. \A p \in DOMAIN providers' :
          p \in R!Providers /\ providers'[p] \in [type : R!Types, created : Nat]
  BY <1>1 DEF R!Without, SettingsInv, OrderInv
<1>4. DOMAIN services' \subseteq R!Services /\ \A s \in DOMAIN services' : services'[s] \in Nat
  BY <1>1 DEF R!Without, SettingsInv, OrderInv, R!TypeOK
<1>5. defaults' \in [R!Kinds -> R!Services \cup {R!None}]
  BY <1>1 DEF R!Cleared, SettingsInv, R!TypeOK
<1>. QED  BY <1>1, <1>2, <1>3, <1>4, <1>5, CommitTypes DEF ServicesInv

\* A window moves one service before another.
LEMMA RegistryChoices ==
    ASSUME SettingsInv, ServicesInv,
           \/ \E s \in R!Services : R!SetDefault(s)
           \/ \E i \in DOMAIN R!Effective : R!SetOrder(i)
    PROVE  SettingsInv'
<1>0. CallInv  BY DEF ServicesInv
<1>1. ASSUME NEW s \in R!Services, R!SetDefault(s) PROVE SettingsInv'
  <2>1. R!Commit /\ UNCHANGED <<services, providers, order>>
        /\ defaults' = [defaults EXCEPT ![s.kind] = s]
    BY <1>1 DEF R!SetDefault
  <2>2. defaults' \in [R!Kinds -> R!Services \cup {R!None}]
    BY <2>1 DEF SettingsInv, R!TypeOK
  <2>. QED  BY <1>0, <2>1, <2>2, CommitTypes DEF SettingsInv, OrderInv, R!TypeOK
<1>2. ASSUME NEW i \in DOMAIN R!Effective, R!SetOrder(i) PROVE SettingsInv'
  <2> DEFINE v == R!Effective
  <2>1. R!Commit /\ UNCHANGED <<services, providers, defaults>> /\ i + 1 \in DOMAIN v
        /\ order' = [v EXCEPT ![i] = v[i + 1], ![i + 1] = v[i]]
    BY <1>2 DEF R!SetOrder
  <2>2. v \in Seq(R!Services) /\ IsInjective(v)
    BY EffectiveHolds, SameFunctions DEF SettingsInv, R!OnePlace
  <2>. HIDE DEF v
  <2>3. DOMAIN v = 1 .. Len(v) /\ Len(v) \in Nat /\ i \in 1 .. Len(v) /\ i + 1 \in 1 .. Len(v)
    BY <1>2, <2>1, <2>2 DEF v
  <2>4. order' \in Seq(R!Services) /\ DOMAIN order' = DOMAIN v
    <3>1. v[i] \in R!Services /\ v[i + 1] \in R!Services  BY <2>2, <2>3
    <3>. QED  BY <2>1, <2>2, <2>3, <3>1
  <2>5. \A j \in DOMAIN v : order'[j] = IF j = i + 1 THEN v[i] ELSE IF j = i THEN v[i + 1] ELSE v[j]
    BY <2>1, <2>3
  <2>6. IsInjective(order')  BY <2>2, <2>3, <2>4, <2>5 DEF IsInjective
  <2>. QED  BY <1>0, <2>1, <2>4, <2>6, CommitTypes DEF SettingsInv, OrderInv, R!TypeOK
<1>. QED  BY <1>1, <1>2

LEMMA RegistryCalls ==
    ASSUME SettingsInv, ServicesInv,
           \/ \E s \in R!Services : R!CheckService(s)
           \/ \E s \in R!Services, k \in R!Kinds \cup {"llm"} : R!Ask(s, k)
           \/ \E has \in BOOLEAN : R!Require(has)
           \/ R!AskAgain \/ R!NextCall \/ UNCHANGED R!vars
    PROVE  SettingsInv'
<1>1. UNCHANGED <<providers, services, order, defaults, commits>>
  BY DEF R!CheckService, R!Ask, R!Require, R!AskAgain, R!NextCall, R!vars, R!registry
<1> DEFINE steps == {"idle", "again", "resolved", "answered", "refused", "no model"}
<1>2. ASSUME NEW w \in steps, call' = [call EXCEPT !.step = w] \/ call' = R!Over(w, call.calm)
      PROVE  call'.step \in steps
  <2>1. CASE call' = [call EXCEPT !.step = w]  BY <2>1 DEF ServicesInv, CallInv
  <2>2. CASE call' = R!Over(w, call.calm)  BY <2>2, OverCall
  <2>. QED  BY <1>2, <2>1, <2>2
<1>3. ASSUME NEW s \in R!Services, NEW k \in R!Kinds \cup {"llm"}, R!Ask(s, k)
      PROVE  call'.step \in steps
  BY <1>3 DEF R!Ask, R!Over, R!Idle
<1>4. ASSUME R!AskAgain PROVE call'.step \in steps
  <2>1. \E w \in {"resolved", "refused"} :
            call' = [call EXCEPT !.step = w] \/ call' = R!Over(w, call.calm)
    BY <1>4 DEF R!AskAgain
  <2>. QED  BY <1>2, <2>1
<1>5. ASSUME NEW has \in BOOLEAN, R!Require(has) PROVE call'.step \in steps
  <2>1. \E w \in {"refused", "answered", "no model"} : call' = R!Over(w, call.calm)
    BY <1>5 DEF R!Require
  <2>. QED  BY <1>2, <2>1
<1>6. ASSUME (\E s \in R!Services : R!CheckService(s)) \/ R!NextCall \/ UNCHANGED R!vars
      PROVE  call'.step \in steps
  <2>1. call' = call \/ call' = R!Idle  BY <1>6 DEF R!CheckService, R!NextCall, R!vars
  <2>2. call.step \in steps  BY DEF SettingsInv, R!TypeOK
  <2>3. R!Idle.step = "idle"  BY DEF R!Idle
  <2>. QED  BY <2>1, <2>2, <2>3
<1>7. call'.step \in steps  BY <1>3, <1>4, <1>5, <1>6
<1>. QED  BY <1>1, <1>7 DEF SettingsInv, OrderInv, R!TypeOK

LEMMA RegistryStepKeeps == ASSUME SettingsInv, ServicesInv, [R!Next]_R!vars PROVE SettingsInv'
BY RegistrySaves, RegistryDeletes, RegistryChoices, RegistryCalls DEF R!Next

\* The registry is well typed, and every listed translation has one place in the
\* order, however the providers, services and defaults come and go.
THEOREM PlacesInductive == Spec => []SettingsInv
<1>1. Init => SettingsInv  BY SettingsInitHold DEF Init
<1>2. SettingsInv /\ ServicesInv /\ [Next]_all => SettingsInv'  BY RegistryStepKeeps, RegistrySteps
<1>. QED  BY <1>1, <1>2, ServicesInductive, PTL DEF Spec

\* So every listed translation has one place.
LEMMA PlacesHold == SettingsInv => R!OnePlace
BY EffectiveHolds DEF SettingsInv

-----------------------------------------------------------------------------
(* The dictionary                                                          *)

\* A list of parts of s, each before the next.
Listed(f, s) ==
    /\ DOMAIN f \subseteq Nat
    /\ \A c \in DOMAIN f : f[c] \subseteq s
    /\ \A c, d \in DOMAIN f : c < d => \A i \in f[c], j \in f[d] : i < j

\* One of the list's parts has it.
Covers(f, i) == \E c \in DOMAIN f : i \in f[c]

\* Of the marks before a position one is the last.
LEMMA LastBefore ==
    ASSUME NEW K, K \subseteq Nat, NEW i \in Nat, 0 < i
    PROVE  \E k \in {0} \cup K : k < i /\ \A j \in K : j < i => j <= k
<1> DEFINE X == {m \in Nat : \A j \in K : j < i => j <= m}
<1>1. i - 1 \in X
  <2>1. i - 1 \in Nat  OBVIOUS
  <2>2. \A j \in K : j < i => j <= i - 1  OBVIOUS
  <2>. QED  BY <2>1, <2>2
<1>2. PICK m \in X : \A y \in X : <<y, m>> \notin OpToRel(<, Nat)
  <2>1. IsWellFoundedOn(OpToRel(<, Nat), Nat)  BY NatLessThanWellFounded
  <2>2. X \subseteq Nat /\ X # {}  BY <1>1
  <2>. HIDE DEF X
  <2>. QED  BY <2>1, <2>2, WFMin
<1>3. \A y \in X : m <= y
  <2>1. ASSUME NEW y \in X, y < m PROVE FALSE
    <3>1. <<y, m>> \in OpToRel(<, Nat)  BY <2>1 DEF OpToRel
    <3>. QED  BY <3>1, <1>2
  <2>. QED  BY <2>1
<1>4. m < i  BY <1>1, <1>3
<1>5. m \in {0} \cup K
  <2>1. SUFFICES ASSUME m \notin K, m # 0 PROVE FALSE  OBVIOUS
  <2>2. m - 1 \in Nat  BY <2>1
  <2>3. \A j \in K : j < i => j <= m - 1  BY <2>1
  <2>4. m - 1 \in X  BY <2>2, <2>3
  <2>. QED  BY <2>4, <1>3
<1>. QED  BY <1>4, <1>5

LEMMA Splitting ==
    ASSUME NEW t, NEW s, s \subseteq Nat \ {0}, NEW mark
    PROVE  LET f == D!SplitAt(t, s, mark)
               cuts == D!Of(t, s, mark)
           IN  /\ DOMAIN f = {0} \cup cuts
               /\ Listed(f, s \ cuts)
               /\ \A i \in s \ cuts : Covers(f, i)
               /\ \A c \in DOMAIN f : \A i \in f[c] :
                     c < i /\ \A k \in cuts : k < i => k <= c
<1> DEFINE cuts == D!Of(t, s, mark)
           f == D!SplitAt(t, s, mark)
           Piece(c) == {i \in s \ cuts : c < i /\ \A k \in cuts : k < i => k <= c}
<1>1. cuts \subseteq s  BY DEF D!Of
<1>2. f = [c \in {0} \cup cuts |-> Piece(c)]  BY DEF D!SplitAt
<1>. HIDE DEF f, cuts
<1>3. DOMAIN f = {0} \cup cuts  BY <1>2
<1>4. \A c \in DOMAIN f : f[c] = Piece(c)  BY <1>2
<1>5. \A c \in DOMAIN f : f[c] \subseteq s \ cuts  BY <1>4
<1>6. ASSUME NEW c \in DOMAIN f, NEW d \in DOMAIN f, c < d, NEW i \in f[c], NEW j \in f[d]
      PROVE  i < j
  <2>1. DOMAIN f \subseteq Nat  BY <1>3, <1>1
  <2>2. d \in cuts
    <3>1. c \in Nat /\ d \in {0} \cup cuts  BY <2>1, <1>3
    <3>. QED  BY <3>1, <1>6
  <2>3. i \in Nat /\ j \in Nat /\ c \in Nat /\ d \in Nat
    <3>1. s \subseteq Nat  OBVIOUS
    <3>2. i \in s /\ j \in s  BY <1>5
    <3>. QED  BY <2>1, <3>1, <3>2
  <2>4. d < j /\ ~(d < i) /\ i # d  BY <1>4, <2>2, <2>3, <1>6
  <2>. QED  BY <2>3, <2>4
<1>7. DOMAIN f \subseteq Nat  BY <1>3, <1>1
<1>8. Listed(f, s \ cuts)  BY <1>5, <1>6, <1>7 DEF Listed
<1>9. ASSUME NEW i \in s \ cuts PROVE Covers(f, i)
  <2>1. PICK k \in {0} \cup cuts : k < i /\ \A j \in cuts : j < i => j <= k
    <3>1. cuts \subseteq Nat /\ i \in Nat /\ 0 < i  BY <1>1
    <3>. QED  BY <3>1, LastBefore
  <2>2. i \in f[k]  BY <2>1, <1>3, <1>4
  <2>. QED  BY <2>2, <1>3 DEF Covers
<1>10. \A c \in DOMAIN f : \A i \in f[c] : c < i /\ \A k \in cuts : k < i => k <= c
  BY <1>4
<1>. QED  BY <1>3, <1>8, <1>9, <1>10 DEF f, cuts

LEMMA Restricted ==
    ASSUME NEW f, NEW s, Listed(f, s), NEW K, K \subseteq DOMAIN f
    PROVE  /\ Listed(D!Restrict(f, K), s)
           /\ DOMAIN D!Restrict(f, K) = K
           /\ \A c \in K : D!Restrict(f, K)[c] = f[c]
<1>1. DOMAIN D!Restrict(f, K) = K  BY DEF D!Restrict
<1>2. \A c \in K : D!Restrict(f, K)[c] = f[c]  BY DEF D!Restrict
<1>. QED  BY <1>1, <1>2 DEF Listed

\* A list without its empty parts.
LEMMA Filled ==
    ASSUME NEW f, NEW s, Listed(f, s)
    PROVE  /\ Listed(D!Nonempty(f), s)
           /\ DOMAIN D!Nonempty(f) \subseteq DOMAIN f
           /\ \A c \in DOMAIN D!Nonempty(f) : D!Nonempty(f)[c] = f[c] /\ f[c] # {}
           /\ \A i : Covers(f, i) => Covers(D!Nonempty(f), i)
<1> DEFINE K == {c \in DOMAIN f : f[c] # {}}
<1>1. D!Nonempty(f) = D!Restrict(f, K)  BY DEF D!Nonempty
<1>2. K \subseteq DOMAIN f  OBVIOUS
<1>3. \A c \in DOMAIN f : f[c] # {} => c \in K  OBVIOUS
<1>4. \A c \in K : f[c] # {}  OBVIOUS
<1>. HIDE DEF K
<1>5. /\ Listed(D!Restrict(f, K), s)
      /\ DOMAIN D!Restrict(f, K) = K
      /\ \A c \in K : D!Restrict(f, K)[c] = f[c]
  BY <1>2, Restricted
<1>. QED  BY <1>1, <1>2, <1>3, <1>4, <1>5 DEF Covers

\* What is split by a mark, blank parts between two marks among it.
LEMMA Sectioned ==
    ASSUME NEW t, NEW s, s \subseteq Nat \ {0}, NEW mark
    PROVE  LET f == D!Sections(t, s, mark)
               cuts == D!Of(t, s, mark)
           IN  /\ Listed(f, s \ cuts)
               /\ DOMAIN f \subseteq {0} \cup cuts
               /\ \A i \in s \ cuts : Covers(f, i)
               /\ \A c \in DOMAIN f : \A i \in f[c] :
                     c < i /\ \A k \in cuts : k < i => k <= c
<1> DEFINE g == D!SplitAt(t, s, mark)
           cuts == D!Of(t, s, mark)
           K == {c \in DOMAIN g : g[c] # {} \/ (c # 0 /\ \E d \in DOMAIN g : c < d)}
<1>1. D!Sections(t, s, mark) = D!Restrict(g, K)  BY DEF D!Sections
<1>2. K \subseteq DOMAIN g  OBVIOUS
<1>3. \A c \in DOMAIN g : g[c] # {} => c \in K  OBVIOUS
<1>. HIDE DEF K
<1>4. /\ DOMAIN g = {0} \cup cuts
      /\ Listed(g, s \ cuts)
      /\ \A i \in s \ cuts : Covers(g, i)
      /\ \A c \in DOMAIN g : \A i \in g[c] : c < i /\ \A k \in cuts : k < i => k <= c
  BY Splitting
<1>. HIDE DEF g, cuts
<1>5. /\ Listed(D!Restrict(g, K), s \ cuts)
      /\ DOMAIN D!Restrict(g, K) = K
      /\ \A c \in K : D!Restrict(g, K)[c] = g[c]
  BY <1>2, <1>4, Restricted
<1>6. \A i \in s \ cuts : Covers(D!Restrict(g, K), i)  BY <1>3, <1>4, <1>5 DEF Covers
<1>. QED  BY <1>1, <1>2, <1>4, <1>5, <1>6 DEF cuts
Precede(t, p, q) == \A i \in p, j \in q : t[i] = "word" /\ t[j] = "word" => i < j

\* A definition read from the part s of t, in the order of the text.
Read(t, s, d) ==
    /\ D!Said(d) \subseteq s
    /\ DOMAIN d.values \subseteq Nat
    /\ \A k \in DOMAIN d.values : Precede(t, d.name, d.values[k])
    /\ \A k, l \in DOMAIN d.values : k < l => Precede(t, d.values[k], d.values[l])

\* What is to be kept of a part.
Spoken(t, s) == {i \in s : t[i] \in {"word", "ipa", "label"}}

LEMMA ListRead ==
    ASSUME NEW t, NEW s, NEW f, Listed(f, s)
    PROVE  /\ Read(t, s, D!Definition({}, f))
           /\ \A i : Covers(f, i) => i \in D!Said(D!Definition({}, f))
<1> DEFINE d == D!Definition({}, f)
<1>1. d.name = {} /\ d.values = f  BY DEF D!Definition
<1>. HIDE DEF d
<1>2. D!Said(d) \subseteq s  BY <1>1 DEF D!Said, Listed
<1>3. \A i : Covers(f, i) => i \in D!Said(d)  BY <1>1 DEF D!Said, Covers
<1>4. \A k \in DOMAIN d.values : Precede(t, d.name, d.values[k])  BY <1>1 DEF Precede
<1>5. \A k, l \in DOMAIN d.values : k < l => Precede(t, d.values[k], d.values[l])
  BY <1>1 DEF Precede, Listed
<1>6. DOMAIN d.values \subseteq Nat  BY <1>1 DEF Listed
<1>. QED  BY <1>2, <1>3, <1>4, <1>5, <1>6 DEF Read, d

LEMMA One ==
    ASSUME NEW p, NEW s, p \subseteq s
    PROVE  /\ Listed(D!Only(p), s) /\ DOMAIN D!Only(p) = {0} /\ D!Only(p)[0] = p
           /\ \A i \in p : Covers(D!Only(p), i)
<1>1. DOMAIN D!Only(p) = {0} /\ D!Only(p)[0] = p  BY DEF D!Only
<1>2. Listed(D!Only(p), s)  BY <1>1 DEF Listed
<1>. QED  BY <1>1, <1>2 DEF Covers

LEMMA NumberStripped ==
    ASSUME NEW t, NEW s, s \subseteq Nat, NEW f, Listed(f, s)
    PROVE  /\ Listed(D!Stripped(t, f), s)
           /\ \A i \in Spoken(t, s) : Covers(f, i) => Covers(D!Stripped(t, f), i)
<1> DEFINE g == D!Stripped(t, f)
<1>1. DOMAIN g = DOMAIN f /\ \A c \in DOMAIN f : g[c] = D!strip_leading_number(t, f[c])
  BY DEF D!Stripped
<1>2. ASSUME NEW p, p \subseteq Nat
      PROVE  /\ D!strip_leading_number(t, p) \subseteq p
             /\ \A i \in p : t[i] # "num" => i \in D!strip_leading_number(t, p)
  <2>1. \A i, j \in D!First(p) : i = j
    <3>1. \A i, j \in D!First(p) : i \in Nat /\ j \in Nat /\ i <= j /\ j <= i
      BY <1>2 DEF D!First
    <3>. QED  BY <3>1
  <2>2. CASE p \ D!First(p) # {} /\ \E i \in D!First(p) : t[i] = "num"
    <3>1. D!strip_leading_number(t, p) = p \ D!First(p)  BY <2>2 DEF D!strip_leading_number
    <3>. QED  BY <3>1, <2>2, <2>1
  <2>3. CASE ~(p \ D!First(p) # {} /\ \E i \in D!First(p) : t[i] = "num")
    <3>1. D!strip_leading_number(t, p) = p  BY <2>3 DEF D!strip_leading_number
    <3>. QED  BY <3>1
  <2>. QED  BY <2>2, <2>3
<1>. HIDE DEF g
<1>3. \A c \in DOMAIN f : f[c] \subseteq Nat /\ f[c] \subseteq s  BY DEF Listed
<1>4. Listed(g, s)  BY <1>1, <1>2, <1>3 DEF Listed
<1>5. ASSUME NEW i \in Spoken(t, s), Covers(f, i) PROVE Covers(g, i)
  BY <1>1, <1>2, <1>3, <1>5 DEF Covers, Spoken
<1>. QED  BY <1>4, <1>5 DEF g

\* What stands before the numbered lines is on a line before a number.
LEMMA NumbersSplit ==
    ASSUME NEW t, NEW s, s \subseteq Nat \ {0}
    PROVE  LET p == D!split_pos_and_defs(t, s)
           IN  /\ Listed(p.lines, s) /\ p.pos \subseteq s
               /\ \A k \in DOMAIN p.lines : \A i \in p.pos, j \in p.lines[k] : i < j
               /\ \A i \in Spoken(t, s) : Covers(p.lines, i) \/ i \in p.pos
               /\ \A i \in p.pos : \E j \in D!Of(t, s, "nl"), k \in D!Of(t, s, "num") :
                     i < j /\ j < k
<1> DEFINE g == D!SplitAt(t, s, "nl")
           f == D!Nonempty(g)
           numbered == {c \in DOMAIN f : \E i \in D!First(f[c]) : t[i] = "num"}
           before == {c \in DOMAIN f : \A n \in numbered : c < n}
           p == D!split_pos_and_defs(t, s)
           ends == D!Of(t, s, "nl")
<1>1. ends \subseteq s /\ \A i \in Spoken(t, s) : i \in s \ ends  BY DEF D!Of, Spoken
<1>2. /\ DOMAIN g = {0} \cup ends
      /\ Listed(g, s \ ends)
      /\ \A i \in s \ ends : Covers(g, i)
      /\ \A c \in DOMAIN g : \A i \in g[c] : c < i /\ \A k \in ends : k < i => k <= c
  BY Splitting
<1>3. p = IF numbered = {}
          THEN [pos |-> {}, lines |-> D!Only(D!Words(t, s))]
          ELSE [pos |-> UNION {f[c] : c \in before},
                lines |-> D!Restrict(f, DOMAIN f \ before)]
  BY DEF D!split_pos_and_defs
<1>4. numbered \subseteq DOMAIN f /\ \A c \in numbered : \E i \in D!First(f[c]) : t[i] = "num"
  OBVIOUS
<1>5. before \subseteq DOMAIN f /\ \A c \in before, n \in numbered : c < n  OBVIOUS
<1>6. \A c \in DOMAIN f \ before : \E n \in numbered : ~(c < n)  OBVIOUS
<1>. HIDE DEF g, numbered, before, p
<1>7. /\ Listed(f, s \ ends)
      /\ DOMAIN f \subseteq DOMAIN g
      /\ \A c \in DOMAIN f : f[c] = g[c] /\ f[c] # {}
      /\ \A i : Covers(g, i) => Covers(f, i)
  BY <1>2, Filled
<1>. HIDE DEF f, ends
<1>8. CASE numbered = {}
  <2>1. p.pos = {} /\ p.lines = D!Only(D!Words(t, s))  BY <1>3, <1>8
  <2>2. D!Words(t, s) = s \ ends  BY DEF D!Words, ends
  <2>3. /\ Listed(D!Only(s \ ends), s)
        /\ \A i \in s \ ends : Covers(D!Only(s \ ends), i)
    BY One
  <2>. QED  BY <2>1, <2>2, <2>3, <1>1 DEF p
<1>9. CASE numbered # {}
  <2> DEFINE h == D!Restrict(f, DOMAIN f \ before)
  <2>1. p.pos = UNION {f[c] : c \in before} /\ p.lines = h  BY <1>3, <1>9
  <2>2. /\ Listed(h, s \ ends)
        /\ DOMAIN h = DOMAIN f \ before
        /\ \A c \in DOMAIN f \ before : h[c] = f[c]
    BY <1>7, Restricted
  <2>. HIDE DEF h
  <2>3. Listed(h, s)  BY <2>2 DEF Listed
  <2>4. p.pos \subseteq s  BY <2>1, <1>5, <1>7 DEF Listed
  <2>5. ASSUME NEW k \in DOMAIN h, NEW i \in p.pos, NEW j \in h[k] PROVE i < j
    <3>1. PICK c \in before : i \in f[c]  BY <2>1
    <3>2. PICK n \in numbered : ~(k < n)  BY <2>2, <1>6
    <3>3. c < n  BY <1>5
    <3>4. c \in Nat /\ n \in Nat /\ k \in Nat
      <4>1. DOMAIN f \subseteq Nat  BY <1>7 DEF Listed
      <4>. QED  BY <4>1, <1>4, <1>5, <2>2
    <3>5. c < k  BY <3>2, <3>3, <3>4
    <3>6. c \in DOMAIN f /\ k \in DOMAIN f /\ j \in f[k]  BY <1>5, <2>2
    <3>. QED  BY <3>1, <3>5, <3>6, <1>7 DEF Listed
  <2>6. ASSUME NEW i \in Spoken(t, s), i \notin p.pos PROVE Covers(h, i)
    <3>1. PICK c \in DOMAIN f : i \in f[c]  BY <1>1, <1>2, <1>7 DEF Covers
    <3>2. c \notin before  BY <3>1, <2>1, <2>6
    <3>. QED  BY <3>1, <3>2, <2>2 DEF Covers
  <2>7. ASSUME NEW i \in p.pos
        PROVE  \E j \in ends, k \in D!Of(t, s, "num") : i < j /\ j < k
    <3>1. PICK c \in before : i \in f[c]  BY <2>1
    <3>2. PICK n \in numbered : TRUE  BY <1>9
    <3>3. PICK k \in D!First(f[n]) : t[k] = "num"  BY <1>4
    <3>4. c < n /\ c \in DOMAIN f /\ n \in DOMAIN f  BY <1>4, <1>5
    <3>5. k \in f[n]  BY <3>3 DEF D!First
    <3>6. k \in D!Of(t, s, "num")  BY <3>3, <3>4, <3>5, <1>7 DEF Listed, D!Of
    <3>7. c \in Nat /\ n \in {0} \cup ends  BY <3>4, <1>7, <1>2 DEF Listed
    <3>8. n \in ends /\ n \in Nat
      <4>1. n # 0  BY <3>4, <3>7
      <4>. QED  BY <4>1, <3>7, <3>4, <1>7 DEF Listed
    <3>9. n < k  BY <3>4, <3>5, <1>7, <1>2
    <3>10. i < n
      <4>1. ~(n < i)
        <5>1. n < i => n <= c  BY <3>1, <3>4, <3>8, <1>7, <1>2
        <5>. QED  BY <5>1, <3>4, <3>7, <3>8
      <4>2. i \in s \ ends  BY <3>1, <3>4, <1>7 DEF Listed
      <4>3. i \in Nat /\ i # n  BY <4>2, <3>8
      <4>. QED  BY <4>1, <4>3, <3>8
    <3>. QED  BY <3>6, <3>8, <3>9, <3>10
  <2>. QED  BY <2>1, <2>3, <2>4, <2>5, <2>6, <2>7 DEF p, ends
<1>. QED  BY <1>8, <1>9

LEMMA Made ==
    ASSUME NEW t, NEW s, s \subseteq Nat \ {0}
    PROVE  /\ Read(t, s, D!make_def(t, s))
           /\ Spoken(t, s) \subseteq D!Said(D!make_def(t, s))
<1> DEFINE p == D!split_pos_and_defs(t, s)
           g == D!Stripped(t, p.lines)
           d == D!make_def(t, s)
<1>1. d = D!Definition(p.pos, D!Nonempty(g))  BY DEF D!make_def
<1>2. d.name = p.pos /\ d.values = D!Nonempty(g)  BY <1>1 DEF D!Definition
<1>3. /\ Listed(p.lines, s) /\ p.pos \subseteq s
      /\ \A k \in DOMAIN p.lines : \A i \in p.pos, j \in p.lines[k] : i < j
      /\ \A i \in Spoken(t, s) : Covers(p.lines, i) \/ i \in p.pos
  BY NumbersSplit
<1>. HIDE DEF p, d
<1>4. /\ Listed(g, s) /\ \A i \in Spoken(t, s) : Covers(p.lines, i) => Covers(g, i)
      /\ DOMAIN g = DOMAIN p.lines /\ \A c \in DOMAIN g : g[c] \subseteq p.lines[c]
  <2>1. DOMAIN g = DOMAIN p.lines
        /\ \A c \in DOMAIN g : g[c] = D!strip_leading_number(t, p.lines[c])
    BY DEF D!Stripped
  <2>2. \A q : D!strip_leading_number(t, q) \subseteq q  BY DEF D!strip_leading_number
  <2>3. s \subseteq Nat  OBVIOUS
  <2>. QED  BY <2>1, <2>2, <2>3, <1>3, NumberStripped
<1>. HIDE DEF g
<1>5. /\ Listed(D!Nonempty(g), s)
      /\ DOMAIN D!Nonempty(g) \subseteq DOMAIN g
      /\ \A c \in DOMAIN D!Nonempty(g) : D!Nonempty(g)[c] = g[c] /\ g[c] # {}
      /\ \A i : Covers(g, i) => Covers(D!Nonempty(g), i)
  BY <1>4, Filled
<1>6. Spoken(t, s) \subseteq D!Said(d)
  BY <1>2, <1>3, <1>4, <1>5 DEF D!Said, Covers
<1>7. D!Said(d) \subseteq s  BY <1>2, <1>3, <1>5 DEF D!Said, Listed
<1>8. \A k \in DOMAIN d.values : Precede(t, d.name, d.values[k])
  BY <1>2, <1>3, <1>4, <1>5 DEF Precede
<1>9. /\ DOMAIN d.values \subseteq Nat
      /\ \A k, l \in DOMAIN d.values : k < l => Precede(t, d.values[k], d.values[l])
  BY <1>2, <1>5 DEF Precede, Listed
<1>. QED  BY <1>6, <1>7, <1>8, <1>9 DEF Read, d

\* What a section on one line loses stands, with a note on word forms, before a
\* circled number.
LEMMA InlineRead ==
    ASSUME NEW t, NEW s, s \subseteq Nat \ {0}
    PROVE  LET d == D!parse_inline_definition_section(t, s)
           IN  /\ Read(t, s, d)
               /\ \A i \in Spoken(t, s) \ D!Said(d) :
                     \E j \in D!Of(t, s, "form"), k \in D!Of(t, s, "circ") : i < k /\ j < k
<1> DEFINE line == D!Words(t, s)
           parts == D!SplitAt(t, line, "circ")
           head == parts[0]
           tail == line \ head
           cuts == D!Of(t, line, "circ")
           pieces == D!split_by_circled(t, tail)
           circled == IF head = line THEN <<>> ELSE D!Nonempty(pieces)
           name == D!Of(t, D!First(head), "pos")
           rest == head \ name
           values == IF rest = {} \/ D!Of(t, rest, "form") # {} THEN circled
                     ELSE [c \in {0} \cup DOMAIN circled |-> IF c = 0 THEN rest ELSE circled[c]]
           single == IF rest = {} THEN head ELSE rest
           d == D!parse_inline_definition_section(t, s)
<1>1. d = D!Definition(name,
              IF DOMAIN circled = {} THEN D!Nonempty(D!Only(single)) ELSE values)
  BY DEF D!parse_inline_definition_section
<1>2. d.name = name /\ d.values = IF DOMAIN circled = {} THEN D!Nonempty(D!Only(single)) ELSE values
  BY <1>1 DEF D!Definition
<1>3. /\ line \subseteq s /\ line \subseteq Nat \ {0} /\ \A i \in Spoken(t, s) : i \in line
      /\ cuts \subseteq line
      /\ cuts \subseteq D!Of(t, s, "circ")
  BY DEF D!Words, D!Of, Spoken
<1>4. /\ DOMAIN parts = {0} \cup cuts
      /\ Listed(parts, line \ cuts)
      /\ \A i \in line \ cuts : Covers(parts, i)
      /\ \A c \in DOMAIN parts : \A i \in parts[c] : c < i /\ \A k \in cuts : k < i => k <= c
  BY <1>3, Splitting
<1>5. head \subseteq line \ cuts  BY <1>4 DEF Listed
<1>6. name \subseteq head /\ \A i \in name : t[i] = "pos"  BY DEF D!Of, D!First
<1>7. \A i \in Spoken(t, s) : i \notin name /\ i \notin cuts  BY <1>6 DEF Spoken, D!Of
<1>8. \A i \in head, k \in cuts : i < k
  <2>1. SUFFICES ASSUME NEW i \in head, NEW k \in cuts PROVE i < k  OBVIOUS
  <2>2. k \in Nat /\ i \in Nat /\ k # 0 /\ i # k  BY <1>3, <1>5
  <2>3. k < i => k <= 0  BY <1>4
  <2>. QED  BY <2>2, <2>3
<1>9. head # line => cuts # {}
  <2>1. SUFFICES ASSUME cuts = {}, NEW x \in line \ head PROVE FALSE
    BY <1>5
  <2>2. PICK c \in DOMAIN parts : x \in parts[c]  BY <2>1, <1>4 DEF Covers
  <2>3. c = 0  BY <2>1, <1>4
  <2>. QED  BY <2>1, <2>2, <2>3
<1>10. D!Of(t, tail, "circ") = cuts
  <2>1. D!Of(t, tail, "circ") = cuts \ head  BY DEF D!Of
  <2>2. cuts \cap head = {}  BY <1>5
  <2>. QED  BY <2>1, <2>2
<1>11. pieces = D!Sections(t, tail, "circ")  BY DEF D!split_by_circled
<1>12. /\ Listed(pieces, tail \ cuts)
       /\ DOMAIN pieces \subseteq {0} \cup cuts
       /\ \A i \in tail \ cuts : Covers(pieces, i)
       /\ \A c \in DOMAIN pieces : \A i \in pieces[c] : c < i /\ \A k \in cuts : k < i => k <= c
  <2>1. tail \subseteq Nat \ {0}  BY <1>3
  <2>. HIDE DEF tail, cuts, pieces
  <2>. QED  BY <2>1, <1>10, <1>11, Sectioned
<1>13. tail \subseteq line /\ tail \cap head = {} /\ \A i \in line : i \in head \/ i \in tail
  OBVIOUS
<1>14. (rest = {} => single = head) /\ (rest # {} => single = rest) /\ rest \subseteq head
       /\ \A i \in head : i \in rest \/ i \in name
  OBVIOUS
<1>. HIDE DEF line, parts, cuts, pieces, tail, d, name
<1>15. 0 \in DOMAIN pieces => pieces[0] = {}
  <2>1. SUFFICES ASSUME 0 \in DOMAIN pieces, NEW i \in pieces[0] PROVE FALSE  OBVIOUS
  <2>2. i \in tail \ cuts  BY <2>1, <1>12 DEF Listed
  <2>3. i \in line \ cuts /\ i \notin head  BY <2>2, <1>13
  <2>4. PICK c \in DOMAIN parts : i \in parts[c]  BY <2>3, <1>4 DEF Covers
  <2>5. c \in cuts  BY <2>3, <2>4, <1>4
  <2>6. c < i /\ c \in Nat /\ c # 0  BY <2>4, <2>5, <1>4, <1>3
  <2>7. c <= 0  BY <2>1, <2>5, <2>6, <1>12
  <2>. QED  BY <2>6, <2>7
<1>16. /\ Listed(circled, tail \ cuts)
       /\ DOMAIN circled \subseteq cuts
       /\ (head # line => \A i \in tail \ cuts : Covers(circled, i))
       /\ \A c \in DOMAIN circled : circled[c] # {} /\ \A i \in circled[c] : c < i
  <2>1. CASE head = line
    <3>1. circled = <<>>  BY <2>1
    <3>2. DOMAIN circled = {}  BY <3>1
    <3>. QED  BY <3>2, <2>1 DEF Listed
  <2>2. CASE head # line
    <3>1. circled = D!Nonempty(pieces)  BY <2>2
    <3>2. /\ Listed(D!Nonempty(pieces), tail \ cuts)
          /\ DOMAIN D!Nonempty(pieces) \subseteq DOMAIN pieces
          /\ \A c \in DOMAIN D!Nonempty(pieces) :
                D!Nonempty(pieces)[c] = pieces[c] /\ pieces[c] # {}
          /\ \A i : Covers(pieces, i) => Covers(D!Nonempty(pieces), i)
      BY <1>12, Filled
    <3>3. 0 \notin DOMAIN D!Nonempty(pieces)  BY <3>2, <1>15
    <3>. HIDE DEF circled
    <3>. QED  BY <3>1, <3>2, <3>3, <1>12
  <2>. QED  BY <2>1, <2>2
<1>17. \A i \in tail \ cuts : head # line  BY <1>13
<1>. HIDE DEF circled, head, rest, single
<1>18. d.name \subseteq s /\ head \subseteq s /\ \A c \in DOMAIN circled : circled[c] \subseteq s
  <2>1. name \subseteq s /\ head \subseteq s  BY <1>3, <1>5, <1>6
  <2>2. \A c \in DOMAIN circled : circled[c] \subseteq tail  BY <1>16 DEF Listed
  <2>. QED  BY <2>1, <2>2, <1>2, <1>3, <1>13
<1>19. CASE DOMAIN circled = {}
  <2> DEFINE f == D!Only(single)
             g == D!Nonempty(f)
  <2>1. d.values = g  BY <1>2, <1>19
  <2>2. single \subseteq s  BY <1>14, <1>18
  <2>3. Listed(f, s) /\ DOMAIN f = {0} /\ \A i \in single : Covers(f, i)
    BY <2>2, One
  <2>. HIDE DEF f
  <2>4. /\ Listed(g, s) /\ DOMAIN g \subseteq DOMAIN f
        /\ \A i : Covers(f, i) => Covers(g, i)
    BY <2>3, Filled
  <2>. HIDE DEF g
  <2>5. Read(t, s, d)
    <3>1. D!Said(d) \subseteq s  BY <2>1, <2>4, <1>18 DEF D!Said, Listed
    <3>2. \A k \in DOMAIN d.values : Precede(t, d.name, d.values[k])
      BY <1>2, <1>6 DEF Precede
    <3>3. DOMAIN d.values \subseteq Nat  BY <2>1, <2>4 DEF Listed
    <3>4. \A k, l \in DOMAIN d.values : k < l => Precede(t, d.values[k], d.values[l])
      BY <2>1, <2>4 DEF Listed, Precede
    <3>. QED  BY <3>1, <3>2, <3>3, <3>4 DEF Read
  <2>6. ASSUME NEW i \in Spoken(t, s) PROVE i \in D!Said(d)
    <3>1. i \in head
      <4>1. i \in line \ cuts  BY <1>3, <1>7
      <4>2. i \notin tail  BY <4>1, <1>16, <1>17, <1>19 DEF Covers
      <4>. QED  BY <4>1, <4>2, <1>13
    <3>2. i \in single  BY <3>1, <1>7, <1>14
    <3>3. Covers(g, i)  BY <3>2, <2>3, <2>4
    <3>. QED  BY <3>3, <2>1 DEF D!Said, Covers
  <2>. QED  BY <2>5, <2>6 DEF d
<1>20. CASE DOMAIN circled # {}
  <2>1. d.values = values  BY <1>2, <1>20
  <2>2. CASE rest = {} \/ D!Of(t, rest, "form") # {}
    <3>1. d.values = circled  BY <2>1, <2>2
    <3>2. Read(t, s, d)
      <4>1. D!Said(d) \subseteq s
        BY <3>1, <1>18 DEF D!Said
      <4>2. \A k \in DOMAIN d.values : Precede(t, d.name, d.values[k])
        BY <1>2, <1>6 DEF Precede
      <4>3. DOMAIN d.values \subseteq Nat  BY <3>1, <1>16 DEF Listed
      <4>4. \A k, l \in DOMAIN d.values : k < l => Precede(t, d.values[k], d.values[l])
        BY <3>1, <1>16 DEF Listed, Precede
      <4>. QED  BY <4>1, <4>2, <4>3, <4>4 DEF Read
    <3>3. ASSUME NEW i \in Spoken(t, s), i \notin D!Said(d)
          PROVE  \E j \in D!Of(t, s, "form"), k \in D!Of(t, s, "circ") : i < k /\ j < k
      <4>1. i \in line \ cuts  BY <1>3, <1>7
      <4>2. i \notin tail
        <5>1. ~Covers(circled, i)  BY <3>1, <3>3 DEF D!Said, Covers
        <5>. QED  BY <5>1, <4>1, <1>16, <1>17
      <4>3. i \in head /\ i \in rest  BY <4>1, <4>2, <1>7, <1>13, <1>14
      <4>4. PICK j \in D!Of(t, rest, "form") : TRUE  BY <4>3, <2>2
      <4>5. j \in head /\ j \in D!Of(t, s, "form")
        BY <1>14, <1>5, <1>3 DEF D!Of
      <4>6. PICK k \in cuts : TRUE  BY <1>20, <1>16
      <4>. QED  BY <4>3, <4>5, <4>6, <1>8, <1>3
    <3>. QED  BY <3>2, <3>3 DEF d
  <2>3. CASE ~(rest = {} \/ D!Of(t, rest, "form") # {})
    <3>1. d.values = [c \in {0} \cup DOMAIN circled |-> IF c = 0 THEN rest ELSE circled[c]]
      BY <2>1, <2>3
    <3>2. DOMAIN d.values = {0} \cup DOMAIN circled /\ d.values[0] = rest
      BY <3>1
    <3>3. 0 \notin DOMAIN circled  BY <1>16, <1>3
    <3>4. \A c \in DOMAIN circled : d.values[c] = circled[c]  BY <3>1, <3>3
    <3>5. Read(t, s, d)
      <4>1. D!Said(d) \subseteq s
        <5>1. \A c \in DOMAIN d.values : d.values[c] \subseteq s
          BY <3>2, <3>4, <1>14, <1>18
        <5>. QED  BY <5>1, <1>18 DEF D!Said
      <4>2. \A k \in DOMAIN d.values : Precede(t, d.name, d.values[k])
        BY <1>2, <1>6 DEF Precede
      <4>3. DOMAIN d.values \subseteq Nat  BY <3>2, <1>16 DEF Listed
      <4>4. ASSUME NEW k \in DOMAIN d.values, NEW l \in DOMAIN d.values, k < l
            PROVE  Precede(t, d.values[k], d.values[l])
        <5>1. l # 0  BY <4>3, <4>4
        <5>2. l \in DOMAIN circled /\ d.values[l] = circled[l]  BY <5>1, <3>2, <3>4
        <5>3. CASE k = 0
          <6>1. SUFFICES ASSUME NEW i \in rest, NEW j \in circled[l] PROVE i < j
            BY <5>2, <5>3, <3>2 DEF Precede
          <6>2. i < l /\ l < j  BY <6>1, <5>2, <1>8, <1>14, <1>16
          <6>3. i \in Nat /\ l \in Nat /\ j \in Nat
            <7>1. i \in line /\ l \in line  BY <6>1, <1>14, <1>5, <5>2, <1>16, <1>3
            <7>2. j \in line  BY <6>1, <5>2, <1>16, <1>13 DEF Listed
            <7>. QED  BY <7>1, <7>2, <1>3
          <6>. QED  BY <6>2, <6>3
        <5>4. CASE k # 0
          <6>1. k \in DOMAIN circled /\ d.values[k] = circled[k]  BY <5>4, <3>2, <3>4
          <6>. QED  BY <6>1, <5>2, <4>4, <1>16 DEF Listed, Precede
        <5>. QED  BY <5>3, <5>4
      <4>. QED  BY <4>1, <4>2, <4>3, <4>4 DEF Read
    <3>6. ASSUME NEW i \in Spoken(t, s) PROVE i \in D!Said(d)
      <4>1. i \in line \ cuts  BY <1>3, <1>7
      <4>2. CASE i \in head
        <5>1. i \in rest  BY <4>2, <1>7, <1>14
        <5>. QED  BY <5>1, <3>2 DEF D!Said
      <4>3. CASE i \notin head
        <5>1. i \in tail \ cuts  BY <4>1, <4>3, <1>13
        <5>2. Covers(circled, i)  BY <5>1, <1>16, <1>17
        <5>. QED  BY <5>2, <3>2, <3>4 DEF Covers, D!Said
      <4>. QED  BY <4>2, <4>3
    <3>. QED  BY <3>5, <3>6 DEF d
  <2>. QED  BY <2>2, <2>3
<1>. QED  BY <1>19, <1>20

\* Definitions read from the part s of t, in the order of the text.
AllRead(t, s, g) ==
    /\ DOMAIN g \subseteq Nat
    /\ \A c \in DOMAIN g : Read(t, s, g[c])
    /\ \A c, d \in DOMAIN g : c < d => Precede(t, D!Said(g[c]), D!Said(g[d]))

\* One of the definitions says it.
Says(g, i) == \E c \in DOMAIN g : i \in D!Said(g[c])

\* What precedes letters, a number or a note on forms may be lost.
Lost(t, s, i) ==
    \/ D!Of(t, s, "letter") # {} /\ \A j \in D!Of(t, s, "letter") : i < j
    \/ \E j \in D!Of(t, s, "nl"), k \in D!Of(t, s, "num") : i < j /\ j < k
    \/ \E j \in D!Of(t, s, "form"), k \in D!Of(t, s, "circ") : i < k /\ j < k

LEMMA OneRead ==
    ASSUME NEW t, NEW s, NEW d, Read(t, s, d)
    PROVE  /\ AllRead(t, s, D!Only(d))
           /\ \A i \in D!Said(d) : Says(D!Only(d), i)
<1>1. DOMAIN D!Only(d) = {0} /\ D!Only(d)[0] = d  BY DEF D!Only
<1>2. \A c, e \in DOMAIN D!Only(d) : ~(c < e)  BY <1>1
<1>3. AllRead(t, s, D!Only(d))  BY <1>1, <1>2 DEF AllRead
<1>. QED  BY <1>1, <1>3 DEF Says

LEMMA PiecesRead ==
    ASSUME NEW t, NEW s, NEW f, Listed(f, s), NEW g, DOMAIN g \subseteq DOMAIN f,
           \A c \in DOMAIN g : Read(t, f[c], g[c])
    PROVE  AllRead(t, s, g)
<1>1. \A c \in DOMAIN g : D!Said(g[c]) \subseteq f[c] /\ f[c] \subseteq s
  BY DEF Listed, Read
<1>2. \A c \in DOMAIN g : Read(t, s, g[c])  BY <1>1 DEF Read
<1>3. DOMAIN g \subseteq Nat  BY DEF Listed
<1>4. \A c, d \in DOMAIN g : c < d => Precede(t, D!Said(g[c]), D!Said(g[d]))
  BY <1>1 DEF Listed, Precede
<1>. QED  BY <1>2, <1>3, <1>4 DEF AllRead

LEMMA TrianglesRead ==
    ASSUME NEW t, NEW s, s \subseteq Nat \ {0}
    PROVE  LET f == D!split_by_triangle(t, s)
               g == [c \in {c \in DOMAIN f : D!Words(t, f[c]) # {}} |-> D!make_def(t, f[c])]
           IN  AllRead(t, s, g) /\ \A i \in Spoken(t, s) : Says(g, i)
<1> DEFINE f == D!split_by_triangle(t, s)
           K == {c \in DOMAIN f : D!Words(t, f[c]) # {}}
           g == [c \in K |-> D!make_def(t, f[c])]
           cuts == D!Of(t, s, "tri")
<1>1. f = D!Sections(t, s, "tri")  BY DEF D!split_by_triangle
<1>2. cuts \subseteq s /\ \A i \in Spoken(t, s) : i \in s \ cuts  BY DEF D!Of, Spoken
<1>3. Listed(f, s \ cuts) /\ \A i \in s \ cuts : Covers(f, i)
  <2>. HIDE DEF f
  <2>. QED  BY <1>1, Sectioned
<1>4. DOMAIN g = K /\ \A c \in K : g[c] = D!make_def(t, f[c])  OBVIOUS
<1>5. K \subseteq DOMAIN f /\ \A c \in DOMAIN f : D!Words(t, f[c]) # {} => c \in K  OBVIOUS
<1>. HIDE DEF f, K, g, cuts
<1>6. Listed(f, s)  BY <1>3 DEF Listed
<1>7. \A c \in DOMAIN f : f[c] \subseteq Nat \ {0}  BY <1>6 DEF Listed
<1>8. ASSUME NEW c \in K
      PROVE  Read(t, f[c], g[c]) /\ Spoken(t, f[c]) \subseteq D!Said(g[c])
  BY <1>4, <1>5, <1>7, Made
<1>9. AllRead(t, s, g)  BY <1>4, <1>5, <1>6, <1>8, PiecesRead
<1>10. ASSUME NEW i \in Spoken(t, s) PROVE Says(g, i)
  <2>1. PICK c \in DOMAIN f : i \in f[c]  BY <1>2, <1>3 DEF Covers
  <2>2. i \in Spoken(t, f[c]) /\ i \in D!Words(t, f[c])
    BY <2>1 DEF Spoken, D!Words, D!Of
  <2>. QED  BY <2>1, <2>2, <1>4, <1>5, <1>8 DEF Says
<1>. QED  BY <1>9, <1>10 DEF f, g, K

\* What a section loses, the text loses.
LEMMA LostInPart ==
    ASSUME NEW t, NEW s, NEW p, p \subseteq s, NEW i,
           \E j \in D!Of(t, p, "form"), k \in D!Of(t, p, "circ") : i < k /\ j < k
    PROVE  Lost(t, s, i)
<1>1. D!Of(t, p, "form") \subseteq D!Of(t, s, "form") /\ D!Of(t, p, "circ") \subseteq D!Of(t, s, "circ")
  BY DEF D!Of
<1>. QED  BY <1>1 DEF Lost

LEMMA LettersRead ==
    ASSUME NEW t, NEW s, s \subseteq Nat \ {0}, DOMAIN D!split_by_letters(t, s) # {}
    PROVE  LET f == D!split_by_letters(t, s)
               e == [c \in DOMAIN f |-> D!parse_inline_definition_section(t, f[c])]
               g == D!Restrict(e, {c \in DOMAIN e : e[c].name # {} \/ DOMAIN e[c].values # {}})
           IN  AllRead(t, s, g) /\ \A i \in Spoken(t, s) : Says(g, i) \/ Lost(t, s, i)
<1> DEFINE h == D!SplitAt(t, s, "letter")
           K == {c \in DOMAIN h \ {0} : D!Words(t, h[c]) # {}}
           f == D!split_by_letters(t, s)
           e == [c \in DOMAIN f |-> D!parse_inline_definition_section(t, f[c])]
           M == {c \in DOMAIN e : e[c].name # {} \/ DOMAIN e[c].values # {}}
           g == D!Restrict(e, M)
           cuts == D!Of(t, s, "letter")
<1>1. f = D!Restrict(h, K)  BY DEF D!split_by_letters
<1>2. cuts \subseteq s /\ \A i \in Spoken(t, s) : i \in s \ cuts  BY DEF D!Of, Spoken
<1>3. /\ DOMAIN h = {0} \cup cuts
      /\ Listed(h, s \ cuts)
      /\ \A i \in s \ cuts : Covers(h, i)
      /\ \A c \in DOMAIN h : \A i \in h[c] : c < i /\ \A k \in cuts : k < i => k <= c
  BY Splitting
<1>4. K \subseteq DOMAIN h /\ \A c \in DOMAIN h : c # 0 /\ D!Words(t, h[c]) # {} => c \in K
  OBVIOUS
<1>5. DOMAIN e = DOMAIN f
      /\ \A c \in DOMAIN f : e[c] = D!parse_inline_definition_section(t, f[c])
  OBVIOUS
<1>6. M \subseteq DOMAIN e
      /\ \A c \in DOMAIN e : e[c].name # {} \/ DOMAIN e[c].values # {} => c \in M
  OBVIOUS
<1>7. K # {} /\ 0 \notin K
  <2>1. DOMAIN f = K  BY <1>1 DEF D!Restrict
  <2>. QED  BY <2>1
<1>8. DOMAIN g = M /\ \A c \in M : g[c] = e[c]  BY DEF D!Restrict
<1>. HIDE DEF h, K, f, e, M, g, cuts
<1>9. Listed(f, s \ cuts) /\ DOMAIN f = K /\ \A c \in K : f[c] = h[c]
  BY <1>1, <1>3, <1>4, Restricted
<1>10. Listed(f, s)  BY <1>9 DEF Listed
<1>11. \A c \in DOMAIN f : f[c] \subseteq s /\ f[c] \subseteq Nat \ {0}  BY <1>10 DEF Listed
<1>12. ASSUME NEW c \in DOMAIN f
       PROVE  /\ Read(t, f[c], e[c])
              /\ \A i \in Spoken(t, f[c]) \ D!Said(e[c]) :
                    \E j \in D!Of(t, f[c], "form"), k \in D!Of(t, f[c], "circ") : i < k /\ j < k
  BY <1>5, <1>11, InlineRead
<1>13. AllRead(t, s, g)  BY <1>5, <1>6, <1>8, <1>10, <1>12, PiecesRead
<1>14. ASSUME NEW i \in Spoken(t, s), ~Says(g, i) PROVE Lost(t, s, i)
  <2>1. PICK c \in DOMAIN h : i \in h[c]  BY <1>2, <1>3 DEF Covers
  <2>2. CASE c = 0
    <3>1. \A k \in cuts : i < k
      <4>1. SUFFICES ASSUME NEW k \in cuts PROVE i < k  OBVIOUS
      <4>2. i \in Nat /\ k \in Nat /\ k # 0 /\ i # k  BY <1>2
      <4>3. k < i => k <= 0  BY <2>1, <2>2, <1>3
      <4>. QED  BY <4>2, <4>3
    <3>2. cuts # {}  BY <1>3, <1>4, <1>7
    <3>. QED  BY <3>1, <3>2 DEF Lost, cuts
  <2>3. CASE c # 0
    <3>1. i \in Spoken(t, h[c]) /\ i \in D!Words(t, h[c])
      BY <2>1 DEF Spoken, D!Words, D!Of
    <3>2. c \in DOMAIN f /\ f[c] = h[c]  BY <2>3, <3>1, <1>4, <1>9
    <3>3. i \notin D!Said(e[c])
      <4>1. CASE c \in M
        BY <4>1, <1>8, <1>14 DEF Says
      <4>2. CASE c \notin M
        <5>1. e[c].name = {} /\ DOMAIN e[c].values = {}  BY <4>2, <3>2, <1>5, <1>6
        <5>. QED  BY <5>1 DEF D!Said
      <4>. QED  BY <4>1, <4>2
    <3>4. \E j \in D!Of(t, f[c], "form"), k \in D!Of(t, f[c], "circ") : i < k /\ j < k
      BY <3>1, <3>2, <3>3, <1>12
    <3>. QED  BY <3>2, <3>4, <1>11, LostInPart
  <2>. QED  BY <2>2, <2>3
<1>. QED  BY <1>13, <1>14 DEF f, e, M, g

LEMMA SectionsRead ==
    ASSUME NEW t, NEW s, s \subseteq Nat \ {0}
    PROVE  LET g == D!parse_definition_sections(t, s)
           IN  AllRead(t, s, g) /\ \A i \in Spoken(t, s) : Says(g, i) \/ Lost(t, s, i)
<1> DEFINE triangles == D!split_by_triangle(t, s)
           letters == D!split_by_letters(t, s)
           made == [c \in {c \in DOMAIN triangles : D!Words(t, triangles[c]) # {}} |->
                      D!make_def(t, triangles[c])]
           entries == [c \in DOMAIN letters |-> D!parse_inline_definition_section(t, letters[c])]
           inline == D!parse_inline_definition_section(t, s)
           circled == D!split_by_circled(t, D!Words(t, s))
           lines == D!split_pos_and_defs(t, s).lines
           kept == D!Restrict(entries, {c \in DOMAIN entries :
                      entries[c].name # {} \/ DOMAIN entries[c].values # {}})
           g == D!parse_definition_sections(t, s)
<1>1. g = IF D!Words(t, s) = {} THEN <<>>
          ELSE IF D!Several(triangles) THEN made
          ELSE IF DOMAIN letters # {} THEN kept
          ELSE IF inline.name # {} \/ D!Several(inline.values) THEN D!Only(inline)
          ELSE IF D!Several(circled) /\ DOMAIN D!Nonempty(circled) # {}
          THEN D!Only(D!Definition({}, D!Nonempty(circled)))
          ELSE D!Only(D!Definition({}, D!Nonempty(D!Stripped(t, lines))))
  BY DEF D!parse_definition_sections
<1>2. AllRead(t, s, made) /\ \A i \in Spoken(t, s) : Says(made, i)  BY TrianglesRead
<1>3. DOMAIN letters # {} =>
        AllRead(t, s, kept) /\ \A i \in Spoken(t, s) : Says(kept, i) \/ Lost(t, s, i)
  BY LettersRead
<1>4. /\ AllRead(t, s, D!Only(inline))
      /\ \A i \in Spoken(t, s) : Says(D!Only(inline), i) \/ Lost(t, s, i)
  <2>1. /\ Read(t, s, inline)
        /\ \A i \in Spoken(t, s) \ D!Said(inline) :
              \E j \in D!Of(t, s, "form"), k \in D!Of(t, s, "circ") : i < k /\ j < k
    BY InlineRead
  <2>. HIDE DEF inline
  <2>2. \A i \in Spoken(t, s) \ D!Said(inline) : Lost(t, s, i)  BY <2>1 DEF Lost
  <2>. QED  BY <2>1, <2>2, OneRead
<1>5. LET d == D!Definition({}, D!Nonempty(circled))
      IN  AllRead(t, s, D!Only(d)) /\ \A i \in Spoken(t, s) : Says(D!Only(d), i)
  <2> DEFINE p == D!Words(t, s)
             cuts == D!Of(t, p, "circ")
             f == D!Nonempty(circled)
  <2>1. p \subseteq s /\ \A i \in Spoken(t, s) : i \in p \ cuts
    BY DEF D!Words, D!Of, Spoken
  <2>2. circled = D!Sections(t, p, "circ")  BY DEF D!split_by_circled
  <2>. HIDE DEF p, circled
  <2>3. Listed(circled, p \ cuts) /\ \A i \in p \ cuts : Covers(circled, i)
    <3>1. p \subseteq Nat \ {0}  BY <2>1
    <3>. QED  BY <2>2, <3>1, Sectioned
  <2>. HIDE DEF cuts
  <2>4. Listed(f, p \ cuts) /\ \A i : Covers(circled, i) => Covers(f, i)  BY <2>3, Filled
  <2>. HIDE DEF f
  <2>5. Listed(f, s)  BY <2>1, <2>4 DEF Listed
  <2>6. /\ Read(t, s, D!Definition({}, f))
        /\ \A i : Covers(f, i) => i \in D!Said(D!Definition({}, f))
    BY <2>5, ListRead
  <2>7. /\ AllRead(t, s, D!Only(D!Definition({}, f)))
        /\ \A i \in D!Said(D!Definition({}, f)) : Says(D!Only(D!Definition({}, f)), i)
    BY <2>6, OneRead
  <2>. QED  BY <2>1, <2>3, <2>4, <2>6, <2>7 DEF f
<1>6. LET d == D!Definition({}, D!Nonempty(D!Stripped(t, lines)))
      IN  /\ AllRead(t, s, D!Only(d))
          /\ \A i \in Spoken(t, s) : Says(D!Only(d), i) \/ Lost(t, s, i)
  <2> DEFINE p == D!split_pos_and_defs(t, s)
             h == D!Stripped(t, lines)
             f == D!Nonempty(h)
  <2>1. /\ Listed(lines, s)
        /\ \A i \in Spoken(t, s) : Covers(lines, i) \/ i \in p.pos
        /\ \A i \in p.pos : \E j \in D!Of(t, s, "nl"), k \in D!Of(t, s, "num") :
              i < j /\ j < k
    BY NumbersSplit
  <2>. HIDE DEF lines, p
  <2>2. Listed(h, s) /\ \A i \in Spoken(t, s) : Covers(lines, i) => Covers(h, i)
    <3>1. s \subseteq Nat  OBVIOUS
    <3>. QED  BY <3>1, <2>1, NumberStripped
  <2>. HIDE DEF h
  <2>3. Listed(f, s) /\ \A i : Covers(h, i) => Covers(f, i)  BY <2>2, Filled
  <2>. HIDE DEF f
  <2>4. /\ Read(t, s, D!Definition({}, f))
        /\ \A i : Covers(f, i) => i \in D!Said(D!Definition({}, f))
    BY <2>3, ListRead
  <2>5. /\ AllRead(t, s, D!Only(D!Definition({}, f)))
        /\ \A i \in D!Said(D!Definition({}, f)) : Says(D!Only(D!Definition({}, f)), i)
    BY <2>4, OneRead
  <2>6. \A i \in p.pos : Lost(t, s, i)  BY <2>1 DEF Lost
  <2>. QED  BY <2>1, <2>2, <2>3, <2>4, <2>5, <2>6 DEF f, h
<1>7. CASE D!Words(t, s) = {}
  <2>1. g = <<>>  BY <1>1, <1>7
  <2>2. DOMAIN g = {}  BY <2>1
  <2>3. Spoken(t, s) = {}  BY <1>7 DEF D!Words, D!Of, Spoken
  <2>. QED  BY <2>2, <2>3 DEF AllRead
<1>8. CASE D!Words(t, s) # {}
  <2>. HIDE DEF triangles, letters, made, kept, inline, circled, lines, g
  <2>1. CASE D!Several(triangles)
    <3>1. g = made  BY <2>1, <1>1, <1>8
    <3>. QED  BY <3>1, <1>2 DEF g
  <2>2. CASE ~D!Several(triangles) /\ DOMAIN letters # {}
    <3>1. g = kept  BY <2>2, <1>1, <1>8
    <3>. QED  BY <3>1, <2>2, <1>3 DEF g
  <2>3. CASE ~D!Several(triangles) /\ DOMAIN letters = {}
    <3>1. g \in {D!Only(inline), D!Only(D!Definition({}, D!Nonempty(circled))),
                 D!Only(D!Definition({}, D!Nonempty(D!Stripped(t, lines))))}
      BY <2>3, <1>1, <1>8
    <3>. QED  BY <3>1, <1>4, <1>5, <1>6 DEF g
  <2>. QED  BY <2>1, <2>2, <2>3
<1>. QED  BY <1>7, <1>8

\* What is read is a part without pipes, and has all that is to be kept.
LEMMA BodyRead ==
    ASSUME NEW t, DOMAIN t \subseteq Nat \ {0}
    PROVE  LET s == D!strip_headword(t, D!strip_pipe_blocks(t))
               bare == {i \in DOMAIN t : ~D!InPipe(t, i)}
           IN  /\ s \subseteq bare
               /\ \A i \in bare : t[i] \notin {"pipe", "nl", "head"} => i \in s
<1> DEFINE bare == {i \in DOMAIN t : ~D!InPipe(t, i)}
           open == {i \in DOMAIN t : t[i] # "pipe" /\ ~D!InPipe(t, i)}
           p == D!strip_pipe_blocks(t)
           rest == p \ D!First(p)
           s == D!strip_headword(t, p)
<1>1. ASSUME NEW q, q \subseteq Nat
      PROVE  D!Trim(t, q) \subseteq q /\ \A i \in q : t[i] # "nl" => i \in D!Trim(t, q)
  <2>1. \A i \in q : t[i] # "nl" => i \in D!Words(t, q)  BY DEF D!Words, D!Of
  <2>2. \A i \in q : i <= i  BY <1>1
  <2>. QED  BY <2>1, <2>2 DEF D!Trim
<1>2. p = D!Trim(t, open)  BY DEF D!strip_pipe_blocks
<1>3. open \subseteq bare /\ open \subseteq Nat /\ \A i \in bare : t[i] # "pipe" => i \in open
  OBVIOUS
<1>. HIDE DEF bare, open, p
<1>4. p \subseteq bare /\ p \subseteq Nat
      /\ \A i \in bare : t[i] \notin {"pipe", "nl"} => i \in p
  <2>1. D!Trim(t, open) \subseteq open
        /\ \A i \in open : t[i] # "nl" => i \in D!Trim(t, open)
    BY <1>1, <1>3
  <2>. QED  BY <2>1, <1>2, <1>3
<1>5. \A i, j \in D!First(p) : i = j
  <2>1. \A i, j \in D!First(p) : i \in Nat /\ j \in Nat /\ i <= j /\ j <= i
    BY <1>4 DEF D!First
  <2>. QED  BY <2>1
<1>6. CASE rest # {} /\ \E i \in D!First(p) : t[i] = "head"
  <2>1. s = D!Trim(t, rest)  BY <1>6 DEF D!strip_headword
  <2>2. rest \subseteq Nat /\ rest \subseteq p /\ \A i \in p : t[i] # "head" => i \in rest
    BY <1>4, <1>5, <1>6
  <2>. HIDE DEF rest, s
  <2>3. D!Trim(t, rest) \subseteq rest
        /\ \A i \in rest : t[i] # "nl" => i \in D!Trim(t, rest)
    BY <1>1, <2>2
  <2>. QED  BY <2>1, <2>2, <2>3, <1>4 DEF s, p, bare
<1>7. CASE ~(rest # {} /\ \E i \in D!First(p) : t[i] = "head")
  <2>1. s = p  BY <1>7 DEF D!strip_headword
  <2>. HIDE DEF s
  <2>. QED  BY <2>1, <1>4 DEF s, p, bare
<1>. QED  BY <1>6, <1>7

\* A reply is a refusal, or what is read from a text.
DictionaryInv ==
    /\ text \in Seq(Marks)
    /\ \/ reply.state \in {"idle", "error", "empty"}
       \/ reply = D!parse_lookup_response(text)

LEMMA WordsKept == DictionaryInv => D!TypeOK /\ D!NothingUnread
<1>1. SUFFICES ASSUME DictionaryInv PROVE D!TypeOK /\ D!NothingUnread  OBVIOUS
<1>2. D!parse_lookup_response(text).state = "read"  BY DEF D!parse_lookup_response
<1>3. D!TypeOK  BY <1>1, <1>2 DEF DictionaryInv, D!TypeOK
<1>4. CASE reply.state # "read"  BY <1>3, <1>4 DEF D!NothingUnread
<1>5. CASE reply.state = "read"
  <2> DEFINE s == D!strip_headword(text, D!strip_pipe_blocks(text))
             g == D!parse_definition_sections(text, s)
  <2>1. reply.definitions = g
    BY <1>1, <1>5 DEF DictionaryInv, D!parse_lookup_response
  <2>2. DOMAIN text \subseteq Nat \ {0}  BY <1>1 DEF DictionaryInv
  <2>3. s \subseteq D!Bare
        /\ \A i \in D!Bare : text[i] \notin {"pipe", "nl", "head"} => i \in s
    BY <2>2, BodyRead DEF D!Bare
  <2>4. s \subseteq Nat \ {0}  BY <2>2, <2>3 DEF D!Bare
  <2>. HIDE DEF s
  <2>5. AllRead(text, s, g) /\ \A i \in Spoken(text, s) : Says(g, i) \/ Lost(text, s, i)
    BY <2>4, SectionsRead
  <2>. HIDE DEF g
  <2>6. \A p, q : Precede(text, p, q) => D!Before(p, q)  BY DEF Precede, D!Before
  <2>7. \A c, d \in DOMAIN g : c < d => D!Before(D!Said(g[c]), D!Said(g[d]))
    BY <2>5, <2>6 DEF AllRead
  <2>8. \A c \in DOMAIN g : Read(text, s, g[c])  BY <2>5 DEF AllRead
  <2>9. \A c \in DOMAIN g : \A k, l \in DOMAIN g[c].values :
            /\ D!Before(g[c].name, g[c].values[k])
            /\ k < l => D!Before(g[c].values[k], g[c].values[l])
    BY <2>6, <2>8 DEF Read
  <2>10. D!Kept = UNION {D!Said(g[c]) : c \in DOMAIN g}  BY <2>1 DEF D!Kept
  <2>11. D!Kept \subseteq D!Bare  BY <2>3, <2>8, <2>10 DEF Read
  <2>12. ASSUME NEW i \in D!Body \ D!Kept
         PROVE  D!BeforeLetters(i) \/ D!BeforeNumbers(i) \/ D!BesideForm(i)
    <3>1. i \in Spoken(text, s)  BY <2>3, <2>12 DEF Spoken, D!Body
    <3>2. ~Says(g, i)  BY <2>10, <2>12 DEF Says
    <3>3. \A mark : D!Of(text, s, mark) \subseteq D!Of(text, D!Bare, mark)
      BY <2>3 DEF D!Of
    <3>4. D!Of(text, s, "letter") = D!Of(text, D!Bare, "letter")
      BY <2>3 DEF D!Of
    <3>5. Lost(text, s, i)  BY <3>1, <3>2, <2>5
    <3>. QED
      BY <3>3, <3>4, <3>5 DEF Lost, D!BeforeLetters, D!BeforeNumbers, D!BesideForm
  <2>13. D!NothingUnread
    BY <2>1, <2>7, <2>9, <2>11, <2>12 DEF D!NothingUnread
  <2>. QED  BY <2>13, <1>3
<1>. QED  BY <1>3, <1>4, <1>5

LEMMA DictionarySteps == [Next]_all => [D!Next]_D!vars
<1>1. Next => D!Next \/ UNCHANGED parser
  BY DEF Next, Api, Capture, Bridge, Dictionary, Adapters, Models, Registry, Effects, Updates,
         desktop
<1>2. UNCHANGED all => UNCHANGED parser  BY DEF all
<1>3. UNCHANGED parser => UNCHANGED D!vars  BY DEF parser, D!vars
<1>. QED  BY <1>1, <1>2, <1>3

LEMMA LookUpKeeps == ASSUME DictionaryInv, [D!Next]_D!vars PROVE DictionaryInv'
<1>1. CASE D!look_up
  <2>1. CASE reply' \in {[state |-> "error"], [state |-> "empty"]} /\ UNCHANGED text
    BY <2>1 DEF DictionaryInv
  <2>2. ASSUME NEW t \in D!Texts, text' = t, reply' = D!parse_lookup_response(t)
        PROVE  DictionaryInv'
    <3>1. t \in Seq(Marks)  BY DEF D!Texts
    <3>. QED  BY <3>1, <2>2 DEF DictionaryInv
  <2>. QED  BY <1>1, <2>1, <2>2 DEF D!look_up
<1>2. CASE UNCHANGED D!vars  BY <1>2 DEF D!vars, DictionaryInv
<1>. QED  BY <1>1, <1>2 DEF D!Next

\* look_up: a reply is a refusal, or all that can be read of the text there is.
THEOREM DictionaryInductive == Spec => []DictionaryInv
<1>1. Init => DictionaryInv
  <2>1. <<>> \in Seq(Marks)  OBVIOUS
  <2>. QED  BY <2>1 DEF Init, D!Init, D!Idle, DictionaryInv
<1>. QED  BY <1>1, LookUpKeeps, DictionarySteps, PTL DEF Spec

-----------------------------------------------------------------------------
(* The types                                                               *)

LEMMA ListTypes == ASSUME L!TypeOK, [L!Next]_L!vars PROVE L!TypeOK'
<1>1. CASE L!Fail \/ L!NoCandidate  BY <1>1 DEF L!Fail, L!NoCandidate, L!TypeOK
<1>2. CASE L!Candidate
  <2>1. PICK p \in L!Pages :
            /\ served' = served \cup {p} /\ page' \in {page, page + 1}
            /\ UNCHANGED <<kind, bases, seen, models>>
    BY <1>2 DEF L!Candidate
  <2>. QED  BY <2>1 DEF L!TypeOK
<1>3. CASE L!Page
  <2>1. PICK p \in L!Pages :
            /\ served' = served \cup {p} /\ list' = L!Ends(p)
            /\ models' = IF L!Interpret(p) = "success" THEN models \cup p.ids ELSE models
            /\ seen' = IF list' = L!None THEN seen \cup {p.last} ELSE seen
            /\ page' \in {page, page + 1}
            /\ UNCHANGED <<kind, bases>>
    BY <1>3 DEF L!Page
  <2>2. p.ids \subseteq Ids /\ p.last \in Cursors \cup {"nowhere"}  BY DEF L!Pages
  <2>3. L!Ends(p) = L!None => p.last # "nowhere"
    BY DEF L!Ends, L!None, L!Error, L!List
  <2>. QED  BY <2>1, <2>2, <2>3 DEF L!TypeOK
<1>4. CASE L!Tags \/ L!Health
  <2>1. PICK p \in L!Pages : served' = served \cup {p}
    BY <1>4 DEF L!Tags, L!Health
  <2>2. UNCHANGED <<kind, bases, page, seen, models>>  BY <1>4 DEF L!Tags, L!Health
  <2>. QED  BY <2>1, <2>2 DEF L!TypeOK
<1>5. CASE UNCHANGED L!vars  BY <1>5 DEF L!vars, L!TypeOK
<1>. QED  BY <1>1, <1>2, <1>3, <1>4, <1>5 DEF L!Next

\* The lists of models keep to their types: a cursor followed is one a page named.
THEOREM ListsTyped == Spec => []L!TypeOK
<1>1. Init => L!TypeOK  BY DEF Init, L!Init, L!TypeOK
<1>. QED  BY <1>1, ListTypes, ListSteps, PTL DEF Spec

\* The clock stands or ticks.
ClockInv == now \in 0 .. MaxTime

\* The adapters keep to their types, in at most two exchanges a call.
THEOREM AdaptersTyped == Spec => []P!TypeOK
<1>1. MaxTime \in Nat  BY BoundsAssumption
<1>2. Init => ClockInv  BY <1>1 DEF Init, P!Init, ClockInv
<1>3. ClockInv /\ [P!Next]_P!vars => ClockInv'
  <2>1. P!Next => now' = now \/ (now < MaxTime /\ now' = now + 1)
    BY DEF P!Next, P!Ask, P!UseCached, P!Send, P!ReceiveAnswer, P!ReceiveToken, P!ReceiveBearer,
           P!ReceivePictures, P!Tick
  <2>2. UNCHANGED P!vars => now' = now  BY DEF P!vars
  <2>. QED  BY <1>1, <2>1, <2>2 DEF ClockInv
<1>4. CallsInv /\ ClockInv => P!TypeOK
  BY DEF CallsInv, InOrder, P!TypeOK, ClockInv
<1>5. Spec => []ClockInv  BY <1>2, <1>3, AdapterSteps, PTL DEF Spec
<1>. QED  BY <1>4, <1>5, CallsInductive, PTL

\* What the loops leave alone, and what they may be.
EffectTypes ==
    /\ due \subseteq E!Effects /\ awaited \subseteq E!Effects
    /\ phase \in {"off", "seeding", "starting", "broken", "on", "failed", "unseeded", "disposed"}
    /\ supported \in BOOLEAN /\ news \in 0 .. MaxNews

LEMMA EffectTypesKept == ASSUME EffectTypes, [E!Next]_E!vars PROVE EffectTypes'
<1>1. CASE \E k \in E!Effects : E!Begin(k)
  <2>1. /\ due' \subseteq due /\ awaited' \subseteq awaited /\ phase' \in {phase, "broken"}
        /\ UNCHANGED <<supported, news>>
    BY <1>1 DEF E!Begin, E!Throws, E!Returns, E!starting
  <2>. QED  BY <2>1 DEF EffectTypes
<1>2. CASE \E k \in E!Effects : \E w \in E!Wishes[k] : E!News(k, w)
  <2>1. PICK k \in E!Effects : \E w \in E!Wishes[k] : E!News(k, w)  BY <1>2
  <2>2. /\ due' \subseteq {k} /\ news < MaxNews /\ news' = news + 1
        /\ UNCHANGED <<phase, awaited, supported>>
    BY <2>1 DEF E!News, E!starting
  <2>3. MaxNews \in Nat  BY BoundsAssumption
  <2>. QED  BY <2>2, <2>3 DEF EffectTypes
<1>3. CASE E!ThemeEnds \/ E!Corrected \/ E!CorrectionFails
  <2>1. /\ due' \in {due, {"theme"}} /\ awaited' \subseteq awaited /\ phase' \in {phase, "broken"}
        /\ UNCHANGED <<supported, news>>
    BY <1>3 DEF E!ThemeEnds, E!Corrected, E!CorrectionFails, E!Throws, E!Returns, E!starting
  <2>. QED  BY <2>1 DEF EffectTypes, E!Effects
<1>4. CASE E!Start \/ E!Seeded \/ E!Started \/ E!Dispose
  BY <1>4 DEF E!Start, E!Seeded, E!Started, E!Dispose, EffectTypes
<1>5. CASE UNCHANGED E!vars  BY <1>5 DEF E!vars, E!starting, EffectTypes
<1>. QED  BY <1>1, <1>2, <1>3, <1>4, <1>5 DEF E!Next

\* The effects keep to their types.
THEOREM EffectsTyped == Spec => []E!TypeOK
<1>1. Init => EffectTypes
  <2>1. MaxNews \in Nat  BY BoundsAssumption
  <2>. QED  BY <2>1 DEF Init, E!Init, EffectTypes
<1>2. EffectsInv /\ EffectTypes => E!TypeOK
  <2>1. SUFFICES ASSUME EffectsInv, EffectTypes PROVE E!TypeOK  OBVIOUS
  <2>2. ASSUME NEW x \in E!Settings, NEW k \in E!Effects PROVE x[k] \in E!Wishes[k]
    <3>1. x["login"] \in E!Wishes["login"]  BY DEF E!Settings
    <3>2. x["theme"] \in E!Wishes["theme"]  BY DEF E!Settings
    <3>3. x["server"] \in E!Wishes["server"]  BY DEF E!Settings
    <3>. QED  BY <3>1, <3>2, <3>3 DEF E!Effects
  <2>3. store \in E!Settings /\ system \in E!Settings /\ tried \in E!Settings
    BY <2>1 DEF EffectsInv
  <2>4. \A k \in E!Effects : {store[k], system[k], tried[k]} \subseteq E!Wishes[k]
    BY <2>2, <2>3
  <2>5. /\ refused \in [E!Effects -> BOOLEAN]
        /\ sync \in [E!Effects -> {"idle", "applying", "correcting"}]
    BY <2>1 DEF EffectsInv
  <2>. QED  BY <2>1, <2>4, <2>5 DEF EffectTypes, E!TypeOK
<1>3. Spec => []EffectTypes  BY <1>1, EffectTypesKept, EffectSteps, PTL DEF Spec
<1>. QED  BY <1>2, <1>3, EffectsInductive, PTL

\* As many numbers were given as the next one says, to as many requests.
Given == {r \in Requests : number[r] # 0}
CountInv == next = Cardinality(Given) + 1

LEMMA CountKept == ASSUME BridgeInv, CountInv, [B!Next]_B!vars PROVE CountInv'
<1>1. ASSUME UNCHANGED <<number, next>> PROVE CountInv'
  BY <1>1 DEF CountInv, Given
<1>2. ASSUME NEW r \in Requests, B!Enter(r) PROVE CountInv'
  <2>1. number[r] = 0 /\ next \in Nat \ {0} /\ DOMAIN number = Requests
    BY <1>2 DEF B!Enter, BridgeInv, NumbersInv, BridgeTypes
  <2>2. number' = [number EXCEPT ![r] = next] /\ next' = next + 1  BY <1>2 DEF B!Enter
  <2>3. Given' = Given \cup {r} /\ r \notin Given  BY <2>1, <2>2 DEF Given
  <2>4. IsFiniteSet(Given)
    <3>1. Given \subseteq Requests /\ IsFiniteSet(Requests)  BY BoundsAssumption DEF Given
    <3>. QED  BY <3>1, FS_Subset
  <2>5. Cardinality(Given') = Cardinality(Given) + 1  BY <2>3, <2>4, FS_AddElement
  <2>. QED  BY <2>2, <2>5 DEF CountInv
<1>. QED
  BY <1>1, <1>2 DEF B!Next, B!vars, B!RefuseTexts, B!RefuseTarget, B!Post, B!Receive, B!GiveUp,
                    B!Forget, B!OnResponse, B!Send

\* The bridge keeps to its types: no more numbers are given than there are
\* requests.
THEOREM BridgeTyped == Spec => []B!TypeOK
<1>1. Init => CountInv
  <2>1. Init => Given = {} /\ next = 1  BY DEF Init, B!Init, Given
  <2>. QED  BY <2>1, FS_EmptySet DEF CountInv
<1>2. Spec => []CountInv  BY <1>1, CountKept, BridgeSteps, BridgeInductive, PTL DEF Spec
<1>3. BridgeInv /\ CountInv => B!TypeOK
  <2>1. SUFFICES ASSUME BridgeInv, CountInv PROVE B!TypeOK  OBVIOUS
  <2> DEFINE size == Cardinality(Requests)
  <2>2. IsFiniteSet(Requests) /\ Given \subseteq Requests  BY BoundsAssumption DEF Given
  <2>3. size \in Nat /\ Cardinality(Given) \in Nat /\ Cardinality(Given) <= size
    BY <2>2, FS_Subset, FS_CardinalityType
  <2>4. B!Cardinality(Requests) = size  BY DEF B!Cardinality, Cardinality
  <2>. HIDE DEF size
  <2>5. next \in 1 .. size + 1  BY <2>1, <2>3 DEF CountInv
  <2>6. \A r \in Requests : number[r] \in 0 .. size
    <3>1. \A r \in Requests : number[r] \in Nat /\ number[r] < next
      BY <2>1 DEF BridgeInv, BridgeTypes, NumbersInv
    <3>. QED  BY <3>1, <2>3, <2>5
  <2>7. number \in [Requests -> 0 .. size]  BY <2>1, <2>6 DEF BridgeInv, BridgeTypes
  <2>8. native \subseteq 1 .. size
    <3>1. \A n \in native : n # 0 /\ \E r \in Requests : number[r] = n
      BY <2>1 DEF BridgeInv, NumbersInv
    <3>2. \A n \in native : n \in 0 .. size /\ n # 0  BY <3>1, <2>6
    <3>. QED  BY <3>2, <2>3
  <2>9. registry \subseteq [number : 1 .. size, request : Requests]
    <3>1. \A e \in registry : e \in [number : Nat, request : Requests]
             /\ e.number = number[e.request] /\ e.number # 0
      BY <2>1 DEF BridgeInv, BridgeTypes, RegistryInv
    <3>2. ASSUME NEW e \in registry PROVE e \in [number : 1 .. size, request : Requests]
      <4>1. e.request \in Requests /\ e = [number |-> e.number, request |-> e.request]
        BY <3>1
      <4>2. e.number \in 1 .. size  BY <3>1, <4>1, <2>6, <2>3
      <4>. QED  BY <4>1, <4>2
    <3>. QED  BY <3>2
  <2>. QED  BY <2>1, <2>4, <2>5, <2>7, <2>8, <2>9 DEF BridgeInv, BridgeTypes, B!TypeOK
<1>. QED  BY <1>2, <1>3, BridgeInductive, PTL

\* The settings and the starts.
ApiTypes ==
    /\ wanted \in Ports \cup {Off} /\ failed \in BOOLEAN
    /\ loop \in [A!Starts -> {"unborn", "accepting", "over"}]
    /\ port \in [A!Starts -> Ports \cup {Off}]
    /\ stopped \in [A!Starts -> BOOLEAN]
    /\ changes \in 0 .. MaxChanges

\* No queue holds more than its capacity.
ApiBounds ==
    /\ backlog \in [A!Starts -> Seq(Clients \cup {Wake})]
    /\ \A i \in A!Starts : Len(backlog[i]) <= Backlog
    /\ actions \in Seq(Clients) /\ Len(actions) <= Capacity

LEMMA ApiBoundsAre == Backlog \in Nat /\ MaxChanges \in Nat /\ Capacity \in Nat \ {0}
BY BoundsAssumption

LEMMA ApiTypesKept == ASSUME ApiTypes, ServerInv, [A!Next]_A!vars PROVE ApiTypes'
<1>1. CASE UNCHANGED <<wanted, failed, loop, port, stopped, changes>>
  BY <1>1 DEF ApiTypes
<1>2. CASE \E w \in Ports \cup {Off} : A!Change(w)
  BY <1>2, ApiBoundsAre DEF A!Change, A!serving, ApiTypes
<1>3. CASE A!RaiseFlag
  BY <1>3 DEF A!RaiseFlag, ApiTypes
<1>4. CASE A!Start
  <2>1. CASE failed' = TRUE /\ UNCHANGED <<loop, port>>
    BY <1>4, <2>1 DEF A!Start, ApiTypes
  <2>2. CASE \E i \in A!Starts : /\ loop' = [loop EXCEPT ![i] = "accepting"]
                                 /\ port' = [port EXCEPT ![i] = wanted]
                                 /\ failed' = FALSE
    <3>1. PICK i \in A!Starts : /\ loop' = [loop EXCEPT ![i] = "accepting"]
                                /\ port' = [port EXCEPT ![i] = wanted]
                                /\ failed' = FALSE
      BY <2>2
    <3>2. UNCHANGED <<wanted, stopped, changes>>  BY <1>4 DEF A!Start
    <3>3. loop' \in [A!Starts -> {"unborn", "accepting", "over"}]  BY <3>1 DEF ApiTypes
    <3>4. port' \in [A!Starts -> Ports \cup {Off}]  BY <3>1 DEF ApiTypes
    <3>. QED  BY <3>1, <3>2, <3>3, <3>4 DEF ApiTypes
  <2>. QED  BY <1>4, <2>1, <2>2 DEF A!Start
<1>5. ASSUME NEW i \in A!Starts, A!Accept(i) PROVE ApiTypes'
  <2>1. loop' \in {loop, [loop EXCEPT ![i] = "over"]}
        /\ UNCHANGED <<wanted, failed, port, stopped, changes>>
    BY <1>5 DEF A!Accept
  <2>. QED  BY <2>1 DEF ApiTypes
<1>. QED
  BY <1>1, <1>2, <1>3, <1>4, <1>5
     DEF A!Next, A!AppStep, A!vars, A!serving, A!WakeLoop, A!Join, A!Read, A!ReadEnds, A!CallEnds,
         A!Send, A!Connect, A!TakeAction

\* One more in a queue that is not full.
LEMMA QueueGrows ==
    ASSUME NEW X, NEW q \in Seq(X), NEW x \in X, NEW most \in Nat, Len(q) < most
    PROVE  Append(q, x) \in Seq(X) /\ Len(Append(q, x)) <= most
<1>1. Len(Append(q, x)) = Len(q) + 1 /\ Len(q) \in Nat  OBVIOUS
<1>. QED  BY <1>1

\* One less in a queue.
LEMMA QueueShrinks ==
    ASSUME NEW X, NEW q \in Seq(X), q # <<>>, NEW most \in Nat, Len(q) <= most
    PROVE  Tail(q) \in Seq(X) /\ Len(Tail(q)) <= most /\ Len(Tail(q)) < most
<1>1. Len(Tail(q)) = Len(q) - 1 /\ Len(q) \in Nat  OBVIOUS
<1>. QED  BY <1>1

\* A broadcast that is full makes room first.
LEMMA AnswerBounds ==
    ASSUME ApiBounds, NEW c \in Clients, NEW got, NEW status, A!Answer(c, got, status)
    PROVE  actions' \in Seq(Clients) /\ Len(actions') <= Capacity
<1>1. actions \in Seq(Clients) /\ Len(actions) <= Capacity /\ Capacity \in Nat \ {0}
  BY ApiBoundsAre DEF ApiBounds
<1>2. CASE status # 202  BY <1>1, <1>2 DEF A!Answer
<1>3. CASE status = 202 /\ Len(actions) < Capacity
  <2>1. actions' = Append(actions, c)  BY <1>3 DEF A!Answer
  <2>. QED  BY <1>1, <1>3, <2>1, QueueGrows
<1>4. CASE status = 202 /\ ~(Len(actions) < Capacity)
  <2>1. actions' = Append(Tail(actions), c)  BY <1>4 DEF A!Answer
  <2>2. actions # <<>>
    <3>1. actions = <<>> => Len(actions) = 0  OBVIOUS
    <3>. QED  BY <3>1, <1>1, <1>4
  <2>3. Tail(actions) \in Seq(Clients) /\ Len(Tail(actions)) < Capacity
    BY <1>1, <2>2, QueueShrinks
  <2>. QED  BY <1>1, <2>1, <2>3, QueueGrows
<1>. QED  BY <1>2, <1>3, <1>4

LEMMA ApiBoundsKept == ASSUME ApiBounds, ServerInv, [A!Next]_A!vars PROVE ApiBounds'
<1>0. /\ backlog \in [A!Starts -> Seq(Clients \cup {Wake})]
      /\ \A i \in A!Starts : Len(backlog[i]) <= Backlog
      /\ actions \in Seq(Clients) /\ Len(actions) <= Capacity
      /\ Backlog \in Nat /\ Capacity \in Nat
  BY ApiBoundsAre DEF ApiBounds
<1>1. CASE UNCHANGED <<backlog, actions>>  BY <1>1 DEF ApiBounds
\* One queue changes, for another no longer than may be.
<1>2. ASSUME NEW i \in A!Starts, NEW q \in Seq(Clients \cup {Wake}), Len(q) <= Backlog,
             backlog' = [backlog EXCEPT ![i] = q], UNCHANGED actions
      PROVE  ApiBounds'
  <2>1. backlog'[i] = q /\ \A j \in A!Starts \ {i} : backlog'[j] = backlog[j]
    BY <1>0, <1>2
  <2>2. \A j \in A!Starts : Len(backlog'[j]) <= Backlog  BY <2>1, <1>0, <1>2
  <2>3. backlog' \in [A!Starts -> Seq(Clients \cup {Wake})]  BY <1>0, <1>2
  <2>. QED  BY <2>2, <2>3, <1>0, <1>2 DEF ApiBounds
<1>3. CASE A!WakeLoop
  <2>1. server \in A!Starts  BY <1>3 DEF A!WakeLoop, ServerInv
  <2>2. CASE Len(backlog[server]) < Backlog
    <3>1. backlog' = [backlog EXCEPT ![server] = Append(backlog[server], Wake)]
          /\ UNCHANGED actions
      BY <1>3, <2>2 DEF A!WakeLoop
    <3>2. backlog[server] \in Seq(Clients \cup {Wake}) /\ Wake \in Clients \cup {Wake}
      BY <1>0, <2>1
    <3>3. Append(backlog[server], Wake) \in Seq(Clients \cup {Wake})
          /\ Len(Append(backlog[server], Wake)) <= Backlog
      BY <3>2, <2>2, <1>0, QueueGrows
    <3>. QED  BY <2>1, <3>1, <3>3, <1>2
  <2>3. CASE ~(Len(backlog[server]) < Backlog)
    BY <1>1, <1>3, <2>3 DEF A!WakeLoop
  <2>. QED  BY <2>2, <2>3
<1>4. ASSUME NEW i \in A!Starts, A!Accept(i) PROVE ApiBounds'
  <2>1. backlog[i] # <<>> /\ UNCHANGED actions  BY <1>4 DEF A!Accept
  <2>2. CASE stopped[i]
    <3>1. backlog' = [backlog EXCEPT ![i] = <<>>]  BY <1>4, <2>2 DEF A!Accept
    <3>2. <<>> \in Seq(Clients \cup {Wake}) /\ Len(<<>>) = 0  OBVIOUS
    <3>3. Len(<<>>) <= Backlog  BY <3>2, <1>0
    <3>. QED  BY <2>1, <3>1, <3>2, <3>3, <1>2
  <2>3. CASE ~stopped[i]
    <3>1. backlog' = [backlog EXCEPT ![i] = Tail(backlog[i])]  BY <1>4, <2>3 DEF A!Accept
    <3>2. Tail(backlog[i]) \in Seq(Clients \cup {Wake}) /\ Len(Tail(backlog[i])) <= Backlog
      <4>1. backlog[i] \in Seq(Clients \cup {Wake}) /\ Len(backlog[i]) <= Backlog  BY <1>0
      <4>. QED  BY <4>1, <2>1, <1>0, QueueShrinks
    <3>. QED  BY <2>1, <3>1, <3>2, <1>2
  <2>. QED  BY <2>2, <2>3
<1>5. ASSUME NEW c \in Clients, NEW i \in A!Starts, NEW r \in Messages, A!Connect(c, i, r)
      PROVE  ApiBounds'
  <2>1. backlog' = [backlog EXCEPT ![i] = Append(backlog[i], c)] /\ UNCHANGED actions
        /\ Len(backlog[i]) < Backlog
    BY <1>5 DEF A!Connect
  <2>2. backlog[i] \in Seq(Clients \cup {Wake}) /\ c \in Clients \cup {Wake}  BY <1>0
  <2>3. Append(backlog[i], c) \in Seq(Clients \cup {Wake})
        /\ Len(Append(backlog[i], c)) <= Backlog
    BY <2>1, <2>2, <1>0, QueueGrows
  <2>. QED  BY <2>1, <2>3, <1>2
<1>6. ASSUME NEW c \in Clients, A!Read(c) \/ A!ReadEnds(c) \/ A!CallEnds(c) PROVE ApiBounds'
  <2>1. UNCHANGED backlog
    BY <1>6 DEF A!Read, A!ReadEnds, A!CallEnds, A!serving
  <2>2. UNCHANGED actions \/ \E got, status : A!Answer(c, got, status)
    BY <1>6 DEF A!Read, A!ReadEnds, A!CallEnds, A!Dispatch
  <2>3. actions' \in Seq(Clients) /\ Len(actions') <= Capacity
    BY <2>2, <1>0, AnswerBounds
  <2>. QED  BY <2>1, <2>3, <1>0 DEF ApiBounds
<1>7. CASE A!TakeAction
  <2>1. actions # <<>> /\ actions' = Tail(actions) /\ UNCHANGED backlog
    BY <1>7 DEF A!TakeAction, A!serving
  <2>2. Tail(actions) \in Seq(Clients) /\ Len(Tail(actions)) <= Capacity
    BY <1>0, <2>1, QueueShrinks
  <2>. QED  BY <2>1, <2>2, <1>0 DEF ApiBounds
<1>8. ASSUME NEW c \in Clients, A!Send(c) PROVE ApiBounds'
  BY <1>1, <1>8 DEF A!Send, A!serving
<1>9. CASE A!RaiseFlag \/ A!Join \/ A!Start \/ \E w \in Ports \cup {Off} : A!Change(w)
  BY <1>1, <1>9 DEF A!RaiseFlag, A!Join, A!Start, A!Change, A!serving
<1>10. CASE UNCHANGED A!vars  BY <1>1, <1>10 DEF A!vars, A!serving
<1>. QED
  BY <1>3, <1>4, <1>5, <1>6, <1>7, <1>8, <1>9, <1>10 DEF A!Next, A!AppStep

\* The server keeps to its types: no queue and no broadcast exceeds its capacity.
THEOREM ServerTyped == Spec => []A!TypeOK
<1>1. Init => ApiTypes
  <2>1. SUFFICES ASSUME A!Init PROVE ApiTypes  BY DEF Init
  <2>2. /\ loop \in [A!Starts -> {"unborn", "accepting", "over"}]
        /\ port \in [A!Starts -> Ports \cup {Off}]
        /\ stopped \in [A!Starts -> BOOLEAN]
    BY <2>1 DEF A!Init
  <2>3. wanted = Off /\ failed \in BOOLEAN /\ changes = 0  BY <2>1 DEF A!Init
  <2>4. 0 \in 0 .. MaxChanges  BY ApiBoundsAre
  <2>. QED  BY <2>2, <2>3, <2>4 DEF ApiTypes
<1>2. Init => ApiBounds
  <2>1. <<>> \in Seq(Clients \cup {Wake}) /\ <<>> \in Seq(Clients) /\ Len(<<>>) = 0  OBVIOUS
  <2>2. Len(<<>>) <= Backlog /\ Len(<<>>) <= Capacity  BY <2>1, ApiBoundsAre
  <2>. QED  BY <2>1, <2>2 DEF Init, A!Init, ApiBounds
<1>3. ServerInv /\ RequestsInv /\ ApiTypes /\ ApiBounds => A!TypeOK
  <2>1. SUFFICES ASSUME ServerInv, RequestsInv, ApiTypes, ApiBounds PROVE A!TypeOK  OBVIOUS
  <2>2. ASSUME NEW c \in Clients
        PROVE  /\ conn[c].step \in {"away", "queued", "reading", "calling", "over"}
               /\ conn[c].sent \in 0 .. 2 /\ conn[c].got \in 0 .. conn[c].sent
               /\ conn[c].answer \in A!Statuses \cup {A!None}
    <3>1. conn[c] \in Connections /\ conn[c].got <= conn[c].sent
      BY <2>1 DEF RequestsInv, Sound
    <3>. QED  BY <3>1 DEF Connections
  <2>3. \A i \in A!Starts : backlog[i] \in Seq(Clients \cup {Wake}) /\ Len(backlog[i]) <= Backlog
    BY <2>1 DEF ApiBounds
  <2>4. app \in {"idle", "stop", "wake", "join", "start"} /\ server \in A!Starts \cup {A!None}
    BY <2>1 DEF ServerInv
  <2>. QED  BY <2>1, <2>2, <2>3, <2>4 DEF ApiTypes, ApiBounds, A!TypeOK
<1>4. Spec => []ApiTypes
  BY <1>1, ApiTypesKept, ApiSteps, ServerInductive, PTL DEF Spec
<1>5. Spec => []ApiBounds
  BY <1>2, ApiBoundsKept, ApiSteps, ServerInductive, PTL DEF Spec
<1>. QED  BY <1>3, <1>4, <1>5, ServerInductive, RequestsInductive, PTL

-----------------------------------------------------------------------------
(* All of them                                                             *)

\* An answer is whole, nobody else's and no refusal, a request is answered
\* whole and once, and what is listed resolves.
THEOREM AnswersStayWhole == Spec => []AnswersWhole
<1>1. Spec => []P!RefusalIsNoAnswer  BY CallsInductive, RefusalsAreNoAnswers, PTL
<1>2. Spec => []A!WholeRequests  BY RequestsInductive, RequestsAreWhole, PTL
<1>3. Spec => []R!ServicesResolve  BY ServicesInductive, ListedResolve, PTL
<1>4. P!RefusalIsNoAnswer /\ B!OwnAnswer /\ L!WholeList /\ A!WholeRequests /\ R!ServicesResolve
          => AnswersWhole
  BY DEF AnswersWhole
<1>. QED  BY <1>1, <1>2, <1>3, <1>4, AnswersAreOwn, ListsAreWhole, PTL

\* Of a definition every word is read once, in its place, and lost only where
\* letters, numbers or notes on forms say so; every service listed has one place.
THEOREM NothingIsLost == Spec => []NothingLost
BY DictionaryInductive, PlacesInductive, WordsKept, PlacesHold, PTL DEF NothingLost

\* The nine components keep to their types.
THEOREM ServicesTyped == Spec => []ServicesTypeOK
<1>1. CaptureInv => S!TypeOK  BY DEF CaptureInv
<1>2. UpdateInv => U!TypeOK  BY DEF UpdateInv
<1>3. SettingsInv => R!TypeOK  BY DEF SettingsInv
<1>4. A!TypeOK /\ S!TypeOK /\ B!TypeOK /\ D!TypeOK /\ P!TypeOK /\ L!TypeOK /\ R!TypeOK
      /\ E!TypeOK /\ U!TypeOK => ServicesTypeOK
  BY DEF ServicesTypeOK
<1>. QED
  BY <1>1, <1>2, <1>3, <1>4, CaptureInductive, UpdateInductive, PlacesInductive,
     DictionaryInductive, WordsKept, ServerTyped, BridgeTyped, AdaptersTyped, ListsTyped,
     EffectsTyped, PTL
=============================================================================
