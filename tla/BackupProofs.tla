---------------------------- MODULE BackupProofs ----------------------------
(***************************************************************************)
(* The safety of a restore for any number of targets and any contents.     *)
(*                                                                         *)
(* Each phase has a shape.  On the way forward a target behind the next    *)
(* step has moved and one before it has not; on the way back a target is   *)
(* still as it was, or its content is in the rollback directory and its    *)
(* place is free for it, unless a step back failed for it.  What the       *)
(* stores hold is what the targets held before, unless a way back left     *)
(* the two apart.                                                          *)
(***************************************************************************)
EXTENDS BackupInstall, TLAPS

\* A target that has not moved, one that waits in the rollback directory, and
\* one whose place is free.
InPlace(t) == data[t] = before[t] /\ rollback[t] = Absent
Saved(t) == rollback[t] = before[t]
Free(t) == data[t] = Absent \/ t \in torn

SaveInv ==
    pc = "save" =>
        /\ staging = archive /\ installed = {}
        /\ \A t \in Targets : IF t < at THEN Saved(t) /\ data[t] = Absent ELSE InPlace(t)

InstallInv ==
    pc = "install" =>
        \A t \in Targets :
            /\ Saved(t)
            /\ IF t < at THEN data[t] = archive[t] /\ (t \in installed \/ data[t] = Absent)
               ELSE data[t] = Absent /\ staging[t] = archive[t] /\ t \notin installed

ReloadInv ==
    pc = "reload" =>
        \A t \in Targets :
            Saved(t) /\ data[t] = archive[t] /\ (t \in installed \/ data[t] = Absent)

RemoveInv ==
    pc = "remove" =>
        \A t \in Targets :
            \/ InPlace(t) /\ t \notin installed
            \/ Saved(t) /\ (t \notin installed \/ t < at => Free(t))

BackInv ==
    pc = "back" =>
        \A t \in Targets \ torn :
            InPlace(t) \/ (t <= at /\ Saved(t) /\ data[t] = Absent)

CleanInv == pc = "clean" => \A t \in Targets \ torn : InPlace(t)

\* Between restores, and while no process runs.
RestInv ==
    pc \in {"idle", "down"} =>
        /\ \A t \in Targets : rollback[t] = Absent
        /\ ~died => \A t \in Targets \ torn : data[t] = before[t]

\* The stores and the files: as before the restore while it runs.
StoresInv ==
    /\ pc = "idle" => \A t \in Targets \ adrift : mem[t] = data[t]
    /\ pc \notin {"idle", "down"} =>
           /\ torn \subseteq adrift
           /\ \A t \in Targets \ adrift : mem[t] = before[t]

\* On the way forward nothing is torn and there is an archive.
ForwardInv == pc \in {"save", "install", "reload"} => torn = {} /\ archive \in Directory

IInv ==
    /\ TypeOK /\ ForwardInv
    /\ SaveInv /\ InstallInv /\ ReloadInv /\ RemoveInv /\ BackInv /\ CleanInv
    /\ RestInv /\ StoresInv /\ CopySurvives

-----------------------------------------------------------------------------
LEMMA TargetsFact ==
    /\ SettingsFile \in Targets /\ GlossaryFolder \in Targets
    /\ \A t \in Targets : t \in Int /\ 1 <= t /\ t <= N
    /\ Empty \in Directory /\ \A t \in Targets : Empty[t] = Absent
    /\ N \in Int
BY BackupAssumption DEF SettingsFile, GlossaryFolder, Targets, Empty, Directory

\* What a directory holds of a target.
LEMMA Contents ==
    ASSUME NEW d \in Directory, NEW t \in Targets
    PROVE  d[t] \in Versions \cup {Absent}
BY DEF Directory

\* A step that stays in a phase or goes to the next one stays in the targets.
LEMMA Turn ==
    ASSUME at \in Targets
    PROVE  /\ at < N => at + 1 \in Targets
           /\ at > 1 => at - 1 \in Targets
           /\ 1 \in Targets /\ N \in Targets
           /\ \A t \in Targets : /\ t < at + 1 <=> t < at \/ t = at
                                 /\ t <= at - 1 <=> t <= at /\ t # at
                                 /\ ~(at < N) => t < at \/ t = at
                                 /\ ~(at > 1) /\ t <= at => t = at
                                 /\ ~(t < 1) /\ t <= N
BY BackupAssumption DEF Targets

-----------------------------------------------------------------------------
LEMMA InitHolds == Init => IInv
<1>. SUFFICES ASSUME Init PROVE IInv
  OBVIOUS
<1>1. data \in Directory  BY BackupAssumption DEF Init, Directory
<1>2. left \in [Targets -> SUBSET Versions]  BY DEF Init
<1>3. TypeOK
  BY <1>1, <1>2, TargetsFact DEF Init, TypeOK, SettingsFile
<1>4. RestInv /\ StoresInv /\ CopySurvives
  BY TargetsFact DEF Init, RestInv, StoresInv, CopySurvives
<1>. QED
  BY <1>3, <1>4 DEF Init, IInv, ForwardInv, SaveInv, InstallInv, ReloadInv, RemoveInv,
                    BackInv, CleanInv

-----------------------------------------------------------------------------
(* Between restores                                                        *)

LEMMA WriteKeeps ==
    ASSUME IInv, NEW t \in Targets, NEW c \in Versions, Write(t, c)
    PROVE  IInv'
<1>. USE DEF IInv
<1>1. PICK w \in Versions : data' = [data EXCEPT ![t] = w]
  BY DEF Write
<1>2. /\ data' \in Directory /\ data'[t] = w
      /\ \A u \in Targets : u # t => data'[u] = data[u]
  BY <1>1 DEF TypeOK, Directory
<1>3. /\ mem' \in Directory /\ mem'[t] = c
      /\ \A u \in Targets : u # t => mem'[u] = mem[u]
  BY DEF Write, TypeOK, Directory
<1>4. before' = [before EXCEPT ![t] = w]  BY <1>2 DEF Write
<1>5. /\ before' \in Directory /\ before'[t] = w
      /\ \A u \in Targets : u # t => before'[u] = before[u]
  BY <1>4 DEF TypeOK, Directory
<1>6. /\ pc = "idle" /\ ops' = ops + 1 /\ torn' = torn \ {t}
      /\ UNCHANGED <<archive, pc, at, staging, rollback, installed, died, left>>
  BY DEF Write, Command
<1>7. \/ adrift' = adrift \ {t} /\ data'[t] = c
      \/ adrift' = adrift /\ data[t] # mem[t]
  BY <1>2 DEF Write, TypeOK, Directory
<1>8. TypeOK'
  BY <1>2, <1>3, <1>5, <1>6, <1>7 DEF TypeOK
<1>9. RestInv' /\ StoresInv'
  BY <1>2, <1>3, <1>5, <1>6, <1>7 DEF RestInv, StoresInv
<1>10. CopySurvives'
  BY <1>2, <1>5, <1>6 DEF CopySurvives
<1>. QED
  BY <1>6, <1>8, <1>9, <1>10
     DEF ForwardInv, SaveInv, InstallInv, ReloadInv, RemoveInv, BackInv, CleanInv

LEMMA ExportKeeps == ASSUME IInv, Export PROVE IInv'
<1>. USE DEF IInv
<1>1. archive' \in Directory
  <2>1. [data EXCEPT ![GlossaryFolder] = Fresh] \in Directory
    BY TargetsFact, BackupAssumption DEF TypeOK, Directory
  <2>. QED  BY <2>1 DEF Export, TypeOK
<1>2. /\ pc = "idle" /\ ops' = ops + 1
      /\ UNCHANGED <<data, mem, pc, at, staging, rollback, installed,
                     before, torn, adrift, died, left>>
  BY DEF Export, Command
<1>3. TypeOK'  BY <1>1, <1>2 DEF TypeOK
<1>4. RestInv' /\ StoresInv' /\ CopySurvives'
  BY <1>2 DEF RestInv, StoresInv, CopySurvives
<1>. QED
  BY <1>2, <1>3, <1>4
     DEF ForwardInv, SaveInv, InstallInv, ReloadInv, RemoveInv, BackInv, CleanInv

LEMMA BeginKeeps == ASSUME IInv, Begin PROVE IInv'
<1>. USE DEF IInv
<1>1. /\ pc = "idle" /\ pc' = "save" /\ at' = 1 /\ ops' = ops + 1
      /\ archive \in Directory /\ staging' = archive /\ installed' = {}
      /\ before' = data /\ torn' = {} /\ died' = FALSE
      /\ UNCHANGED <<data, mem, archive, rollback, adrift, left>>
  BY DEF Begin, Command, TypeOK
<1>2. \A u \in Targets : ~(u < 1)  BY TargetsFact
<1>3. TypeOK'
  <2>1. at' \in Targets  BY <1>1, TargetsFact DEF SettingsFile
  <2>2. died' \in BOOLEAN  BY <1>1
  <2>3. ops' \in Nat  BY <1>1 DEF TypeOK
  <2>. QED  BY <1>1, <2>1, <2>2, <2>3 DEF TypeOK
<1>4. SaveInv'  BY <1>1, <1>2 DEF SaveInv, InPlace, RestInv
<1>5. ForwardInv' /\ StoresInv' /\ CopySurvives'
  BY <1>1 DEF ForwardInv, StoresInv, CopySurvives
<1>. QED
  BY <1>1, <1>3, <1>4, <1>5
     DEF InstallInv, ReloadInv, RemoveInv, BackInv, CleanInv, RestInv

-----------------------------------------------------------------------------
(* Forward                                                                 *)

LEMMA SaveKeeps == ASSUME IInv, Save PROVE IInv'
<1>. USE DEF IInv
<1>1. /\ rollback' \in Directory /\ rollback'[at] = data[at]
      /\ \A u \in Targets : u # at => rollback'[u] = rollback[u]
  BY Contents DEF Save, TypeOK, Directory
<1>2. /\ data' \in Directory /\ data'[at] = Absent
      /\ \A u \in Targets : u # at => data'[u] = data[u]
  BY DEF Save, TypeOK, Directory
<1>3. /\ pc = "save"
      /\ UNCHANGED <<mem, archive, staging, installed, before, torn, adrift, died, left, ops>>
  BY DEF Save, ghosts
<1>4. /\ staging = archive /\ installed = {} /\ torn = {} /\ archive \in Directory
      /\ \A u \in Targets : IF u < at THEN Saved(u) /\ data[u] = Absent ELSE InPlace(u)
  BY <1>3 DEF SaveInv, ForwardInv
<1>5. \A u \in Targets : u < at \/ u = at => Saved(u)' /\ data'[u] = Absent
  BY <1>1, <1>2, <1>3, <1>4, TargetsFact DEF Saved, InPlace, TypeOK
<1>6. \A u \in Targets : ~(u < at \/ u = at) => InPlace(u)'
  BY <1>1, <1>2, <1>3, <1>4 DEF InPlace
<1>7. CopySurvives'
  BY <1>3, <1>5, <1>6 DEF CopySurvives, Saved, InPlace
<1>8. CASE at < N /\ pc' = "save" /\ at' = at + 1
  <2>1. TypeOK'  BY <1>1, <1>2, <1>3, <1>8, Turn DEF TypeOK
  <2>2. SaveInv'  BY <1>3, <1>4, <1>5, <1>6, <1>8, Turn DEF SaveInv, TypeOK
  <2>3. StoresInv'  BY <1>3, <1>8 DEF StoresInv
  <2>. QED
    BY <1>3, <1>4, <1>7, <1>8, <2>1, <2>2, <2>3
       DEF ForwardInv, InstallInv, ReloadInv, RemoveInv, BackInv, CleanInv, RestInv
<1>9. CASE ~(at < N) /\ pc' = "install" /\ at' = 1
  <2>1. TypeOK'  BY <1>1, <1>2, <1>3, <1>9, Turn DEF TypeOK
  <2>2. InstallInv'
    BY <1>3, <1>4, <1>5, <1>9, Turn DEF InstallInv, TypeOK
  <2>3. StoresInv'  BY <1>3, <1>9 DEF StoresInv
  <2>. QED
    BY <1>3, <1>4, <1>7, <1>9, <2>1, <2>2, <2>3
       DEF ForwardInv, SaveInv, ReloadInv, RemoveInv, BackInv, CleanInv, RestInv
<1>. QED  BY <1>8, <1>9 DEF Save, Forward

LEMMA InstallKeeps == ASSUME IInv, Install PROVE IInv'
<1>. USE DEF IInv
<1>1. /\ data' \in Directory /\ data'[at] = staging[at]
      /\ \A u \in Targets : u # at => data'[u] = data[u]
  BY Contents DEF Install, TypeOK, Directory
<1>2. /\ staging' \in Directory
      /\ \A u \in Targets : u # at => staging'[u] = staging[u]
  BY DEF Install, TypeOK, Directory
<1>3. /\ pc = "install"
      /\ installed' = IF staging[at] = Absent THEN installed ELSE installed \cup {at}
      /\ UNCHANGED <<mem, archive, rollback, before, torn, adrift, died, left, ops>>
  BY DEF Install, ghosts
<1>4. /\ torn = {} /\ archive \in Directory /\ at \in Targets
      /\ \A u \in Targets :
            /\ Saved(u)
            /\ IF u < at THEN data[u] = archive[u] /\ (u \in installed \/ data[u] = Absent)
               ELSE data[u] = Absent /\ staging[u] = archive[u] /\ u \notin installed
  BY <1>3 DEF InstallInv, ForwardInv, TypeOK
<1>5. ~(at < at)  BY <1>4, TargetsFact
<1>6. \A u \in Targets : Saved(u)'  BY <1>3, <1>4 DEF Saved
<1>7. \A u \in Targets : u < at \/ u = at =>
          data'[u] = archive[u] /\ (u \in installed' \/ data'[u] = Absent)
  BY <1>1, <1>3, <1>4, <1>5
<1>8. \A u \in Targets : ~(u < at \/ u = at) =>
          data'[u] = Absent /\ staging'[u] = archive[u] /\ u \notin installed'
  BY <1>1, <1>2, <1>3, <1>4
<1>9. CopySurvives'  BY <1>3, <1>6 DEF CopySurvives, Saved
<1>10. CASE at < N /\ pc' = "install" /\ at' = at + 1
  <2>1. TypeOK'  BY <1>1, <1>2, <1>3, <1>4, <1>10, Turn DEF TypeOK
  <2>2. InstallInv'
    BY <1>3, <1>4, <1>6, <1>7, <1>8, <1>10, Turn DEF InstallInv
  <2>3. StoresInv'  BY <1>3, <1>10 DEF StoresInv
  <2>. QED
    BY <1>3, <1>4, <1>9, <1>10, <2>1, <2>2, <2>3
       DEF ForwardInv, SaveInv, ReloadInv, RemoveInv, BackInv, CleanInv, RestInv
<1>11. CASE ~(at < N) /\ pc' = "reload" /\ at' = 1
  <2>1. TypeOK'  BY <1>1, <1>2, <1>3, <1>4, <1>11, Turn DEF TypeOK
  <2>2. ReloadInv'
    BY <1>3, <1>4, <1>6, <1>7, <1>11, Turn DEF ReloadInv
  <2>3. StoresInv'  BY <1>3, <1>11 DEF StoresInv
  <2>. QED
    BY <1>3, <1>4, <1>9, <1>11, <2>1, <2>2, <2>3
       DEF ForwardInv, SaveInv, InstallInv, RemoveInv, BackInv, CleanInv, RestInv
<1>. QED  BY <1>10, <1>11 DEF Install, Forward

LEMMA FailKeeps == ASSUME IInv, Fail PROVE IInv'
<1>. USE DEF IInv
<1>1. /\ pc \in {"save", "install", "reload"} /\ pc' = "remove" /\ at' = 1
      /\ UNCHANGED <<data, mem, archive, staging, rollback, installed,
                     before, torn, adrift, died, left, ops>>
  BY DEF Fail, ghosts
<1>2. TypeOK'  BY <1>1, Turn DEF TypeOK
<1>3. \A u \in Targets :
          \/ InPlace(u) /\ u \notin installed
          \/ Saved(u) /\ (u \notin installed => data[u] = Absent)
  <2>1. CASE pc = "save"  BY <2>1 DEF SaveInv
  <2>2. CASE pc = "install"  BY <2>2 DEF InstallInv
  <2>3. CASE pc = "reload"  BY <2>3 DEF ReloadInv
  <2>. QED  BY <1>1, <2>1, <2>2, <2>3
<1>4. RemoveInv'
  BY <1>1, <1>3, TargetsFact DEF RemoveInv, InPlace, Saved, Free
<1>5. StoresInv' /\ CopySurvives'  BY <1>1 DEF StoresInv, CopySurvives
<1>. QED
  BY <1>1, <1>2, <1>4, <1>5
     DEF ForwardInv, SaveInv, InstallInv, ReloadInv, BackInv, CleanInv, RestInv

LEMMA CommitKeeps == ASSUME IInv, Commit PROVE IInv'
<1>. USE DEF IInv
<1>1. /\ pc = "reload" /\ pc' = "idle" /\ rollback' = Empty /\ mem' = data
      /\ before' = archive /\ adrift' = {} /\ archive \in Directory
      /\ UNCHANGED <<data, archive, at, staging, installed, torn, died, left, ops>>
  BY DEF Commit, ForwardInv
<1>2. \A u \in Targets : data[u] = archive[u]  BY <1>1 DEF ReloadInv
<1>3. TypeOK'  BY <1>1, TargetsFact DEF TypeOK
<1>4. RestInv' /\ StoresInv' /\ CopySurvives'
  BY <1>1, <1>2, TargetsFact DEF RestInv, StoresInv, CopySurvives
<1>. QED
  BY <1>1, <1>3, <1>4
     DEF ForwardInv, SaveInv, InstallInv, ReloadInv, RemoveInv, BackInv, CleanInv

-----------------------------------------------------------------------------
(* The way back                                                            *)

LEMMA RemoveKeeps == ASSUME IInv, Remove PROVE IInv'
<1>. USE DEF IInv
<1>1. /\ pc = "remove" /\ at \in Targets
      /\ UNCHANGED <<mem, archive, staging, rollback, installed, before, died, left, ops>>
  BY DEF Remove, TypeOK
<1>2. /\ data' \in Directory
      /\ \A u \in Targets : u # at \/ u \notin installed => data'[u] = data[u]
      /\ data'[at] \in {data[at], Absent}
      /\ at \in installed => data'[at] = Absent \/ at \in torn'
  BY DEF Remove, TypeOK, Directory
<1>3. /\ torn \subseteq torn' /\ torn' \subseteq Targets
      /\ adrift' \subseteq Targets /\ torn' \subseteq adrift' /\ adrift \subseteq adrift'
  BY <1>1 DEF Remove, TypeOK, StoresInv
<1>4. \A u \in Targets :
          \/ InPlace(u)' /\ u \notin installed
          \/ Saved(u)' /\ (u \notin installed \/ u < at \/ u = at => Free(u)')
  <2>. SUFFICES ASSUME NEW u \in Targets
                PROVE  \/ InPlace(u)' /\ u \notin installed
                       \/ Saved(u)' /\ (u \notin installed \/ u < at \/ u = at => Free(u)')
    OBVIOUS
  <2>1. CASE InPlace(u) /\ u \notin installed
    BY <1>1, <1>2, <2>1 DEF InPlace
  <2>2. CASE Saved(u) /\ (u \notin installed \/ u < at => Free(u))
    BY <1>1, <1>2, <1>3, <2>2 DEF Saved, Free
  <2>. QED  BY <1>1, <2>1, <2>2 DEF RemoveInv
<1>5. CopySurvives'
  BY <1>1, <1>4 DEF CopySurvives, InPlace, Saved
<1>6. StoresInv' \/ pc' \notin {"remove", "back"}
  BY <1>1, <1>3 DEF StoresInv
<1>7. CASE at < N /\ pc' = "remove" /\ at' = at + 1
  <2>1. TypeOK'  BY <1>1, <1>2, <1>3, <1>7, Turn DEF TypeOK
  <2>2. RemoveInv'  BY <1>1, <1>4, <1>7, Turn DEF RemoveInv
  <2>. QED
    BY <1>1, <1>5, <1>6, <1>7, <2>1, <2>2
       DEF ForwardInv, SaveInv, InstallInv, ReloadInv, BackInv, CleanInv, RestInv
<1>8. CASE ~(at < N) /\ pc' = "back" /\ at' = N
  <2>1. TypeOK'  BY <1>1, <1>2, <1>3, <1>8, Turn DEF TypeOK
  <2>2. \A u \in Targets : u <= N /\ (u < at \/ u = at)
    BY <1>1, <1>8, Turn, TargetsFact
  <2>3. BackInv'  BY <1>1, <1>4, <1>8, <2>2 DEF BackInv, InPlace, Saved, Free
  <2>. QED
    BY <1>1, <1>5, <1>6, <1>8, <2>1, <2>3
       DEF ForwardInv, SaveInv, InstallInv, ReloadInv, RemoveInv, CleanInv, RestInv
<1>. QED  BY <1>7, <1>8 DEF Remove

LEMMA BackKeeps == ASSUME IInv, Back PROVE IInv'
<1>. USE DEF IInv
<1>1. /\ pc = "back" /\ at \in Targets
      /\ UNCHANGED <<mem, archive, staging, installed, before, died, left, ops>>
  BY DEF Back, TypeOK
<1>2. /\ data' \in Directory /\ rollback' \in Directory
      /\ \A u \in Targets : u # at => data'[u] = data[u] /\ rollback'[u] = rollback[u]
      /\ \/ at \in torn'
         \/ rollback[at] = Absent /\ data' = data /\ rollback' = rollback
         \/ data'[at] = rollback[at] /\ rollback'[at] = Absent
  <2>1. CASE (rollback[at] = Absent \/ at \in torn') /\ UNCHANGED <<data, rollback>>
    BY <2>1 DEF TypeOK
  <2>2. CASE /\ data' = [data EXCEPT ![at] = rollback[at]]
             /\ rollback' = [rollback EXCEPT ![at] = Absent]
    BY <2>2 DEF TypeOK, Directory
  <2>. QED  BY <2>1, <2>2 DEF Back
<1>3. /\ torn \subseteq torn' /\ torn' \subseteq Targets
      /\ adrift' \subseteq Targets /\ torn' \subseteq adrift' /\ adrift \subseteq adrift'
  BY <1>1 DEF Back, TypeOK, StoresInv
<1>4. \A u \in Targets \ torn' :
          InPlace(u)' \/ (u <= at /\ u # at /\ Saved(u)' /\ data'[u] = Absent)
  <2>. SUFFICES ASSUME NEW u \in Targets \ torn'
                PROVE  InPlace(u)' \/ (u <= at /\ u # at /\ Saved(u)' /\ data'[u] = Absent)
    OBVIOUS
  <2>1. InPlace(u) \/ (u <= at /\ Saved(u) /\ data[u] = Absent)
    BY <1>1, <1>3 DEF BackInv
  <2>2. CASE u # at  BY <1>1, <1>2, <2>1, <2>2 DEF InPlace, Saved
  <2>3. CASE u = at /\ rollback[at] = Absent /\ data' = data /\ rollback' = rollback
    BY <1>1, <2>1, <2>3 DEF InPlace, Saved
  <2>4. CASE u = at /\ rollback[at] # Absent /\ data'[at] = rollback[at]
             /\ rollback'[at] = Absent
    BY <1>1, <2>1, <2>4 DEF InPlace, Saved
  <2>5. CASE u = at /\ rollback[at] = Absent /\ data'[at] = rollback[at]
             /\ rollback'[at] = Absent
    <3>1. data'[at] = data[at] \/ data[at] = Absent
      BY <2>5 DEF Back
    <3>. QED  BY <1>1, <2>1, <2>5, <3>1 DEF InPlace, Saved
  <2>. QED  BY <1>2, <2>2, <2>3, <2>4, <2>5
<1>5. CopySurvives'
  BY <1>1, <1>4 DEF CopySurvives, InPlace, Saved
<1>6. StoresInv' \/ pc' \notin {"back", "clean"}
  BY <1>1, <1>3 DEF StoresInv
<1>7. CASE at > 1 /\ pc' = "back" /\ at' = at - 1
  <2>1. TypeOK'  BY <1>1, <1>2, <1>3, <1>7, Turn DEF TypeOK
  <2>2. BackInv'  BY <1>1, <1>4, <1>7, Turn DEF BackInv
  <2>. QED
    BY <1>1, <1>5, <1>6, <1>7, <2>1, <2>2
       DEF ForwardInv, SaveInv, InstallInv, ReloadInv, RemoveInv, CleanInv, RestInv
<1>8. CASE ~(at > 1) /\ pc' = "clean" /\ at' = 1
  <2>1. TypeOK'  BY <1>1, <1>2, <1>3, <1>8, Turn DEF TypeOK
  <2>2. CleanInv'  BY <1>1, <1>4, <1>8, Turn DEF CleanInv
  <2>. QED
    BY <1>1, <1>5, <1>6, <1>8, <2>1, <2>2
       DEF ForwardInv, SaveInv, InstallInv, ReloadInv, RemoveInv, BackInv, RestInv
<1>. QED  BY <1>7, <1>8 DEF Back

LEMMA CleanKeeps == ASSUME IInv, Clean PROVE IInv'
<1>. USE DEF IInv
<1>1. /\ pc = "clean" /\ pc' = "idle" /\ rollback' = Empty
      /\ UNCHANGED <<data, mem, archive, at, staging, installed,
                     before, torn, adrift, died, left, ops>>
  BY DEF Clean, ghosts
<1>2. \A u \in Targets \ torn : data[u] = before[u]  BY <1>1 DEF CleanInv, InPlace
<1>3. TypeOK'  BY <1>1, TargetsFact DEF TypeOK
<1>4. RestInv' /\ StoresInv' /\ CopySurvives'
  BY <1>1, <1>2, TargetsFact DEF RestInv, StoresInv, CopySurvives
<1>. QED
  BY <1>1, <1>3, <1>4
     DEF ForwardInv, SaveInv, InstallInv, ReloadInv, RemoveInv, BackInv, CleanInv

-----------------------------------------------------------------------------
(* Death and restart                                                       *)

LEMMA CrashKeeps == ASSUME IInv, Crash PROVE IInv'
<1>. USE DEF IInv
<1>1. /\ pc # "down" /\ pc' = "down" /\ at' = 1 /\ rollback' = Empty /\ ops' = ops + 1
      /\ UNCHANGED <<data, mem, archive, staging, installed, before, torn, adrift>>
  BY DEF Crash, Command
<1>2. left' = [t \in Targets |-> left[t] \cup ({rollback[t]} \ {Absent})]
  BY DEF Crash
<1>3. left' \in [Targets -> SUBSET Versions]
  BY <1>2, Contents DEF TypeOK
<1>4. died' \in BOOLEAN /\ (~died' => pc = "idle" /\ ~died)
  <2>1. died' = (died \/ Restoring)  BY DEF Crash
  <2>2. Restoring \/ pc = "idle"  BY <1>1 DEF Restoring, TypeOK
  <2>3. CASE Restoring  BY <2>1, <2>3
  <2>4. CASE ~Restoring  BY <2>1, <2>2, <2>4 DEF TypeOK
  <2>. QED  BY <2>3, <2>4
<1>5. TypeOK'
  <2>1. at' \in Targets  BY <1>1, TargetsFact DEF SettingsFile
  <2>2. ops' \in Nat  BY <1>1 DEF TypeOK
  <2>. QED  BY <1>1, <1>3, <1>4, <2>1, <2>2, TargetsFact DEF TypeOK
<1>6. RestInv'  BY <1>1, <1>4, TargetsFact DEF RestInv
<1>7. CopySurvives'  BY <1>1, <1>2 DEF CopySurvives
<1>. QED
  BY <1>1, <1>5, <1>6, <1>7
     DEF ForwardInv, SaveInv, InstallInv, ReloadInv, RemoveInv, BackInv, CleanInv, StoresInv

LEMMA RestartKeeps == ASSUME IInv, Restart PROVE IInv'
<1>. USE DEF IInv
<1>1. /\ pc = "down" /\ pc' = "idle" /\ mem' = data' /\ adrift' = {}
      /\ UNCHANGED <<archive, at, staging, rollback, installed, torn, died, left, ops>>
  BY DEF Restart
<1>2. /\ data' \in Directory
      /\ data'[SettingsFile] =
             IF data[SettingsFile] = Absent THEN Fresh ELSE data[SettingsFile]
      /\ \A u \in Targets : u # SettingsFile => data'[u] = data[u]
  BY TargetsFact, BackupAssumption DEF Restart, TypeOK, Directory
<1>3. /\ before' \in Directory
      /\ before'[SettingsFile] =
             IF before[SettingsFile] = Absent THEN data'[SettingsFile] ELSE before[SettingsFile]
      /\ \A u \in Targets : u # SettingsFile => before'[u] = before[u]
  BY <1>2, TargetsFact, BackupAssumption DEF Restart, TypeOK, Directory
<1>4. TypeOK'  BY <1>1, <1>2, <1>3 DEF TypeOK
<1>5. RestInv'
  BY <1>1, <1>2, <1>3, BackupAssumption DEF RestInv
<1>6. CopySurvives'
  BY <1>1, <1>2, <1>3, TargetsFact DEF CopySurvives, RestInv
<1>7. StoresInv'  BY <1>1 DEF StoresInv
<1>. QED
  BY <1>1, <1>4, <1>5, <1>6, <1>7
     DEF ForwardInv, SaveInv, InstallInv, ReloadInv, RemoveInv, BackInv, CleanInv

-----------------------------------------------------------------------------
LEMMA StepKeeps == ASSUME IInv, [Next]_vars PROVE IInv'
<1>1. CASE UNCHANGED vars
  <2>1. UNCHANGED <<data, mem, archive, pc, at, staging, rollback, installed,
                    before, torn, adrift, died, left, ops>>
    BY <1>1 DEF vars, ghosts
  <2>. QED
    BY <2>1 DEF IInv, TypeOK, ForwardInv, SaveInv, InstallInv, ReloadInv, RemoveInv, BackInv,
                CleanInv, RestInv, StoresInv, CopySurvives, InPlace, Saved, Free
<1>2. CASE Next
  BY <1>2, WriteKeeps, ExportKeeps, BeginKeeps, SaveKeeps, InstallKeeps, FailKeeps,
     CommitKeeps, RemoveKeeps, BackKeeps, CleanKeeps, CrashKeeps, RestartKeeps DEF Next
<1>. QED  BY <1>1, <1>2

\* The invariant holds in every reachable state.
THEOREM Inductive == Spec => []IInv
<1>1. IInv /\ [Next]_vars => IInv'  BY StepKeeps
<1>. QED  BY <1>1, InitHolds, PTL DEF Spec

\* A restore that comes back alive changed every target or none, but for those
\* of which a step back failed, and the stores hold what the files do.
THEOREM RestoresAllOrNothing == Spec => []AllOrNothing
<1>1. IInv => AllOrNothing  BY DEF IInv, RestInv, StoresInv, AllOrNothing
<1>. QED  BY <1>1, Inductive, PTL

\* No content a restore moves is lost, whatever fails and whenever the process
\* dies, unless a step back failed for it.
THEOREM CopiesSurvive == Spec => []CopySurvives
<1>1. IInv => CopySurvives  BY DEF IInv
<1>. QED  BY <1>1, Inductive, PTL
=============================================================================
