---------------------------- MODULE WindowsProofs ----------------------------
(***************************************************************************)
(* The results about the windows' side of the settings, for any providers, *)
(* secrets, screens and sections.                                          *)
(*                                                                         *)
(* Credentials.  A flow that no other flow disturbs knows what it has done *)
(* by each of its steps; that is an invariant because the flags of calm    *)
(* say of the other flows that they are at another provider.  While all    *)
(* is smooth, the runtime's credential of a provider is the vault's unless *)
(* a flow is still at it.                                                  *)
(*                                                                         *)
(* Cache.  A section the copy is behind in is cared for: its change waits  *)
(* in the channel or was counted as missed, a flow has a reload of it to   *)
(* run, or the answer with its last state is on the way.  Answers of one   *)
(* section only get newer along the way, so none takes a copy back.        *)
(***************************************************************************)
EXTENDS MC_Windows, SequenceTheorems, TLAPS

\* What the runtime should work with.
Wanted(p) == IF settings[p] = "ref" THEN vault[p] ELSE None

\* What an undisturbed save has done.
CalmSave ==
    /\ load.step = "idle" /\ del.p # save.p
    /\ save.typed # None => save.ref
    /\ save.step \in {"write", "commit"} /\ settings[save.p] = "ref" => save.ref
    /\ save.step # "write" /\ save.typed # None => vault[save.p] = save.typed
    /\ save.step \in {"read", "set", "reload"} =>
           settings[save.p] = IF save.ref THEN "ref" ELSE "plain"
    /\ save.step = "set" => save.value = Wanted(save.p)
    /\ save.step = "reload" => secrets[save.p] = Wanted(save.p)

SaveInv ==
    /\ save.step = "idle" => save.p = None
    /\ save.step # "idle" => save.p \in Providers
    /\ save.step # "idle" /\ save.calm => CalmSave

\* What an undisturbed deletion has done.
CalmDelete ==
    /\ load.step = "idle" /\ del.p # save.p
    /\ del.step \in {"remove", "reload"} /\ del.field => vault[del.p] = None
    /\ del.step = "reload" => settings[del.p] = "absent"

DeleteInv ==
    /\ del.step = "idle" => del.p = None
    /\ del.step # "idle" => del.p \in Providers
    /\ del.step # "idle" /\ del.calm => CalmDelete

\* A flow is at the provider.
Busy(p) ==
    \/ p = save.p \/ p = del.p
    \/ load.step = "list"
    \/ load.step \in {"next", "set"} /\ (p = load.p \/ \E e \in load.todo : e.p = p)

SmoothState ==
    /\ save.step # "idle" => save.calm
    /\ del.step # "idle" => del.calm
    /\ load.step # "idle" => save.step = "idle" /\ del.step = "idle"
    /\ load.step \in {"next", "set"} =>
           \A e \in load.todo : e.ref <=> settings[e.p] = "ref"
    /\ load.step = "set" => load.value = Wanted(load.p)
    /\ \A p \in Providers : Busy(p) \/ secrets[p] = Wanted(p)

LoadInv ==
    /\ load.step = "set" => load.p \in Providers
    /\ load.step # "set" => load.p = None

FlowsInv == SaveInv /\ DeleteInv /\ LoadInv

CredentialsInv ==
    /\ TypeOK /\ NoGhost /\ FlowsInv
    /\ smooth => SmoothState

-----------------------------------------------------------------------------
\* Along the answers on their way a section only gets newer.
InboxInv ==
    /\ \A s \in C!Sections : cache[s] <= truth[s]
    /\ \A i \in 1 .. Len(inbox) : inbox[i].section # "none" =>
           /\ cache[inbox[i].section] <= inbox[i].value
           /\ inbox[i].value <= truth[inbox[i].section]
    /\ \A i, j \in 1 .. Len(inbox) :
           i < j /\ inbox[i].section = inbox[j].section /\ inbox[i].section # "none" =>
               inbox[i].value <= inbox[j].value

\* What will still bring a section's last state to the copy: a change the
\* consumer has not taken, a reload some flow has to run, or the answer itself.
Told(s) == \E i \in 1 .. Len(buffer) : s \in C!ToSet(C!Reloads(buffer[i]))
Planned(s) ==
    \E t \in C!Tasks :
        \/ s \in C!ToSet(task[t].todo)
        \/ \E i \in 1 .. Len(task[t].plan) : s \in C!ToSet(task[t].plan[i])
Answered(s) == \E i \in 1 .. Len(inbox) : inbox[i].section = s /\ inbox[i].value = truth[s]

Cared(s) == cache[s] = truth[s] \/ s \in missed \/ Told(s) \/ Planned(s) \/ Answered(s)

CacheInv ==
    /\ C!TypeOK /\ InboxInv
    /\ \A s \in C!Sections \ {"general"} : Cared(s)

-----------------------------------------------------------------------------
(* Credentials: the types                                                  *)

LEMMA StepTyped == ASSUME CredentialsInv, [Next]_vars PROVE TypeOK'
<1>. USE DEF CredentialsInv, TypeOK
<1>1. ASSUME NEW p \in Providers, NEW typed \in Value, StartSave(p, typed) PROVE TypeOK'
  <2>1. save' \in Saves  BY <1>1 DEF StartSave, Saves, Value
  <2>2. del' \in Deletes  BY <1>1 DEF StartSave, Deletes
  <2>3. flows' \in 0 .. MaxFlows  BY <1>1, CredentialsAssumption DEF StartSave, Started
  <2>4. smooth' \in BOOLEAN  BY <1>1 DEF StartSave
  <2>5. UNCHANGED <<settings, backup, vault, secrets, store, load>>  BY <1>1 DEF StartSave
  <2>. QED  BY <2>1, <2>2, <2>3, <2>4, <2>5
<1>2. CASE SaveWrites
  <2>1. save' \in Saves  BY <1>2 DEF SaveWrites, Saves
  <2>2. vault' \in [Providers -> Value]  BY <1>2 DEF SaveWrites, Saves
  <2>3. UNCHANGED <<settings, backup, secrets, store, del, load, flows, smooth>>  BY <1>2 DEF SaveWrites
  <2>. QED  BY <2>1, <2>2, <2>3
<1>3. CASE SaveCommits
  <2>1. save' \in Saves  BY <1>3 DEF SaveCommits, Saves
  <2>2. settings' \in [Providers -> Entry]  BY <1>3 DEF SaveCommits, Saves, Entry
  <2>3. UNCHANGED <<backup, vault, secrets, store, del, load, flows, smooth>>  BY <1>3 DEF SaveCommits
  <2>. QED  BY <2>1, <2>2, <2>3
<1>4. CASE SaveReads
  <2>1. save' \in Saves
    <3>1. vault[save.p] \in Value  BY <1>4 DEF SaveReads, FlowsInv, SaveInv
    <3>2. (IF save.ref THEN vault[save.p] ELSE None) \in Value  BY <3>1 DEF Value
    <3>. QED  BY <1>4, <3>2 DEF SaveReads, Saves
  <2>2. UNCHANGED <<settings, backup, vault, secrets, store, del, load, flows, smooth>>  BY <1>4 DEF SaveReads
  <2>. QED  BY <2>1, <2>2
<1>5. CASE SaveSets
  <2>1. save' \in Saves  BY <1>5 DEF SaveSets, Saves
  <2>2. secrets' \in [Providers -> Value]  BY <1>5 DEF SaveSets, SetSecrets, Saves
  <2>3. UNCHANGED <<settings, backup, vault, store, del, load, flows, smooth>>  BY <1>5 DEF SaveSets
  <2>. QED  BY <2>1, <2>2, <2>3
<1>6. CASE SaveEnds
  <2>1. save' \in Saves  BY <1>6 DEF SaveEnds, Saves, IdleSave, Value
  <2>2. store' \in [Providers -> Entry]  BY <1>6 DEF SaveEnds
  <2>3. UNCHANGED <<settings, backup, vault, secrets, del, load, flows, smooth>>  BY <1>6 DEF SaveEnds
  <2>. QED  BY <2>1, <2>2, <2>3
<1>7. CASE SaveFails
  <2>1. save' \in Saves  BY <1>7 DEF SaveFails, Saves, IdleSave, Value
  <2>2. smooth' \in BOOLEAN  BY <1>7 DEF SaveFails
  <2>3. UNCHANGED <<settings, backup, vault, secrets, store, del, load, flows>>  BY <1>7 DEF SaveFails
  <2>. QED  BY <2>1, <2>2, <2>3
<1>8. ASSUME NEW p \in Providers, StartDelete(p) PROVE TypeOK'
  <2>1. save' \in Saves  BY <1>8 DEF StartDelete, Saves
  <2>2. del' \in Deletes  BY <1>8 DEF StartDelete, Deletes
  <2>3. flows' \in 0 .. MaxFlows  BY <1>8, CredentialsAssumption DEF StartDelete, Started
  <2>4. smooth' \in BOOLEAN  BY <1>8 DEF StartDelete
  <2>5. UNCHANGED <<settings, backup, vault, secrets, store, load>>  BY <1>8 DEF StartDelete
  <2>. QED  BY <2>1, <2>2, <2>3, <2>4, <2>5
<1>9. CASE DeleteLooks
  <2>1. del' \in Deletes  BY <1>9 DEF DeleteLooks, Deletes
  <2>2. UNCHANGED <<settings, backup, vault, secrets, store, save, load, flows, smooth>>  BY <1>9 DEF DeleteLooks
  <2>. QED  BY <2>1, <2>2
<1>10. CASE DeleteErases
  <2>1. del' \in Deletes  BY <1>10 DEF DeleteErases, Deletes
  <2>2. vault' \in [Providers -> Value]  BY <1>10 DEF DeleteErases, Value
  <2>3. UNCHANGED <<settings, backup, secrets, store, save, load, flows, smooth>>  BY <1>10 DEF DeleteErases
  <2>. QED  BY <2>1, <2>2, <2>3
<1>11. CASE DeleteRemoves
  <2>1. del' \in Deletes  BY <1>11 DEF DeleteRemoves, Deletes
  <2>2. settings' \in [Providers -> Entry]  BY <1>11 DEF DeleteRemoves, Entry
  <2>3. secrets' \in [Providers -> Value]  BY <1>11 DEF DeleteRemoves, Value
  <2>4. UNCHANGED <<backup, vault, store, save, load, flows, smooth>>  BY <1>11 DEF DeleteRemoves
  <2>. QED  BY <2>1, <2>2, <2>3, <2>4
<1>12. CASE DeleteEnds
  <2>1. del' \in Deletes  BY <1>12 DEF DeleteEnds, Deletes, IdleDelete
  <2>2. store' \in [Providers -> Entry]  BY <1>12 DEF DeleteEnds
  <2>3. UNCHANGED <<settings, backup, vault, secrets, save, load, flows, smooth>>  BY <1>12 DEF DeleteEnds
  <2>. QED  BY <2>1, <2>2, <2>3
<1>13. CASE DeleteFails
  <2>1. del' \in Deletes  BY <1>13 DEF DeleteFails, Deletes, IdleDelete
  <2>2. smooth' \in BOOLEAN  BY <1>13 DEF DeleteFails
  <2>3. UNCHANGED <<settings, backup, vault, secrets, store, save, load, flows>>  BY <1>13 DEF DeleteFails
  <2>. QED  BY <2>1, <2>2, <2>3
<1>14. CASE Export
  <2>1. backup' \in [Providers -> Entry]  BY <1>14 DEF Export
  <2>2. flows' \in 0 .. MaxFlows  BY <1>14, CredentialsAssumption DEF Export, Started
  <2>3. UNCHANGED <<settings, vault, secrets, store, save, del, load, smooth>>  BY <1>14 DEF Export
  <2>. QED  BY <2>1, <2>2, <2>3
<1>15. CASE StartRestore
  <2>1. save' \in Saves  BY <1>15 DEF StartRestore, Saves
  <2>2. del' \in Deletes  BY <1>15 DEF StartRestore, Deletes
  <2>3. load' \in Loads  BY <1>15 DEF StartRestore, Loads, IdleLoad, Value
  <2>4. flows' \in 0 .. MaxFlows  BY <1>15, CredentialsAssumption DEF StartRestore, Started
  <2>5. smooth' \in BOOLEAN  BY <1>15 DEF StartRestore
  <2>6. UNCHANGED <<settings, backup, vault, secrets, store>>  BY <1>15 DEF StartRestore
  <2>. QED  BY <2>1, <2>2, <2>3, <2>4, <2>5, <2>6
<1>16. CASE Restores
  <2>1. load' \in Loads  BY <1>16 DEF Restores, Loads
  <2>2. settings' \in [Providers -> Entry]  BY <1>16 DEF Restores
  <2>3. secrets' \in [Providers -> Value]  BY <1>16 DEF Restores, Value
  <2>4. UNCHANGED <<backup, vault, store, save, del, flows, smooth>>  BY <1>16 DEF Restores
  <2>. QED  BY <2>1, <2>2, <2>3, <2>4
<1>17. CASE LoadLists
  <2>1. {[p |-> p, ref |-> settings[p] = "ref"] : p \in {q \in Providers : settings[q] # "absent"}}
            \subseteq [p : Providers, ref : BOOLEAN]
    <3>1. ASSUME NEW p \in Providers, NEW b, b \in BOOLEAN
          PROVE  [p |-> p, ref |-> b] \in [p : Providers, ref : BOOLEAN]
      BY <3>1
    <3>2. \A p \in Providers : (settings[p] = "ref") \in BOOLEAN  OBVIOUS
    <3>3. \A p \in Providers :
              [p |-> p, ref |-> settings[p] = "ref"] \in [p : Providers, ref : BOOLEAN]
      BY <3>1, <3>2, Zenon
    <3>. QED  BY <3>3, Zenon
  <2>2. load' \in Loads  BY <1>17, <2>1 DEF LoadLists, Loads
  <2>. QED  BY <1>17, <2>2 DEF LoadLists
<1>18. CASE LoadReads
  <2>1. load' \in Loads
    <3>1. PICK e \in load.todo :
              load' = [load EXCEPT !.step = "set", !.todo = @ \ {e}, !.p = e.p,
                                   !.value = IF e.ref THEN vault[e.p] ELSE None]
      BY <1>18 DEF LoadReads
    <3>2. e.p \in Providers /\ vault[e.p] \in Value  BY DEF Loads
    <3>3. (IF e.ref THEN vault[e.p] ELSE None) \in Value  BY <3>2 DEF Value
    <3>. QED  BY <3>1, <3>2, <3>3 DEF Loads
  <2>. QED  BY <1>18, <2>1 DEF LoadReads
<1>19. CASE LoadSets
  <2>1. load' \in Loads  BY <1>19 DEF LoadSets, Loads, Value
  <2>2. secrets' \in [Providers -> Value]  BY <1>19 DEF LoadSets, SetSecrets, Loads
  <2>3. UNCHANGED <<settings, backup, vault, store, save, del, flows, smooth>>  BY <1>19 DEF LoadSets
  <2>. QED  BY <2>1, <2>2, <2>3
<1>20. CASE LoadEnds
  <2>1. load' \in Loads  BY <1>20 DEF LoadEnds, Loads, IdleLoad, Value
  <2>2. store' \in [Providers -> Entry]  BY <1>20 DEF LoadEnds
  <2>3. UNCHANGED <<settings, backup, vault, secrets, save, del, flows, smooth>>  BY <1>20 DEF LoadEnds
  <2>. QED  BY <2>1, <2>2, <2>3
<1>21. CASE LoadFails
  <2>1. load' \in Loads  BY <1>21 DEF LoadFails, Loads, IdleLoad, Value
  <2>2. store' \in [Providers -> Entry]  BY <1>21 DEF LoadFails
  <2>3. smooth' \in BOOLEAN  BY <1>21 DEF LoadFails
  <2>4. UNCHANGED <<settings, backup, vault, secrets, save, del, flows>>  BY <1>21 DEF LoadFails
  <2>. QED  BY <2>1, <2>2, <2>3, <2>4
<1>22. CASE Refresh
  <2>1. store' \in [Providers -> Entry]  BY <1>22 DEF Refresh
  <2>2. UNCHANGED <<settings, backup, vault, secrets, save, del, load, flows, smooth>>  BY <1>22 DEF Refresh
  <2>. QED  BY <2>1, <2>2
<1>23. CASE Restart
  <2>1. save' \in Saves  BY <1>23 DEF Restart, Saves, IdleSave, Value
  <2>2. del' \in Deletes  BY <1>23 DEF Restart, Deletes, IdleDelete
  <2>3. load' \in Loads  BY <1>23 DEF Restart, Loads, IdleLoad, Value
  <2>4. secrets' \in [Providers -> Value]  BY <1>23 DEF Restart, Value
  <2>5. flows' \in 0 .. MaxFlows  BY <1>23, CredentialsAssumption DEF Restart
  <2>6. smooth' \in BOOLEAN  BY <1>23 DEF Restart
  <2>7. UNCHANGED <<settings, backup, vault, store>>  BY <1>23 DEF Restart
  <2>. QED  BY <2>1, <2>2, <2>3, <2>4, <2>5, <2>6, <2>7
<1>24. CASE UNCHANGED vars  BY <1>24 DEF vars
<1>. QED
  BY <1>1, <1>2, <1>3, <1>4, <1>5, <1>6, <1>7, <1>8, <1>9, <1>10, <1>11, <1>12, <1>13, <1>14, <1>15, <1>16, <1>17, <1>18, <1>19, <1>20, <1>21, <1>22, <1>23, <1>24
     DEF Next, SaveStep, DeleteStep, LoadStep

-----------------------------------------------------------------------------
(* Credentials: the invariant's parts                                      *)

\* No step leaves or brings the credential of a provider that is gone.
LEMMA GhostKept == ASSUME CredentialsInv, [Next]_vars PROVE NoGhost'
<1>. USE CredentialsAssumption DEF CredentialsInv, FlowsInv, TypeOK, Saves, Deletes, Loads, NoGhost
<1>1. ASSUME NEW p \in Providers, NEW typed \in Value, StartSave(p, typed) PROVE NoGhost'
  BY <1>1 DEF StartSave, Started, Open
<1>2. CASE SaveWrites  BY <1>2 DEF SaveWrites
<1>3. CASE SaveCommits  BY <1>3 DEF SaveCommits
<1>4. CASE SaveReads  BY <1>4 DEF SaveReads
<1>5. CASE SaveSets  BY <1>5 DEF SaveSets, SetSecrets
<1>6. CASE SaveEnds  BY <1>6 DEF SaveEnds, IdleSave
<1>7. CASE SaveFails  BY <1>7 DEF SaveFails, IdleSave
<1>8. ASSUME NEW p \in Providers, StartDelete(p) PROVE NoGhost'
  BY <1>8 DEF StartDelete, Started, Open
<1>9. CASE DeleteLooks  BY <1>9 DEF DeleteLooks
<1>10. CASE DeleteErases  BY <1>10 DEF DeleteErases
<1>11. CASE DeleteRemoves  BY <1>11 DEF DeleteRemoves
<1>12. CASE DeleteEnds  BY <1>12 DEF DeleteEnds, IdleDelete
<1>13. CASE DeleteFails  BY <1>13 DEF DeleteFails, IdleDelete
<1>14. CASE Export  BY <1>14 DEF Export, Started, Open
<1>15. CASE StartRestore  BY <1>15 DEF StartRestore, Started, Open, IdleLoad
<1>16. CASE Restores  BY <1>16 DEF Restores
<1>17. CASE LoadLists  BY <1>17 DEF LoadLists
<1>18. CASE LoadReads  BY <1>18 DEF LoadReads
<1>19. CASE LoadSets  BY <1>19 DEF LoadSets, SetSecrets
<1>20. CASE LoadEnds  BY <1>20 DEF LoadEnds, IdleLoad
<1>21. CASE LoadFails  BY <1>21 DEF LoadFails, IdleLoad
<1>22. CASE Refresh  BY <1>22 DEF Refresh, Open
<1>23. CASE Restart  BY <1>23 DEF Restart, IdleSave, IdleDelete, IdleLoad
<1>24. CASE UNCHANGED vars  BY <1>24 DEF vars
<1>. QED
  BY <1>1, <1>2, <1>3, <1>4, <1>5, <1>6, <1>7, <1>8, <1>9, <1>10, <1>11, <1>12, <1>13, <1>14, <1>15, <1>16, <1>17, <1>18, <1>19, <1>20, <1>21, <1>22, <1>23, <1>24
     DEF Next, SaveStep, DeleteStep, LoadStep

\* Every flow goes on knowing what it has done.
LEMMA FlowsKept == ASSUME CredentialsInv, [Next]_vars PROVE FlowsInv'
<1>. USE CredentialsAssumption DEF CredentialsInv, FlowsInv, TypeOK, Saves, Deletes, Loads, SaveInv, CalmSave, DeleteInv, CalmDelete, LoadInv, Wanted, NoGhost
<1>1. ASSUME NEW p \in Providers, NEW typed \in Value, StartSave(p, typed) PROVE FlowsInv'
  BY <1>1 DEF StartSave, Started, Open
<1>2. CASE SaveWrites  BY <1>2 DEF SaveWrites
<1>3. CASE SaveCommits  BY <1>3 DEF SaveCommits
<1>4. CASE SaveReads  BY <1>4 DEF SaveReads
<1>5. CASE SaveSets  BY <1>5 DEF SaveSets, SetSecrets
<1>6. CASE SaveEnds  BY <1>6 DEF SaveEnds, IdleSave
<1>7. CASE SaveFails  BY <1>7 DEF SaveFails, IdleSave
<1>8. ASSUME NEW p \in Providers, StartDelete(p) PROVE FlowsInv'
  BY <1>8 DEF StartDelete, Started, Open
<1>9. CASE DeleteLooks  BY <1>9 DEF DeleteLooks
<1>10. CASE DeleteErases  BY <1>10 DEF DeleteErases
<1>11. CASE DeleteRemoves  BY <1>11 DEF DeleteRemoves
<1>12. CASE DeleteEnds  BY <1>12 DEF DeleteEnds, IdleDelete
<1>13. CASE DeleteFails  BY <1>13 DEF DeleteFails, IdleDelete
<1>14. CASE Export  BY <1>14 DEF Export, Started, Open
<1>15. CASE StartRestore  BY <1>15 DEF StartRestore, Started, Open, IdleLoad
<1>16. CASE Restores  BY <1>16 DEF Restores
<1>17. CASE LoadLists  BY <1>17 DEF LoadLists
<1>18. CASE LoadReads  BY <1>18 DEF LoadReads
<1>19. CASE LoadSets  BY <1>19 DEF LoadSets, SetSecrets
<1>20. CASE LoadEnds  BY <1>20 DEF LoadEnds, IdleLoad
<1>21. CASE LoadFails  BY <1>21 DEF LoadFails, IdleLoad
<1>22. CASE Refresh  BY <1>22 DEF Refresh, Open
<1>23. CASE Restart  BY <1>23 DEF Restart, IdleSave, IdleDelete, IdleLoad
<1>24. CASE UNCHANGED vars  BY <1>24 DEF vars
<1>. QED
  BY <1>1, <1>2, <1>3, <1>4, <1>5, <1>6, <1>7, <1>8, <1>9, <1>10, <1>11, <1>12, <1>13, <1>14, <1>15, <1>16, <1>17, <1>18, <1>19, <1>20, <1>21, <1>22, <1>23, <1>24
     DEF Next, SaveStep, DeleteStep, LoadStep

\* The providers no flow is at keep the vault's credentials.
LEMMA SmoothKept == ASSUME CredentialsInv, [Next]_vars PROVE (smooth => SmoothState)'
<1>. USE CredentialsAssumption DEF CredentialsInv, FlowsInv, TypeOK, Saves, Deletes, Loads, SmoothState, Busy, Wanted, SaveInv, CalmSave, DeleteInv, CalmDelete, LoadInv, NoGhost
<1>1. ASSUME NEW p \in Providers, NEW typed \in Value, StartSave(p, typed) PROVE (smooth => SmoothState)'
  BY <1>1 DEF StartSave, Started, Open
<1>2. CASE SaveWrites  BY <1>2 DEF SaveWrites
<1>3. CASE SaveCommits  BY <1>3 DEF SaveCommits
<1>4. CASE SaveReads  BY <1>4 DEF SaveReads
<1>5. CASE SaveSets  BY <1>5 DEF SaveSets, SetSecrets
<1>6. CASE SaveEnds  BY <1>6 DEF SaveEnds, IdleSave
<1>7. CASE SaveFails  BY <1>7 DEF SaveFails, IdleSave
<1>8. ASSUME NEW p \in Providers, StartDelete(p) PROVE (smooth => SmoothState)'
  BY <1>8 DEF StartDelete, Started, Open
<1>9. CASE DeleteLooks  BY <1>9 DEF DeleteLooks
<1>10. CASE DeleteErases  BY <1>10 DEF DeleteErases
<1>11. CASE DeleteRemoves  BY <1>11 DEF DeleteRemoves
<1>12. CASE DeleteEnds  BY <1>12 DEF DeleteEnds, IdleDelete
<1>13. CASE DeleteFails  BY <1>13 DEF DeleteFails, IdleDelete
<1>14. CASE Export  BY <1>14 DEF Export, Started, Open
<1>15. CASE StartRestore  BY <1>15 DEF StartRestore, Started, Open, IdleLoad
<1>16. CASE Restores  BY <1>16 DEF Restores
<1>17. CASE LoadLists
  <2>. SUFFICES ASSUME smooth' PROVE SmoothState'
    OBVIOUS
  <2>1. \A e \in load'.todo : e.ref <=> settings[e.p] = "ref"
    <3>. SUFFICES ASSUME NEW p \in Providers,
                         NEW e, e = [p |-> p, ref |-> settings[p] = "ref"]
                  PROVE  e.ref <=> settings[e.p] = "ref"
      BY <1>17 DEF LoadLists
    <3>. QED  OBVIOUS
  <2>2. ASSUME NEW p \in Providers, settings[p] # "absent"
        PROVE  \E e \in load'.todo : e.p = p
    <3>1. [p |-> p, ref |-> settings[p] = "ref"] \in load'.todo
      BY <1>17, <2>2 DEF LoadLists
    <3>. QED  BY <3>1
  <2>3. \A p \in Providers : Busy(p)' \/ secrets'[p] = Wanted(p)'
    <3>1. load'.step = "next" /\ secrets' = secrets /\ settings' = settings
      BY <1>17 DEF LoadLists
    <3>. QED  BY <2>2, <3>1
  <2>. QED  BY <1>17, <2>1, <2>3 DEF LoadLists
<1>18. CASE LoadReads
  <2>. SUFFICES ASSUME smooth' PROVE SmoothState'
    OBVIOUS
  <2>1. PICK e \in load.todo :
            load' = [load EXCEPT !.step = "set", !.todo = @ \ {e}, !.p = e.p,
                                 !.value = IF e.ref THEN vault[e.p] ELSE None]
    BY <1>18 DEF LoadReads
  <2>2. UNCHANGED <<settings, vault, secrets, save, del, smooth>> /\ load.step = "next"
    BY <1>18 DEF LoadReads
  <2>3. load'.step = "set" /\ load'.todo = load.todo \ {e} /\ load'.p = e.p
    BY <2>1
  <2>4. load'.value = Wanted(load.p)'
    <3>1. e.ref <=> settings[e.p] = "ref"  BY <2>2
    <3>2. load'.value = IF e.ref THEN vault[e.p] ELSE None  BY <2>1
    <3>. QED  BY <2>2, <2>3, <3>1, <3>2
  <2>5. \A p \in Providers : Busy(p)' \/ secrets'[p] = Wanted(p)'
    <3>. SUFFICES ASSUME NEW p \in Providers, Busy(p) PROVE Busy(p)'
      BY <2>2
    <3>1. CASE p = save.p \/ p = del.p  BY <2>2, <3>1
    <3>2. CASE \E x \in load.todo : x.p = p  BY <2>3, <3>2
    <3>. QED  BY <2>2, <3>1, <3>2
  <2>6. \A x \in load'.todo : x.ref <=> settings'[x.p] = "ref"  BY <2>2, <2>3
  <2>. QED  BY <2>2, <2>3, <2>4, <2>5, <2>6
<1>19. CASE LoadSets  BY <1>19 DEF LoadSets, SetSecrets
<1>20. CASE LoadEnds
  <2>. SUFFICES ASSUME smooth' PROVE SmoothState'
    OBVIOUS
  <2>1. UNCHANGED <<settings, vault, secrets, save, del, smooth>> /\ load'.step = "idle"
    BY <1>20 DEF LoadEnds, IdleLoad
  <2>2. load.step = "next" /\ load.todo = {} /\ load.p = None
    BY <1>20 DEF LoadEnds
  <2>3. \A p \in Providers : Busy(p)' \/ secrets'[p] = Wanted(p)'
    BY <2>1, <2>2
  <2>. QED  BY <2>1, <2>2, <2>3
<1>21. CASE LoadFails  BY <1>21 DEF LoadFails, IdleLoad
<1>22. CASE Refresh  BY <1>22 DEF Refresh, Open
<1>23. CASE Restart  BY <1>23 DEF Restart, IdleSave, IdleDelete, IdleLoad
<1>24. CASE UNCHANGED vars  BY <1>24 DEF vars
<1>. QED
  BY <1>1, <1>2, <1>3, <1>4, <1>5, <1>6, <1>7, <1>8, <1>9, <1>10, <1>11, <1>12, <1>13, <1>14, <1>15, <1>16, <1>17, <1>18, <1>19, <1>20, <1>21, <1>22, <1>23, <1>24
     DEF Next, SaveStep, DeleteStep, LoadStep

-----------------------------------------------------------------------------
(* The cache: what changes and reloads are                                 *)

\* What is in a sequence of at most one.
LEMMA Alone ==
    /\ \A S : <<>> \in Seq(S)
    /\ C!ToSet(<<>>) = {}
    /\ \A S : \A x \in S : <<x>> \in Seq(S)
    /\ \A x : C!ToSet(<<x>>) = {x}
<1>1. DOMAIN <<>> = {}  OBVIOUS
<1>2. ASSUME NEW x PROVE C!ToSet(<<x>>) = {x}
  <2>1. DOMAIN <<x>> = {1} /\ <<x>>[1] = x  OBVIOUS
  <2>. QED  BY <2>1 DEF C!ToSet
<1>3. C!ToSet(<<>>) = {}  BY <1>1 DEF C!ToSet
<1>4. \A S : <<>> \in Seq(S)  OBVIOUS
<1>5. ASSUME NEW S, NEW x \in S PROVE <<x>> \in Seq(S)  OBVIOUS
<1>. QED  BY <1>2, <1>3, <1>4, <1>5

\* What is in one of two sequences is in both together.
LEMMA Together ==
    ASSUME NEW S, NEW a \in Seq(S), NEW b \in Seq(S)
    PROVE  a \o b \in Seq(S) /\ C!ToSet(a \o b) = C!ToSet(a) \cup C!ToSet(b)
<1>1. a \o b \in Seq(S) /\ Len(a \o b) = Len(a) + Len(b)  OBVIOUS
<1>2. \A i \in DOMAIN a : i \in DOMAIN (a \o b) /\ (a \o b)[i] = a[i]  OBVIOUS
<1>3. \A i \in DOMAIN b : i + Len(a) \in DOMAIN (a \o b) /\ (a \o b)[i + Len(a)] = b[i]  OBVIOUS
<1>4. \A i \in DOMAIN (a \o b) :
          \/ i \in DOMAIN a /\ (a \o b)[i] = a[i]
          \/ i - Len(a) \in DOMAIN b /\ (a \o b)[i] = b[i - Len(a)]
  OBVIOUS
<1>5. C!ToSet(a) \subseteq C!ToSet(a \o b)  BY <1>2 DEF C!ToSet
<1>6. C!ToSet(b) \subseteq C!ToSet(a \o b)  BY <1>3 DEF C!ToSet
<1>7. C!ToSet(a \o b) \subseteq C!ToSet(a) \cup C!ToSet(b)  BY <1>4 DEF C!ToSet
<1>. QED  BY <1>1, <1>5, <1>6, <1>7

\* A sequence with one more.
LEMMA Appended ==
    ASSUME NEW S, NEW q \in Seq(S), NEW x \in S
    PROVE  LET r == Append(q, x)
           IN  /\ r \in Seq(S) /\ Len(q) \in Nat /\ Len(r) = Len(q) + 1
               /\ \A i \in 1 .. Len(q) : i \in 1 .. Len(r) /\ r[i] = q[i] /\ q[i] \in S
               /\ Len(r) \in 1 .. Len(r) /\ r[Len(r)] = x
BY AppendProperties

\* A sequence that is not empty is its head and its tail.
LEMMA HeadAndTail ==
    ASSUME NEW S, NEW q \in Seq(S), q # <<>>
    PROVE  /\ Head(q) = q[1] /\ Head(q) \in S /\ Tail(q) \in Seq(S)
           /\ 1 \in 1 .. Len(q) /\ Len(q) \in Nat /\ Len(Tail(q)) = Len(q) - 1
           /\ \A i \in 1 .. Len(Tail(q)) : i + 1 \in 1 .. Len(q) /\ Tail(q)[i] = q[i + 1]
           /\ \A i \in 1 .. Len(q) : i # 1 =>
                  i - 1 \in 1 .. Len(Tail(q)) /\ q[i] = Tail(q)[i - 1]
           /\ C!ToSet(q) = {Head(q)} \cup C!ToSet(Tail(q))
<1>1. /\ Head(q) = q[1] /\ Head(q) \in S /\ Tail(q) \in Seq(S) /\ 1 \in DOMAIN q
      /\ Len(Tail(q)) = Len(q) - 1 /\ \A i \in 1 .. Len(Tail(q)) : Tail(q)[i] = q[i + 1]
  BY HeadTailProperties
<1>2. ASSUME NEW i \in DOMAIN q, i # 1
      PROVE  i - 1 \in DOMAIN Tail(q) /\ q[i] = Tail(q)[i - 1]
  BY <1>1, <1>2
<1>3. ASSUME NEW i \in DOMAIN Tail(q)
      PROVE  i + 1 \in DOMAIN q /\ Tail(q)[i] = q[i + 1]
  BY <1>1
<1>4. C!ToSet(q) \subseteq {Head(q)} \cup C!ToSet(Tail(q))  BY <1>1, <1>2 DEF C!ToSet
<1>5. {Head(q)} \cup C!ToSet(Tail(q)) \subseteq C!ToSet(q)  BY <1>1, <1>3 DEF C!ToSet
<1>. QED  BY <1>1, <1>2, <1>3, <1>4, <1>5

\* The reloads of a change are sections, the change's own among them.
LEMMA ReloadsTyped ==
    /\ \A c \in C!Changes : C!Reloads(c) \in Seq(C!Sections)
    /\ \A s \in Plain \cup {"general", "providers"} : s \in C!ToSet(C!Reloads(s))
    /\ "services" \in C!ToSet(C!Reloads("providers"))
<1>. USE CacheAssumption
<1>1. ASSUME NEW c \in C!Changes PROVE C!Reloads(c) \in Seq(C!Sections)
  <2>1. CASE c = "providers"
    <3>1. <<"providers", "services">> \in Seq(C!Sections)  BY DEF C!Sections
    <3>. QED  BY <2>1, <3>1 DEF C!Reloads
  <2>2. CASE c \in Plain \cup {"general"}
    <3>1. <<c>> \in Seq(C!Sections)  BY <2>2, Alone DEF C!Sections
    <3>2. C!Reloads(c) = <<c>>  BY <2>2 DEF C!Reloads
    <3>. QED  BY <3>1, <3>2
  <2>3. CASE c \notin Plain \cup {"general", "providers"}
    <3>1. C!Reloads(c) = <<>>  BY <2>3 DEF C!Reloads
    <3>. QED  BY <3>1, Alone
  <2>. QED  BY <2>1, <2>2, <2>3
<1>2. ASSUME NEW s \in Plain \cup {"general"} PROVE s \in C!ToSet(C!Reloads(s))
  <2>1. C!Reloads(s) = <<s>>  BY DEF C!Reloads
  <2>. QED  BY <2>1 DEF C!ToSet
<1>3. C!Reloads("providers") = <<"providers", "services">>  BY DEF C!Reloads
<1>4. {"providers", "services"} \subseteq C!ToSet(C!Reloads("providers"))
  BY <1>3 DEF C!ToSet
<1>. QED  BY <1>1, <1>2, <1>4

\* A restore announces every section, and its reloads are sections.
LEMMA RestoreTells ==
    /\ C!RestoreChanges \in Seq(C!Changes)
    /\ C!RestoreReloads \in Seq(C!Sections)
    /\ \A s \in C!Sections :
           \E i \in 1 .. Len(C!RestoreChanges) : s \in C!ToSet(C!Reloads(C!RestoreChanges[i]))
<1>. USE CacheAssumption
<1>1. \A x \in {"appearance", "shortcuts", "advanced", "glossary", "history", "vocabulary"} :
          /\ C!Had(x) \in Seq(C!Changes)
          /\ x \in C!Sections => C!ToSet(C!Had(x)) = {x}
  <2>. SUFFICES ASSUME NEW x \in {"appearance", "shortcuts", "advanced", "glossary", "history", "vocabulary"}
                PROVE  /\ C!Had(x) \in Seq(C!Changes)
                       /\ x \in C!Sections => C!ToSet(C!Had(x)) = {x}
    OBVIOUS
  <2>1. CASE x \in C!Sections \cup Library
    <3>1. x \in C!Changes  BY <2>1 DEF C!Changes, C!Sections
    <3>2. C!Had(x) = <<x>>  BY <2>1 DEF C!Had
    <3>. QED  BY <3>1, <3>2, Alone
  <2>2. CASE x \notin C!Sections \cup Library
    <3>1. C!Had(x) = <<>>  BY <2>2 DEF C!Had
    <3>. QED  BY <2>2, <3>1, Alone
  <2>. QED  BY <2>1, <2>2
<1>2. \A x \in {"appearance", "shortcuts", "advanced"} : C!Had(x) \in Seq(C!Sections)
  <2>. SUFFICES ASSUME NEW x \in {"appearance", "shortcuts", "advanced"}
                PROVE  C!Had(x) \in Seq(C!Sections)
    OBVIOUS
  <2>1. CASE x \in C!Sections
    <3>1. C!Had(x) = <<x>>  BY <2>1 DEF C!Had
    <3>. QED  BY <2>1, <3>1, Alone
  <2>2. CASE x \notin C!Sections
    <3>1. x \notin Library  OBVIOUS
    <3>2. C!Had(x) = <<>>  BY <2>2, <3>1 DEF C!Had
    <3>. QED  BY <3>2, Alone
  <2>. QED  BY <2>1, <2>2
<1>. DEFINE g == <<"general">>
            p == <<"providers">>
<1>3. /\ g \in Seq(C!Changes) /\ C!ToSet(g) = {"general"}
      /\ p \in Seq(C!Changes) /\ C!ToSet(p) = {"providers"}
  BY Alone DEF C!Changes
<1>4. C!RestoreReloads \in Seq(C!Sections)
  <2>1. /\ <<"general">> \in Seq(C!Sections)
        /\ <<"providers", "services">> \in Seq(C!Sections)
    BY DEF C!Sections
  <2>. QED  BY <1>2, <2>1 DEF C!RestoreReloads
<1>. DEFINE a1 == g \o C!Had("appearance")
            a2 == a1 \o C!Had("shortcuts")
            a3 == a2 \o C!Had("advanced")
            a4 == a3 \o p
            a5 == a4 \o C!Had("glossary")
            a6 == a5 \o C!Had("history")
            a7 == a6 \o C!Had("vocabulary")
<1>. HIDE DEF g, p
<1>5. /\ a1 \in Seq(C!Changes)
      /\ C!ToSet(a1) = C!ToSet(g) \cup C!ToSet(C!Had("appearance"))
  BY <1>1, <1>3, Together
<1>. HIDE DEF a1
<1>6. a2 \in Seq(C!Changes) /\ C!ToSet(a2) = C!ToSet(a1) \cup C!ToSet(C!Had("shortcuts"))
  BY <1>1, <1>5, Together
<1>. HIDE DEF a2
<1>7. a3 \in Seq(C!Changes) /\ C!ToSet(a3) = C!ToSet(a2) \cup C!ToSet(C!Had("advanced"))
  BY <1>1, <1>6, Together
<1>. HIDE DEF a3
<1>8. a4 \in Seq(C!Changes) /\ C!ToSet(a4) = C!ToSet(a3) \cup C!ToSet(p)
  BY <1>3, <1>7, Together
<1>. HIDE DEF a4
<1>9. a5 \in Seq(C!Changes) /\ C!ToSet(a4) \subseteq C!ToSet(a5)
  BY <1>1, <1>8, Together
<1>. HIDE DEF a5
<1>10. a6 \in Seq(C!Changes) /\ C!ToSet(a5) \subseteq C!ToSet(a6)
  BY <1>1, <1>9, Together
<1>. HIDE DEF a6
<1>11. a7 \in Seq(C!Changes) /\ C!ToSet(a6) \subseteq C!ToSet(a7)
  BY <1>1, <1>10, Together
<1>12. C!RestoreChanges = a7
  BY DEF C!RestoreChanges, g, p, a1, a2, a3, a4, a5, a6
<1>. HIDE DEF a7
<1>13. Plain \cup {"general", "providers"} \subseteq C!ToSet(a7)
  BY <1>1, <1>3, <1>5, <1>6, <1>7, <1>8, <1>9, <1>10, <1>11 DEF C!Sections
<1>14. ASSUME NEW s \in C!Sections
       PROVE  \E i \in 1 .. Len(a7) : s \in C!ToSet(C!Reloads(a7[i]))
  <2>1. PICK c \in C!ToSet(a7) : s \in C!ToSet(C!Reloads(c))
    BY <1>13, ReloadsTyped DEF C!Sections
  <2>2. PICK i \in 1 .. Len(a7) : a7[i] = c
    BY <1>11 DEF C!ToSet
  <2>. QED  BY <2>1, <2>2
<1>. QED  BY <1>4, <1>11, <1>12, <1>14

-----------------------------------------------------------------------------
(* The cache: its steps                                                    *)

\* A broadcast keeps what it is told, or counts it as missed.
LEMMA BroadcastTells ==
    ASSUME C!TypeOK, NEW changes \in Seq(C!Changes), C!Broadcast(changes)
    PROVE  /\ buffer' \in Seq(C!Changes) /\ Len(buffer') <= Capacity
           /\ missed' \subseteq C!Sections /\ missed \subseteq missed'
           /\ \A s \in C!Sections :
                  \/ Told(s)
                  \/ \E i \in 1 .. Len(changes) : s \in C!ToSet(C!Reloads(changes[i]))
                  => Told(s)' \/ s \in missed'
<1>. USE CacheAssumption DEF C!TypeOK
<1>. DEFINE all == buffer \o changes
            dropped == IF Len(all) > Capacity THEN Len(all) - Capacity ELSE 0
<1>1. all \in Seq(C!Changes) /\ Len(all) = Len(buffer) + Len(changes)  OBVIOUS
<1>2. /\ \A i \in 1 .. Len(buffer) : i \in 1 .. Len(all) /\ all[i] = buffer[i]
      /\ \A i \in 1 .. Len(changes) :
             i + Len(buffer) \in 1 .. Len(all) /\ all[i + Len(buffer)] = changes[i]
  BY SMTT(20)
<1>3. /\ buffer' = SubSeq(all, dropped + 1, Len(all))
      /\ missed' = missed \cup UNION {C!ToSet(C!Reloads(all[i])) : i \in 1 .. dropped}
  BY DEF C!Broadcast
<1>. HIDE DEF all
<1>4. dropped \in 0 .. Len(all) /\ Len(all) - dropped <= Capacity  BY <1>1
<1>. HIDE DEF dropped
<1>5. /\ buffer' \in Seq(C!Changes) /\ Len(buffer') = Len(all) - dropped
      /\ \A i \in 1 .. Len(buffer') : buffer'[i] = all[i + dropped]
  BY <1>1, <1>3, <1>4, SubSeqProperties
<1>6. missed' \subseteq C!Sections
  <2>1. ASSUME NEW i \in 1 .. dropped PROVE C!ToSet(C!Reloads(all[i])) \subseteq C!Sections
    <3>1. all[i] \in C!Changes  BY <1>1, <1>4
    <3>2. C!Reloads(all[i]) \in Seq(C!Sections)  BY <3>1, ReloadsTyped
    <3>. QED  BY <3>2 DEF C!ToSet
  <2>. QED  BY <1>3, <2>1
<1>7. ASSUME NEW s \in C!Sections, NEW i \in 1 .. Len(all), s \in C!ToSet(C!Reloads(all[i]))
      PROVE  Told(s)' \/ s \in missed'
  <2>1. CASE i <= dropped  BY <1>3, <1>4, <1>7, <2>1
  <2>2. CASE i > dropped
    <3>1. i - dropped \in 1 .. Len(buffer') /\ buffer'[i - dropped] = all[i]
      BY <1>1, <1>4, <1>5, <2>2
    <3>. QED  BY <1>7, <3>1 DEF Told
  <2>. QED  BY <1>1, <1>4, <2>1, <2>2
<1>8. ASSUME NEW s \in C!Sections,
             \/ Told(s)
             \/ \E i \in 1 .. Len(changes) : s \in C!ToSet(C!Reloads(changes[i]))
      PROVE  Told(s)' \/ s \in missed'
  BY <1>2, <1>7, <1>8 DEF Told
<1>. QED  BY <1>3, <1>4, <1>5, <1>6, <1>8

\* A commit whose changes, answer or reloads cover every section it changes
\* keeps the sections cared for.
LEMMA CommitCares ==
    ASSUME CacheInv, NEW t \in Screens, NEW changed \in SUBSET C!Sections,
           NEW changes \in Seq(C!Changes), NEW answer \in C!Sections \cup {"none"},
           NEW plan \in Seq(Seq(C!Sections)),
           C!Commit(t, changed, changes, answer, plan),
           \A s \in changed \ {"general"} :
               \/ s = answer
               \/ \E i \in 1 .. Len(changes) : s \in C!ToSet(C!Reloads(changes[i]))
               \/ \E i \in 1 .. Len(plan) : s \in C!ToSet(plan[i])
    PROVE  CacheInv'
<1>. USE CacheAssumption DEF CacheInv, C!TypeOK, C!Tasks
<1>. DEFINE m == [to |-> t, section |-> answer,
                  value |-> IF answer = "none" THEN 0 ELSE truth'[answer]]
<1>1. /\ truth' = [s \in C!Sections |-> IF s \in changed THEN truth[s] + 1 ELSE truth[s]]
      /\ inbox' = Append(inbox, m)
      /\ task' = [task EXCEPT ![t] = [due |-> {answer}, todo |-> <<>>, plan |-> plan]]
      /\ UNCHANGED cache /\ C!Broadcast(changes) /\ task[t] = C!NoTask
      /\ commits < MaxCommits /\ commits' = commits + 1
  BY DEF C!Commit, C!Idle
<1>2. truth' \in [C!Sections -> Nat] /\ \A s \in C!Sections : truth[s] <= truth'[s]
  BY SMTT(20), <1>1
<1>3. m \in [to : C!Tasks, section : C!Sections \cup {"none"}, value : Nat]
  BY <1>2
<1>. DEFINE n == [due |-> {answer}, todo |-> <<>>, plan |-> plan]
<1>4. n \in [due : SUBSET (C!Sections \cup {"none"}), todo : Seq(C!Sections), plan : Seq(Seq(C!Sections))]
  OBVIOUS
<1>5. task' = [task EXCEPT ![t] = n]  BY <1>1
<1>6. m.section = answer /\ (answer # "none" => m.value = truth'[answer])  OBVIOUS
<1>7. n.todo = <<>> /\ n.plan = plan  OBVIOUS
<1>. HIDE DEF m, n
<1>8. task' \in [C!Tasks -> [due : SUBSET (C!Sections \cup {"none"}), todo : Seq(C!Sections),
                             plan : Seq(Seq(C!Sections))]]
  BY <1>4, <1>5
<1>9. /\ inbox' \in Seq([to : C!Tasks, section : C!Sections \cup {"none"}, value : Nat])
      /\ Len(inbox) \in Nat /\ Len(inbox') = Len(inbox) + 1
      /\ \A i \in 1 .. Len(inbox) : i \in 1 .. Len(inbox') /\ inbox'[i] = inbox[i]
      /\ Len(inbox') \in 1 .. Len(inbox') /\ inbox'[Len(inbox')] = m
  BY SMTT(20), <1>1, <1>3
<1>10. commits' \in 0 .. MaxCommits  BY <1>1
<1>11. C!TypeOK'
  BY <1>1, <1>2, <1>8, <1>9, <1>10, BroadcastTells
<1>12. InboxInv'
  <2>1. \A s \in C!Sections : cache'[s] <= truth'[s]
    BY <1>1, <1>2 DEF InboxInv
  <2>2. \A i \in 1 .. Len(inbox) :
            inbox[i].section \in C!Sections \cup {"none"} /\ inbox[i].value \in Nat
    <3>. DEFINE Msg == [to : C!Tasks, section : C!Sections \cup {"none"}, value : Nat]
    <3>1. inbox \in Seq(Msg)  OBVIOUS
    <3>2. \A x \in Msg : x.section \in C!Sections \cup {"none"} /\ x.value \in Nat
      OBVIOUS
    <3>. HIDE DEF Msg
    <3>3. \A i \in 1 .. Len(inbox) : inbox[i] \in Msg  BY <3>1
    <3>. QED  BY <3>2, <3>3
  <2>5. \A s \in C!Sections : truth[s] \in Nat /\ truth'[s] \in Nat /\ cache[s] \in Nat
    BY <1>2
  <2>3. ASSUME NEW i \in 1 .. Len(inbox'), inbox'[i].section # "none"
        PROVE  /\ cache'[inbox'[i].section] <= inbox'[i].value
               /\ inbox'[i].value <= truth'[inbox'[i].section]
    <3>1. CASE i \in 1 .. Len(inbox)
      <4>1. inbox'[i] = inbox[i] /\ cache' = cache  BY <1>1, <1>9, <3>1
      <4>2. /\ inbox[i].section \in C!Sections
            /\ cache[inbox[i].section] <= inbox[i].value
            /\ inbox[i].value <= truth[inbox[i].section]
        BY <2>2, <2>3, <3>1, <4>1 DEF InboxInv
      <4>. QED  BY <1>2, <2>2, <2>5, <3>1, <4>1, <4>2, SMTT(60)
    <3>2. CASE i = Len(inbox')
      BY <1>1, <1>2, <1>6, <1>9, <2>1, <2>3, <3>2
    <3>. QED  BY <1>9, <3>1, <3>2
  <2>4. ASSUME NEW i \in 1 .. Len(inbox'), NEW j \in 1 .. Len(inbox'), i < j,
               inbox'[i].section = inbox'[j].section, inbox'[i].section # "none"
        PROVE  inbox'[i].value <= inbox'[j].value
    <3>1. i \in 1 .. Len(inbox)  BY <1>9, <2>4
    <3>2. CASE j \in 1 .. Len(inbox)
      BY <1>9, <2>4, <3>1, <3>2 DEF InboxInv
    <3>3. CASE j = Len(inbox')
      <4>1. inbox'[i] = inbox[i] /\ inbox'[j].value = truth'[inbox[i].section]
        BY <1>6, <1>9, <2>4, <3>1, <3>3
      <4>2. /\ inbox[i].section \in C!Sections
            /\ inbox[i].value <= truth[inbox[i].section]
        BY <2>2, <2>4, <3>1, <4>1 DEF InboxInv
      <4>. QED  BY <1>2, <2>2, <2>5, <3>1, <4>1, <4>2, SMTT(60)
    <3>. QED  BY <1>9, <3>2, <3>3
  <2>. QED  BY <2>1, <2>3, <2>4 DEF InboxInv
<1>13. ASSUME NEW s \in C!Sections \ {"general"} PROVE Cared(s)'
  <2>1. CASE s \in changed /\ s = answer
    BY <1>6, <1>9, <2>1 DEF Cared, Answered, C!Sections
  <2>2. CASE s \in changed /\ \E i \in 1 .. Len(changes) : s \in C!ToSet(C!Reloads(changes[i]))
    BY <2>2, <1>1, BroadcastTells DEF Cared
  <2>3. CASE s \in changed /\ \E i \in 1 .. Len(plan) : s \in C!ToSet(plan[i])
    <3>1. task'[t].plan = plan  BY <1>5, <1>7
    <3>. QED  BY <2>3, <3>1 DEF Cared, Planned
  <2>4. CASE s \notin changed
    <3>1. truth'[s] = truth[s]  BY <1>1, <2>4
    <3>2. CASE cache[s] = truth[s]  BY <1>1, <3>1, <3>2 DEF Cared
    <3>3. CASE s \in missed  BY <1>1, <3>3, BroadcastTells DEF Cared
    <3>4. CASE Told(s)  BY <1>1, <3>4, BroadcastTells DEF Cared
    <3>5. CASE Planned(s)
      <4>1. PICK u \in C!Tasks :
                \/ s \in C!ToSet(task[u].todo)
                \/ \E i \in 1 .. Len(task[u].plan) : s \in C!ToSet(task[u].plan[i])
        BY <3>5 DEF Planned
      <4>2. u # t
        <5>1. C!NoTask.todo = <<>> /\ C!NoTask.plan = <<>>  BY DEF C!NoTask
        <5>. QED  BY <1>1, <4>1, <5>1, Alone
      <4>3. task'[u] = task[u]  BY <1>5, <4>2
      <4>. QED  BY <4>1, <4>3 DEF Cared, Planned
    <3>6. CASE Answered(s)  BY <1>9, <3>1, <3>6 DEF Cared, Answered
    <3>. QED  BY <1>13, <3>2, <3>3, <3>4, <3>5, <3>6 DEF Cared
  <2>. QED  BY <2>1, <2>2, <2>3, <2>4
<1>. QED  BY <1>11, <1>12, <1>13

\* So does every command of a screen.
LEMMA CommandCares ==
    ASSUME CacheInv, NEW t \in Screens,
           \/ C!Update(t) \/ C!MakeDefault(t) \/ C!ChangeService(t) \/ C!Reorder(t)
           \/ C!ChangeProvider(t) \/ C!Restore(t)
    PROVE  CacheInv'
<1>. USE CacheAssumption
<1>1. /\ <<"general">> \in Seq(C!Changes) /\ <<"providers">> \in Seq(C!Changes)
      /\ \A s \in Plain \cup {"general"} : <<s>> \in Seq(C!Changes) /\ s \in C!Sections
      /\ "providers" \in C!Sections /\ "services" \in C!Sections
  BY Alone DEF C!Changes, C!Sections
<1>2. /\ C!ServicesScreen \in Seq(C!Sections) /\ <<"services">> \in Seq(C!Sections)
      /\ <<"general", "services">> \in Seq(C!Sections)
      /\ <<"providers", "services">> \in Seq(C!Sections) /\ <<"providers">> \in Seq(C!Sections)
  BY DEF C!ServicesScreen, C!Sections
<1>3. \A a, b \in Seq(C!Sections) :
          /\ <<a>> \in Seq(Seq(C!Sections)) /\ <<a, b>> \in Seq(Seq(C!Sections))
          /\ <<>> \in Seq(Seq(C!Sections))
  OBVIOUS
<1>4. \A s \in Plain \cup {"general"} :
          \E i \in 1 .. Len(<<s>>) : s \in C!ToSet(C!Reloads(<<s>>[i]))
  BY ReloadsTyped
<1>5. \A s \in {"providers", "services"} :
          \E i \in 1 .. Len(<<"providers">>) : s \in C!ToSet(C!Reloads(<<"providers">>[i]))
  BY ReloadsTyped
<1>6. CASE C!Update(t)
  <2>1. PICK s \in Plain \cup {"general"} : C!Commit(t, {s}, <<s>>, s, <<>>)
    BY <1>6 DEF C!Update
  <2>. QED  BY <1>1, <1>2, <1>3, <2>1, CommitCares
<1>7. CASE C!MakeDefault(t)
  BY <1>1, <1>2, <1>3, <1>7, CommitCares DEF C!MakeDefault
<1>8. CASE C!ChangeService(t)
  <2>1. PICK touched \in SUBSET {"general"} :
            C!Commit(t, {"services"} \cup touched, <<"providers">>, "none",
                     <<<<"services">>, C!ServicesScreen>>)
    BY <1>8 DEF C!ChangeService
  <2>. DEFINE changed == {"services"} \cup touched
              changes == <<"providers">>
              plan == <<<<"services">>, C!ServicesScreen>>
  <2>2. plan \in Seq(Seq(C!Sections))  BY <1>2, <1>3
  <2>3. changed \in SUBSET C!Sections /\ changed \ {"general"} \subseteq {"providers", "services"}
    BY <1>1
  <2>4. \A s \in changed \ {"general"} :
            \E i \in 1 .. Len(changes) : s \in C!ToSet(C!Reloads(changes[i]))
    BY <1>5, <2>3
  <2>5. changes \in Seq(C!Changes) /\ C!Commit(t, changed, changes, "none", plan)
    BY <1>1, <2>1
  <2>. HIDE DEF changed, changes, plan
  <2>. QED  BY <2>2, <2>3, <2>4, <2>5, CommitCares
<1>9. CASE C!Reorder(t)
  <2>. DEFINE first == <<"general", "services">>
              plan == <<first, C!ServicesScreen>>
  <2>1. "services" \in C!ToSet(first)
    <3>1. 2 \in DOMAIN first /\ first[2] = "services"  OBVIOUS
    <3>. QED  BY <3>1 DEF C!ToSet
  <2>. HIDE DEF first
  <2>2. \E i \in 1 .. Len(plan) : "services" \in C!ToSet(plan[i])
    <3>1. 1 \in 1 .. Len(plan) /\ plan[1] = first  OBVIOUS
    <3>. QED  BY <2>1, <3>1
  <2>3. plan \in Seq(Seq(C!Sections))
    <3>1. first \in Seq(C!Sections)  BY <1>2 DEF first
    <3>. QED  BY <1>2, <1>3, <3>1
  <2>. DEFINE changed == {"general", "services"}
              changes == <<"general">>
  <2>4. C!Commit(t, changed, changes, "none", plan)
    BY <1>9 DEF C!Reorder, first
  <2>5. changes \in Seq(C!Changes) /\ changed \in SUBSET C!Sections /\ changed \ {"general"} = {"services"}
    BY <1>1
  <2>. HIDE DEF plan, changed, changes
  <2>. QED  BY <2>2, <2>3, <2>4, <2>5, CommitCares
<1>10. CASE C!ChangeProvider(t)
  <2>1. PICK touched \in SUBSET {"general"},
             plan \in {<<<<"providers", "services">>, <<"providers">>>>, <<>>} :
            C!Commit(t, {"providers", "services"} \cup touched, <<"providers">>, "none", plan)
    BY <1>10 DEF C!ChangeProvider
  <2>. DEFINE changed == {"providers", "services"} \cup touched
              changes == <<"providers">>
  <2>2. plan \in Seq(Seq(C!Sections))
    <3>1. <<<<"providers", "services">>, <<"providers">>>> \in Seq(Seq(C!Sections))  BY <1>2, <1>3
    <3>2. <<>> \in Seq(Seq(C!Sections))  OBVIOUS
    <3>. QED  BY <3>1, <3>2
  <2>3. changed \in SUBSET C!Sections /\ changed \ {"general"} \subseteq {"providers", "services"}
    BY <1>1
  <2>4. \A s \in changed \ {"general"} :
            \E i \in 1 .. Len(changes) : s \in C!ToSet(C!Reloads(changes[i]))
    BY <1>5, <2>3
  <2>5. changes \in Seq(C!Changes) /\ C!Commit(t, changed, changes, "none", plan)
    BY <1>1, <2>1
  <2>. HIDE DEF changed, changes
  <2>. QED  BY <2>2, <2>3, <2>4, <2>5, CommitCares
<1>11. CASE C!Restore(t)
  <2>1. PICK plan \in {<<C!RestoreReloads>>, <<>>} :
            C!Commit(t, C!Sections, C!RestoreChanges, "none", plan)
    BY <1>11 DEF C!Restore
  <2>2. plan \in Seq(Seq(C!Sections))  BY <1>3, RestoreTells
  <2>. QED  BY <2>1, <2>2, RestoreTells, CommitCares
<1>. QED  BY <1>6, <1>7, <1>8, <1>9, <1>10, <1>11

\* A change of a library disturbs the channel only.
LEMMA LibraryCares == ASSUME CacheInv, C!LibraryChange PROVE CacheInv'
<1>. USE CacheAssumption DEF CacheInv
<1>1. PICK change \in Library : C!Broadcast(<<change>>)  BY DEF C!LibraryChange
<1>2. <<change>> \in Seq(C!Changes)  BY Alone DEF C!Changes
<1>3. UNCHANGED <<truth, cache, inbox, task>> /\ commits' \in 0 .. MaxCommits
  BY DEF C!LibraryChange, C!TypeOK
<1>4. C!TypeOK'  BY <1>1, <1>2, <1>3, BroadcastTells DEF C!TypeOK
<1>5. InboxInv'  BY <1>3 DEF InboxInv
<1>6. ASSUME NEW s \in C!Sections \ {"general"} PROVE Cared(s)'
  <2>1. Planned(s) => Planned(s)'  BY <1>3 DEF Planned
  <2>2. Answered(s) => Answered(s)'  BY <1>3 DEF Answered
  <2>. QED  BY <1>1, <1>2, <1>3, <2>1, <2>2, BroadcastTells DEF Cared
<1>. QED  BY <1>4, <1>5, <1>6

\* A read sends the section's state of this moment.
LEMMA ReadCares == ASSUME CacheInv, NEW t \in C!Tasks, C!Read(t) PROVE CacheInv'
<1>. USE DEF CacheInv, C!TypeOK
<1>. DEFINE s == Head(task[t].todo)
            m == [to |-> t, section |-> s, value |-> truth[s]]
            Task == [due : SUBSET (C!Sections \cup {"none"}), todo : Seq(C!Sections),
                     plan : Seq(Seq(C!Sections))]
            Msg == [to : C!Tasks, section : C!Sections \cup {"none"}, value : Nat]
            n == [task[t] EXCEPT !.todo = Tail(@), !.due = @ \cup {s}]
<1>1. /\ task[t].todo # <<>> /\ inbox' = Append(inbox, m)
      /\ missed' = missed \ {s} /\ task' = [task EXCEPT ![t] = n]
      /\ UNCHANGED <<truth, cache, buffer, commits>>
  BY DEF C!Read
<1>2. task[t] \in Task /\ inbox \in Seq(Msg) /\ task \in [C!Tasks -> Task]  OBVIOUS
<1>3. /\ s \in C!Sections /\ task[t].todo \in Seq(C!Sections)
      /\ Tail(task[t].todo) \in Seq(C!Sections)
      /\ C!ToSet(task[t].todo) = {s} \cup C!ToSet(Tail(task[t].todo))
  <2>1. task[t].todo \in Seq(C!Sections)  BY <1>2
  <2>. QED  BY <1>1, <2>1, HeadAndTail
<1>4. n \in Task /\ n.todo = Tail(task[t].todo) /\ n.plan = task[t].plan  BY <1>2, <1>3
<1>5. m \in Msg /\ m.section = s /\ m.value = truth[s]  BY <1>3
<1>6. \A x \in Msg : x.section \in C!Sections \cup {"none"} /\ x.value \in Nat  OBVIOUS
<1>7. "none" \notin C!Sections  BY CacheAssumption DEF C!Sections
<1>. HIDE DEF m, n, s, Msg, Task
<1>8. /\ inbox' \in Seq(Msg) /\ Len(inbox) \in Nat /\ Len(inbox') = Len(inbox) + 1
      /\ \A i \in 1 .. Len(inbox) : i \in 1 .. Len(inbox') /\ inbox'[i] = inbox[i] /\ inbox[i] \in Msg
      /\ Len(inbox') \in 1 .. Len(inbox') /\ inbox'[Len(inbox')] = m
  BY <1>1, <1>2, <1>5, Appended
<1>9. task' \in [C!Tasks -> Task]  BY <1>1, <1>2, <1>4
<1>10. C!TypeOK'  BY <1>1, <1>8, <1>9 DEF Msg, Task
<1>11. InboxInv'
  <2>1. ASSUME NEW i \in 1 .. Len(inbox'), inbox'[i].section # "none"
        PROVE  /\ cache'[inbox'[i].section] <= inbox'[i].value
               /\ inbox'[i].value <= truth'[inbox'[i].section]
    <3>1. CASE i \in 1 .. Len(inbox)  BY <1>1, <1>8, <2>1, <3>1 DEF InboxInv
    <3>2. CASE i = Len(inbox')  BY <1>1, <1>3, <1>5, <1>8, <3>2 DEF InboxInv
    <3>. QED  BY <1>8, <3>1, <3>2
  <2>2. ASSUME NEW i \in 1 .. Len(inbox'), NEW j \in 1 .. Len(inbox'), i < j,
               inbox'[i].section = inbox'[j].section, inbox'[i].section # "none"
        PROVE  inbox'[i].value <= inbox'[j].value
    <3>1. i \in 1 .. Len(inbox)  BY <1>8, <2>2
    <3>2. CASE j \in 1 .. Len(inbox)  BY <1>8, <2>2, <3>1, <3>2 DEF InboxInv
    <3>3. CASE j = Len(inbox')
      <4>1. inbox'[i] = inbox[i] /\ inbox'[j].value = truth[inbox[i].section]
        BY <1>5, <1>8, <2>2, <3>1, <3>3
      <4>. QED  BY <2>2, <3>1, <4>1 DEF InboxInv
    <3>. QED  BY <1>8, <3>2, <3>3
  <2>. QED  BY <1>1, <2>1, <2>2 DEF InboxInv
<1>12. ASSUME NEW x \in C!Sections \ {"general"} PROVE Cared(x)'
  <2>1. CASE x = s  BY <1>1, <1>5, <1>8, <2>1 DEF Cared, Answered
  <2>2. CASE x # s
    <3>1. CASE cache[x] = truth[x] \/ x \in missed  BY <1>1, <2>2, <3>1 DEF Cared
    <3>2. CASE Told(x)  BY <1>1, <3>2 DEF Cared, Told
    <3>3. CASE Planned(x)
      <4>1. PICK u \in C!Tasks :
                \/ x \in C!ToSet(task[u].todo)
                \/ \E i \in 1 .. Len(task[u].plan) : x \in C!ToSet(task[u].plan[i])
        BY <3>3 DEF Planned
      <4>2. CASE u # t
        <5>1. task'[u] = task[u]  BY <1>1, <4>2
        <5>. QED  BY <4>1, <5>1 DEF Cared, Planned
      <4>3. CASE u = t
        <5>1. task'[t] = n  BY <1>1, <1>2
        <5>2. x \in C!ToSet(n.todo) \/ \E i \in 1 .. Len(n.plan) : x \in C!ToSet(n.plan[i])
          BY <1>3, <1>4, <2>2, <4>1, <4>3
        <5>. QED  BY <5>1, <5>2 DEF Cared, Planned
      <4>. QED  BY <4>2, <4>3
    <3>4. CASE Answered(x)  BY <1>1, <1>8, <3>4 DEF Cared, Answered
    <3>. QED  BY <1>12, <3>1, <3>2, <3>3, <3>4 DEF Cared
  <2>. QED  BY <2>1, <2>2
<1>. QED  BY <1>10, <1>11, <1>12

\* An answer is handled: the copy takes it, and no reload is forgotten.
LEMMA DeliverCares ==
    ASSUME CacheInv, C!Deliver
    PROVE  CacheInv' /\ \A s \in C!Sections : cache[s] <= cache'[s]
<1>. USE DEF CacheInv
<1>. DEFINE m == Head(inbox)
            old == task[m.to]
            left == old.due \ {m.section}
            over == left = {} /\ old.todo = <<>>
            n == IF over /\ old.plan # <<>>
                 THEN [due |-> {}, todo |-> Head(old.plan), plan |-> Tail(old.plan)]
                 ELSE [old EXCEPT !.due = left]
            Task == [due : SUBSET (C!Sections \cup {"none"}), todo : Seq(C!Sections),
                     plan : Seq(Seq(C!Sections))]
            Msg == [to : C!Tasks, section : C!Sections \cup {"none"}, value : Nat]
<1>1. /\ inbox # <<>> /\ inbox' = Tail(inbox) /\ UNCHANGED <<truth, buffer, missed, commits>>
      /\ cache' = IF m.section = "none" THEN cache ELSE [cache EXCEPT ![m.section] = m.value]
      /\ task' = [task EXCEPT ![m.to] = n]
  BY DEF C!Deliver
<1>2. /\ inbox \in Seq(Msg) /\ task \in [C!Tasks -> Task]
      /\ truth \in [C!Sections -> Nat] /\ cache \in [C!Sections -> Nat]
  BY DEF C!TypeOK
<1>3. \A x \in Msg : x.to \in C!Tasks /\ x.section \in C!Sections \cup {"none"} /\ x.value \in Nat
  OBVIOUS
<1>4. \A x \in Task : /\ x.due \in SUBSET (C!Sections \cup {"none"})
                      /\ x.todo \in Seq(C!Sections) /\ x.plan \in Seq(Seq(C!Sections))
  OBVIOUS
<1>7. "none" \notin C!Sections  BY CacheAssumption DEF C!Sections
<1>. HIDE DEF Task, Msg
<1>8. /\ m \in Msg /\ m = inbox[1] /\ inbox' \in Seq(Msg)
      /\ Len(inbox) \in Nat /\ Len(inbox') = Len(inbox) - 1 /\ 1 \in 1 .. Len(inbox)
      /\ \A i \in 1 .. Len(inbox') : i + 1 \in 1 .. Len(inbox) /\ inbox'[i] = inbox[i + 1]
      /\ \A i \in 1 .. Len(inbox) : i # 1 => i - 1 \in 1 .. Len(inbox') /\ inbox[i] = inbox'[i - 1]
  BY <1>1, <1>2, HeadAndTail
<1>. HIDE DEF m
<1>9. old \in Task /\ left \in SUBSET (C!Sections \cup {"none"})  BY <1>2, <1>3, <1>4, <1>8
<1>. HIDE DEF old, left
<1>10. /\ n \in Task
       /\ \A x \in C!Sections :
              \/ x \in C!ToSet(old.todo)
              \/ \E i \in 1 .. Len(old.plan) : x \in C!ToSet(old.plan[i])
              => \/ x \in C!ToSet(n.todo)
                 \/ \E i \in 1 .. Len(n.plan) : x \in C!ToSet(n.plan[i])
  <2>1. CASE over /\ old.plan # <<>>
    <3>. DEFINE q == old.plan
    <3>1. q \in Seq(Seq(C!Sections)) /\ q # <<>>  BY <1>4, <1>9, <2>1
    <3>. HIDE DEF q
    <3>2. /\ Head(q) \in Seq(C!Sections) /\ Tail(q) \in Seq(Seq(C!Sections))
          /\ \A i \in 1 .. Len(q) :
                 q[i] = Head(q) \/ (i - 1 \in 1 .. Len(Tail(q)) /\ Tail(q)[i - 1] = q[i])
      BY <3>1, HeadAndTail
    <3>4. n \in Task /\ n.todo = Head(q) /\ n.plan = Tail(q)
      <4>1. n = [due |-> {}, todo |-> Head(q), plan |-> Tail(q)]  BY <2>1 DEF q
      <4>. QED  BY <3>2, <4>1 DEF Task
    <3>5. C!ToSet(old.todo) = {}  BY <2>1, Alone
    <3>. HIDE DEF n
    <3>. QED  BY <3>2, <3>4, <3>5 DEF q
  <2>2. CASE ~(over /\ old.plan # <<>>)
    <3>1. n = [old EXCEPT !.due = left]  BY <2>2
    <3>2. n \in Task /\ n.todo = old.todo /\ n.plan = old.plan  BY <1>9, <3>1 DEF Task
    <3>. HIDE DEF n
    <3>. QED  BY <3>2
  <2>. QED  BY <2>1, <2>2
<1>. HIDE DEF n, over
<1>11. task' \in [C!Tasks -> Task]  BY <1>1, <1>2, <1>10
<1>12. m.section # "none" =>
           /\ m.section \in C!Sections
           /\ cache[m.section] <= m.value /\ m.value <= truth[m.section]
  BY <1>3, <1>8 DEF InboxInv
<1>13. /\ cache' \in [C!Sections -> Nat]
       /\ \A x \in C!Sections : cache'[x] = IF m.section = x THEN m.value ELSE cache[x]
  BY <1>1, <1>2, <1>3, <1>7, <1>8
<1>14. \A x \in C!Sections : cache[x] <= cache'[x] /\ cache'[x] <= truth[x]
  <2>. SUFFICES ASSUME NEW x \in C!Sections PROVE cache[x] <= cache'[x] /\ cache'[x] <= truth[x]
    OBVIOUS
  <2>1. CASE m.section = x  BY <1>7, <1>12, <1>13, <2>1
  <2>2. CASE m.section # x
    <3>1. cache'[x] = cache[x] /\ cache[x] \in Nat  BY <1>2, <1>13, <2>2
    <3>. QED  BY <3>1 DEF InboxInv
  <2>. QED  BY <2>1, <2>2
<1>15. C!TypeOK'  BY <1>1, <1>2, <1>8, <1>11, <1>13 DEF Msg, Task, C!TypeOK
<1>16. InboxInv'
  <2>1. ASSUME NEW i \in 1 .. Len(inbox'), inbox'[i].section # "none"
        PROVE  /\ cache'[inbox'[i].section] <= inbox'[i].value
               /\ inbox'[i].value <= truth'[inbox'[i].section]
    <3>1. /\ inbox'[i] = inbox[i + 1] /\ i + 1 \in 1 .. Len(inbox) /\ 1 < i + 1
          /\ inbox[i + 1] \in Msg
      BY <1>2, <1>8
    <3>2. /\ cache[inbox'[i].section] <= inbox'[i].value
          /\ inbox'[i].value <= truth[inbox'[i].section]
          /\ inbox'[i].section \in C!Sections
      BY <1>3, <2>1, <3>1 DEF InboxInv
    <3>3. m.section = inbox'[i].section => m.value <= inbox'[i].value
      BY <1>8, <2>1, <3>1 DEF InboxInv
    <3>. QED  BY <1>1, <1>13, <3>2, <3>3
  <2>2. ASSUME NEW i \in 1 .. Len(inbox'), NEW j \in 1 .. Len(inbox'), i < j,
               inbox'[i].section = inbox'[j].section, inbox'[i].section # "none"
        PROVE  inbox'[i].value <= inbox'[j].value
    <3>1. /\ inbox'[i] = inbox[i + 1] /\ i + 1 \in 1 .. Len(inbox)
          /\ inbox'[j] = inbox[j + 1] /\ j + 1 \in 1 .. Len(inbox) /\ i + 1 < j + 1
      BY <1>8, <2>2
    <3>. QED  BY <2>2, <3>1 DEF InboxInv
  <2>. QED  BY <1>1, <1>14, <2>1, <2>2 DEF InboxInv
<1>17. ASSUME NEW x \in C!Sections \ {"general"} PROVE Cared(x)'
  <2>1. CASE cache[x] = truth[x]
    <3>1. cache'[x] = truth[x]  BY <1>2, <1>13, <1>14, <2>1
    <3>. QED  BY <1>1, <3>1 DEF Cared
  <2>2. CASE x \in missed  BY <1>1, <2>2 DEF Cared
  <2>3. CASE Told(x)  BY <1>1, <2>3 DEF Cared, Told
  <2>4. CASE Planned(x)
    <3>1. PICK u \in C!Tasks :
              \/ x \in C!ToSet(task[u].todo)
              \/ \E i \in 1 .. Len(task[u].plan) : x \in C!ToSet(task[u].plan[i])
      BY <2>4 DEF Planned
    <3>2. CASE u # m.to
      <4>1. task'[u] = task[u]  BY <1>1, <3>2
      <4>. QED  BY <3>1, <4>1 DEF Cared, Planned
    <3>3. CASE u = m.to
      <4>1. task'[u] = n  BY <1>1, <1>2, <3>3
      <4>2. \/ x \in C!ToSet(n.todo)
            \/ \E i \in 1 .. Len(n.plan) : x \in C!ToSet(n.plan[i])
        BY <1>10, <3>1, <3>3 DEF old
      <4>. QED  BY <4>1, <4>2 DEF Cared, Planned
    <3>. QED  BY <3>2, <3>3
  <2>5. CASE Answered(x)
    <3>1. PICK i \in 1 .. Len(inbox) : inbox[i].section = x /\ inbox[i].value = truth[x]
      BY <2>5 DEF Answered
    <3>2. CASE i = 1
      <4>1. cache'[x] = truth[x]  BY <1>8, <1>13, <3>1, <3>2
      <4>. QED  BY <1>1, <4>1 DEF Cared
    <3>3. CASE i # 1
      <4>1. i - 1 \in 1 .. Len(inbox') /\ inbox'[i - 1] = inbox[i] /\ truth' = truth
        BY <1>1, <1>8, <3>3
      <4>. QED  BY <3>1, <4>1 DEF Cared, Answered
    <3>. QED  BY <3>2, <3>3
  <2>. QED  BY <1>17, <2>1, <2>2, <2>3, <2>4, <2>5 DEF Cared
<1>. QED  BY <1>14, <1>15, <1>16, <1>17

\* The consumer takes a change and plans its reloads.
LEMMA TakeCares == ASSUME CacheInv, C!TakeChange PROVE CacheInv'
<1>. USE DEF CacheInv, C!TypeOK, C!Tasks
<1>. DEFINE m == [to |-> Consumer, section |-> "none", value |-> 0]
            reloads == C!Reloads(Head(buffer))
            n == [due |-> {"none"}, todo |-> <<>>,
                  plan |-> IF reloads = <<>> THEN <<>> ELSE <<reloads>>]
            Task == [due : SUBSET (C!Sections \cup {"none"}), todo : Seq(C!Sections),
                     plan : Seq(Seq(C!Sections))]
            Msg == [to : C!Tasks, section : C!Sections \cup {"none"}, value : Nat]
<1>1. /\ task[Consumer] = C!NoTask /\ buffer # <<>> /\ buffer' = Tail(buffer)
      /\ inbox' = Append(inbox, m) /\ task' = [task EXCEPT ![Consumer] = n]
      /\ UNCHANGED <<truth, cache, missed, commits>>
  BY DEF C!TakeChange, C!Idle
<1>2. inbox \in Seq(Msg) /\ task \in [C!Tasks -> Task] /\ m \in Msg /\ m.section = "none"
  OBVIOUS
<1>3. /\ Head(buffer) = buffer[1] /\ Head(buffer) \in C!Changes /\ buffer' \in Seq(C!Changes)
      /\ Len(buffer) \in Nat /\ Len(buffer') = Len(buffer) - 1
      /\ \A i \in 1 .. Len(buffer) :
             buffer[i] = Head(buffer) \/ (i - 1 \in 1 .. Len(buffer') /\ buffer'[i - 1] = buffer[i])
  <2>1. /\ Head(buffer) = buffer[1] /\ Head(buffer) \in C!Changes /\ Tail(buffer) \in Seq(C!Changes)
        /\ Len(buffer) \in Nat /\ Len(Tail(buffer)) = Len(buffer) - 1
        /\ \A i \in 1 .. Len(Tail(buffer)) : Tail(buffer)[i] = buffer[i + 1]
    BY <1>1, HeadTailProperties
  <2>. QED  BY <1>1, <2>1
<1>4. reloads \in Seq(C!Sections)  BY <1>3, ReloadsTyped
<1>. HIDE DEF reloads
<1>5. /\ n \in Task
      /\ \A x \in C!ToSet(reloads) : \E i \in 1 .. Len(n.plan) : x \in C!ToSet(n.plan[i])
  <2>1. CASE reloads = <<>>  BY <2>1, Alone
  <2>2. CASE reloads # <<>>
    <3>1. n.plan = <<reloads>> /\ <<reloads>> \in Seq(Seq(C!Sections))  BY <1>4, <2>2, Alone
    <3>2. n \in Task  BY <2>2, <3>1
    <3>3. Len(n.plan) = 1 /\ n.plan[1] = reloads  BY <3>1
    <3>. QED  BY <3>2, <3>3
  <2>. QED  BY <2>1, <2>2
<1>6. Consumer \in C!Tasks  OBVIOUS
<1>7. C!NoTask.todo = <<>> /\ C!NoTask.plan = <<>>  BY DEF C!NoTask
<1>. HIDE DEF m, n, Task, Msg
<1>8. /\ inbox' \in Seq(Msg) /\ Len(inbox) \in Nat /\ Len(inbox') = Len(inbox) + 1
      /\ \A i \in 1 .. Len(inbox) : i \in 1 .. Len(inbox') /\ inbox'[i] = inbox[i]
      /\ inbox'[Len(inbox')] = m
  BY <1>1, <1>2, Appended
<1>9. task' \in [C!Tasks -> Task]  BY <1>1, <1>2, <1>5
<1>10. C!TypeOK'  BY <1>1, <1>3, <1>8, <1>9, CacheAssumption DEF Msg, Task
<1>11. InboxInv'
  <2>1. \A i \in 1 .. Len(inbox') : inbox'[i].section # "none" => i \in 1 .. Len(inbox)
    BY <1>2, <1>8
  <2>2. \A i \in 1 .. Len(inbox') : inbox'[i].section # "none" => inbox'[i] = inbox[i]
    BY <1>8, <2>1
  <2>3. InboxInv  OBVIOUS
  <2>4. \A s \in C!Sections : cache'[s] <= truth'[s]  BY <1>1, <2>3 DEF InboxInv
  <2>5. \A i \in 1 .. Len(inbox') : inbox'[i].section # "none" =>
            /\ cache'[inbox'[i].section] <= inbox'[i].value
            /\ inbox'[i].value <= truth'[inbox'[i].section]
    BY <1>1, <2>1, <2>2, <2>3 DEF InboxInv
  <2>6. ASSUME NEW i \in 1 .. Len(inbox'), NEW j \in 1 .. Len(inbox'), i < j,
               inbox'[i].section = inbox'[j].section, inbox'[i].section # "none"
        PROVE  inbox'[i].value <= inbox'[j].value
    BY <2>1, <2>2, <2>3, <2>6 DEF InboxInv
  <2>. QED  BY <2>4, <2>5, <2>6 DEF InboxInv
<1>12. ASSUME NEW x \in C!Sections \ {"general"} PROVE Cared(x)'
  <2>1. CASE cache[x] = truth[x] \/ x \in missed  BY <1>1, <2>1 DEF Cared
  <2>2. CASE Told(x)
    <3>1. PICK i \in 1 .. Len(buffer) : x \in C!ToSet(C!Reloads(buffer[i]))
      BY <2>2 DEF Told
    <3>2. CASE buffer[i] = Head(buffer)
      <4>1. task'[Consumer] = n  BY <1>1, <1>2, <1>6
      <4>2. x \in C!ToSet(reloads)  BY <3>1, <3>2 DEF reloads
      <4>. QED  BY <1>5, <1>6, <4>1, <4>2 DEF Cared, Planned
    <3>3. CASE i - 1 \in 1 .. Len(buffer') /\ buffer'[i - 1] = buffer[i]
      BY <3>1, <3>3 DEF Cared, Told
    <3>. QED  BY <1>3, <3>2, <3>3
  <2>3. CASE Planned(x)
    <3>1. PICK u \in C!Tasks :
              \/ x \in C!ToSet(task[u].todo)
              \/ \E i \in 1 .. Len(task[u].plan) : x \in C!ToSet(task[u].plan[i])
      BY <2>3 DEF Planned
    <3>2. u # Consumer  BY <1>1, <1>7, <3>1, Alone
    <3>3. task'[u] = task[u]  BY <1>1, <3>2
    <3>. QED  BY <3>1, <3>3 DEF Cared, Planned
  <2>4. CASE Answered(x)  BY <1>1, <1>8, <2>4 DEF Cared, Answered
  <2>. QED  BY <1>12, <2>1, <2>2, <2>3, <2>4 DEF Cared
<1>. QED  BY <1>10, <1>11, <1>12

-----------------------------------------------------------------------------
(* The cache: the results                                                  *)

LEMMA CacheInit == C!Init => CacheInv
<1>. SUFFICES ASSUME C!Init PROVE CacheInv
  OBVIOUS
<1>. USE CacheAssumption DEF C!Init
<1>1. /\ truth \in [C!Sections -> Nat] /\ cache \in [C!Sections -> Nat]
      /\ \A s \in C!Sections : cache[s] = truth[s]
      /\ missed \subseteq C!Sections /\ commits \in 0 .. MaxCommits
  OBVIOUS
<1>2. /\ buffer = <<>> /\ Len(buffer) = 0 /\ buffer \in Seq(C!Changes) /\ Len(buffer) <= Capacity
      /\ inbox = <<>> /\ Len(inbox) = 0
      /\ inbox \in Seq([to : C!Tasks, section : C!Sections \cup {"none"}, value : Nat])
  OBVIOUS
<1>3. C!NoTask \in [due : SUBSET (C!Sections \cup {"none"}), todo : Seq(C!Sections),
                    plan : Seq(Seq(C!Sections))]
  BY Alone DEF C!NoTask
<1>4. C!TypeOK  BY <1>1, <1>2, <1>3 DEF C!TypeOK
<1>5. InboxInv  BY <1>1, <1>2 DEF InboxInv
<1>. QED  BY <1>1, <1>4, <1>5 DEF CacheInv, Cared

\* Every step of the cache keeps the invariant, and no copy goes back.
LEMMA CacheKept ==
    ASSUME CacheInv, [C!Next]_C!vars
    PROVE  CacheInv' /\ \A s \in C!Sections : cache[s] <= cache'[s]
<1>1. CASE cache' = cache /\ CacheInv'
  <2>1. \A s \in C!Sections : cache[s] \in Nat  BY DEF CacheInv, C!TypeOK
  <2>. QED  BY <1>1, <2>1
<1>2. ASSUME NEW t \in Screens,
             \/ C!Update(t) \/ C!MakeDefault(t) \/ C!ChangeService(t) \/ C!Reorder(t)
             \/ C!ChangeProvider(t) \/ C!Restore(t)
      PROVE  cache' = cache /\ CacheInv'
  <2>1. CacheInv'  BY <1>2, CommandCares
  <2>2. cache' = cache
    BY <1>2 DEF C!Update, C!MakeDefault, C!ChangeService, C!Reorder, C!ChangeProvider,
                C!Restore, C!Commit
  <2>. QED  BY <2>1, <2>2
<1>3. CASE C!LibraryChange
  <2>1. cache' = cache  BY <1>3 DEF C!LibraryChange
  <2>. QED  BY <1>1, <1>3, <2>1, LibraryCares
<1>4. ASSUME NEW t \in C!Tasks, C!Read(t) PROVE cache' = cache /\ CacheInv'
  <2>1. cache' = cache  BY <1>4 DEF C!Read
  <2>. QED  BY <1>4, <2>1, ReadCares
<1>5. CASE C!Deliver  BY <1>5, DeliverCares
<1>6. CASE C!TakeChange
  <2>1. cache' = cache  BY <1>6 DEF C!TakeChange
  <2>. QED  BY <1>1, <1>6, <2>1, TakeCares
<1>7. CASE UNCHANGED C!vars
  <2>1. UNCHANGED <<truth, cache, buffer, missed, inbox, task, commits>>  BY <1>7 DEF C!vars
  <2>2. cache' = cache  BY <2>1
  <2>3. CacheInv'
    BY <2>1 DEF CacheInv, C!TypeOK, InboxInv, Cared, Told, Planned, Answered
  <2>. QED  BY <1>1, <2>2, <2>3
<1>. QED  BY <1>1, <1>2, <1>3, <1>4, <1>5, <1>6, <1>7 DEF C!Next

-----------------------------------------------------------------------------
(* The results                                                             *)

WindowsInv == CredentialsInv /\ CacheInv

LEMMA CredentialsInit == Init => CredentialsInv
<1>. SUFFICES ASSUME Init PROVE CredentialsInv
  OBVIOUS
<1>. USE CredentialsAssumption DEF Init
<1>1. TypeOK
  <2>1. save \in Saves  BY DEF IdleSave, Saves, Value
  <2>2. del \in Deletes  BY DEF IdleDelete, Deletes
  <2>3. load \in Loads  BY DEF IdleLoad, Loads, Value
  <2>. QED  BY <2>1, <2>2, <2>3 DEF TypeOK, Entry, Value
<1>2. NoGhost  BY DEF NoGhost
<1>3. FlowsInv
  BY DEF FlowsInv, SaveInv, DeleteInv, LoadInv, IdleSave, IdleDelete, IdleLoad
<1>4. SmoothState
  BY DEF SmoothState, Busy, Wanted, IdleSave, IdleDelete, IdleLoad
<1>. QED  BY <1>1, <1>2, <1>3, <1>4 DEF CredentialsInv

LEMMA CredentialsKept == ASSUME CredentialsInv, [Next]_vars PROVE CredentialsInv'
BY StepTyped, GhostKept, FlowsKept, SmoothKept DEF CredentialsInv

\* A step of the windows is one of the credentials or one of the cache.
LEMMA WindowsSteps ==
    ASSUME [CredentialsNext \/ CacheNext]_<<part, vars, cached>>
    PROVE  [Next]_vars /\ [C!Next]_C!vars
<1>1. CASE CredentialsNext
  <2>1. UNCHANGED C!vars  BY <1>1 DEF CredentialsNext, cached, C!vars
  <2>. QED  BY <1>1, <2>1 DEF CredentialsNext
<1>2. CASE CacheNext  BY <1>2 DEF CacheNext
<1>3. CASE UNCHANGED <<part, vars, cached>>
  <2>1. UNCHANGED vars /\ UNCHANGED cached  BY <1>3
  <2>. QED  BY <2>1 DEF cached, C!vars
<1>. QED  BY <1>1, <1>2, <1>3

\* The invariant of the windows, of all their providers, screens and sections.
THEOREM WindowsInductive == WindowsSpec => []WindowsInv
<1>1. WindowsInit => WindowsInv
  BY CredentialsInit, CacheInit DEF WindowsInit, WindowsInv
<1>2. WindowsInv /\ [CredentialsNext \/ CacheNext]_<<part, vars, cached>> => WindowsInv'
  BY WindowsSteps, CredentialsKept, CacheKept DEF WindowsInv
<1>. QED  BY <1>1, <1>2, PTL DEF WindowsSpec

\* Every variable of the credentials and of the cache keeps its type.
THEOREM TypesStayCorrect == WindowsSpec => []WindowsTypeOK
<1>1. WindowsInv => WindowsTypeOK
  BY DEF WindowsInv, CredentialsInv, CacheInv, WindowsTypeOK
<1>. QED  BY <1>1, WindowsInductive, PTL

\* Whatever the flows interleave with and wherever they fail or the process
\* dies, the runtime holds no credential of a provider that is gone.
THEOREM NoGhostEver == WindowsSpec => []NoGhost
<1>1. WindowsInv => NoGhost  BY DEF WindowsInv, CredentialsInv
<1>. QED  BY <1>1, WindowsInductive, PTL

\* At rest after a smooth run the runtime works with the vault's credentials.
THEOREM RuntimeFollowsVault == WindowsSpec => []RuntimeMatchesVault
<1>1. ASSUME WindowsInv PROVE RuntimeMatchesVault
  <2>. SUFFICES ASSUME smooth, AtRest, NEW p \in Providers
                PROVE  secrets[p] = IF settings[p] = "ref" THEN vault[p] ELSE None
    BY DEF RuntimeMatchesVault
  <2>1. save.p = None /\ del.p = None /\ p # None
    BY <1>1, CredentialsAssumption
       DEF WindowsInv, CredentialsInv, FlowsInv, SaveInv, DeleteInv, AtRest
  <2>2. ~Busy(p)  BY <2>1 DEF Busy, AtRest
  <2>. QED  BY <1>1, <2>2 DEF WindowsInv, CredentialsInv, SmoothState, Wanted
<1>. QED  BY <1>1, WindowsInductive, PTL

\* A save or a deletion no other flow disturbed has done what its return says.
THEOREM FlowsKeepTheirWord == WindowsSpec => []FlowsKeepWord
<1>1. ASSUME WindowsInv PROVE FlowsKeepWord
  <2>1. SavedIsUsed
    BY <1>1 DEF WindowsInv, CredentialsInv, FlowsInv, SaveInv, CalmSave, SavedIsUsed, Wanted
  <2>2. DeletedIsGone
    BY <1>1 DEF WindowsInv, CredentialsInv, FlowsInv, DeleteInv, CalmDelete, NoGhost, DeletedIsGone
  <2>. QED  BY <2>1, <2>2 DEF FlowsKeepWord
<1>. QED  BY <1>1, WindowsInductive, PTL

\* No undisturbed save turns a provider's reference into a field without one.
THEOREM ReferencesKept == WindowsSpec => ReferenceKept
<1>. DEFINE Kept == \A p \in Providers :
          settings[p] = "ref" /\ settings'[p] = "plain" => load.step = "restore" \/ ~save.calm
<1>1. ASSUME WindowsInv, [Next]_vars PROVE [Kept]_vars
  <2>. USE DEF WindowsInv, CredentialsInv, FlowsInv, SaveInv, CalmSave, TypeOK
  <2>1. CASE UNCHANGED settings  BY <2>1
  <2>2. CASE SaveCommits  BY <1>1, <2>2 DEF SaveCommits
  <2>3. CASE DeleteRemoves  BY <1>1, <2>3 DEF DeleteRemoves
  <2>4. CASE Restores  BY <2>4 DEF Restores
  <2>5. CASE UNCHANGED vars  BY <2>5
  <2>6. UNCHANGED settings \/ SaveCommits \/ DeleteRemoves \/ Restores \/ UNCHANGED vars
    BY <1>1 DEF Next, SaveStep, DeleteStep, LoadStep, StartSave, SaveWrites, SaveReads, SaveSets,
                SaveEnds, SaveFails, StartDelete, DeleteLooks, DeleteErases, DeleteEnds,
                DeleteFails, Export, StartRestore, LoadLists, LoadReads, LoadSets, LoadEnds,
                LoadFails, Refresh, Restart
  <2>. QED  BY <2>1, <2>2, <2>3, <2>4, <2>5, <2>6
<1>2. WindowsInv /\ [CredentialsNext \/ CacheNext]_<<part, vars, cached>> => [Kept]_vars
  BY <1>1, WindowsSteps
<1>. QED  BY <1>2, WindowsInductive, PTL DEF WindowsSpec, ReferenceKept

\* No copy of the store goes back, whatever order the answers come in.
THEOREM CopiesNeverGoBack == WindowsSpec => NeverBackwards
<1>. DEFINE Newer == \A s \in C!Sections : cache'[s] >= cache[s]
<1>1. ASSUME WindowsInv, [C!Next]_C!vars PROVE Newer
  <2>1. CacheInv' /\ \A s \in C!Sections : cache[s] <= cache'[s]
    BY <1>1, CacheKept DEF WindowsInv
  <2>2. \A s \in C!Sections : cache[s] \in Nat /\ cache'[s] \in Nat
    BY <1>1, <2>1 DEF WindowsInv, CacheInv, C!TypeOK
  <2>. QED  BY <2>1, <2>2
<1>2. WindowsInv /\ [CredentialsNext \/ CacheNext]_<<part, vars, cached>> => [Newer]_C!vars
  BY <1>1, WindowsSteps
<1>. QED  BY <1>2, WindowsInductive, PTL DEF WindowsSpec, NeverBackwards, C!NeverBackwards

\* Once every message is handled the store shows the runtime's settings.
THEOREM CacheSettlesFresh == WindowsSpec => []SettledFresh
<1>1. ASSUME WindowsInv PROVE SettledFresh
  <2>. SUFFICES ASSUME C!Settled, NEW s \in C!Sections \ {"general"}
                PROVE  cache[s] = truth[s] \/ s \in missed
    BY DEF SettledFresh, C!SettledFresh
  <2>1. Len(inbox) = 0 /\ Len(buffer) = 0  BY DEF C!Settled
  <2>2. ~Told(s) /\ ~Answered(s)  BY <2>1 DEF Told, Answered
  <2>3. ~Planned(s)
    <3>1. C!NoTask.todo = <<>> /\ C!NoTask.plan = <<>>  BY DEF C!NoTask
    <3>. QED  BY <3>1, Alone DEF Planned, C!Settled, C!Idle
  <2>. QED  BY <1>1, <2>2, <2>3 DEF WindowsInv, CacheInv, Cared
<1>. QED  BY <1>1, WindowsInductive, PTL

=============================================================================
