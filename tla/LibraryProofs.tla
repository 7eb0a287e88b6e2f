---------------------------- MODULE LibraryProofs ----------------------------
(***************************************************************************)
(* The results about the libraries, for any rows, contents, retention,     *)
(* clock and number of targets, said of the specification that puts the    *)
(* libraries side by side: each takes its own steps or none, so that what  *)
(* holds of it alone holds there.                                          *)
(*                                                                         *)
(* The history is proved here, the vocabulary book and the backup in       *)
(* modules of their own.  That a promised row is in memory is not          *)
(* inductive: a restart takes it from the file.  The invariant says that   *)
(* it is in both, the same, and not overdue; what a prune removes is then  *)
(* never promised, because the code's saturating age finds expired exactly *)
(* what is overdue.                                                        *)
(***************************************************************************)
EXTENDS MC_Library, TLAPS

VP == INSTANCE VocabularyProofs WITH
    entries <- book, disk <- bookFile, apart <- bookApart,
    promised <- bookPromised, ops <- bookOps, MaxOps <- 4

BP == INSTANCE BackupProofs WITH ops <- moves, MaxOps <- 4

-----------------------------------------------------------------------------
PromisedEverywhere ==
    \A id \in DOMAIN promised :
        /\ id \in DOMAIN entries /\ entries[id] = promised[id]
        /\ id \in DOMAIN disk /\ disk[id] = promised[id]
        /\ ~Overdue(promised[id], now)

IInv == TypeOK /\ Durable /\ PromisedEverywhere

-----------------------------------------------------------------------------
\* The code's test of age is the right one, for a row of the future too.
LEMMA ExpiredIsOverdue ==
    ASSUME NEW row \in Row, NEW t \in Time
    PROVE  Expired(row, t) <=> Overdue(row, t)
BY HistoryAssumption DEF Row, Time, Expired, Overdue, Age

\* Pruning keeps what is not overdue, as it is.
LEMMA KeptRows ==
    ASSUME NEW rows, Rows(rows), NEW t \in Time
    PROVE  /\ Rows(Kept(rows, t))
           /\ \A id \in DOMAIN rows : ~Overdue(rows[id], t) =>
                  id \in DOMAIN Kept(rows, t) /\ Kept(rows, t)[id] = rows[id]
<1>1. /\ DOMAIN Kept(rows, t) = {id \in DOMAIN rows : ~Expired(rows[id], t)}
      /\ \A id \in DOMAIN Kept(rows, t) : Kept(rows, t)[id] = rows[id]
  BY DEF Kept, Restrict
<1>2. \A id \in DOMAIN rows : Expired(rows[id], t) <=> Overdue(rows[id], t)
  BY ExpiredIsOverdue DEF Rows
<1>. QED  BY <1>1, <1>2 DEF Rows

\* What upsert_entry and set_favorite share: one row is put, the rest pruned.
LEMMA PutKeeps ==
    ASSUME IInv, ops' \in 0 .. MaxOps, NEW id \in Ids, NEW row \in Row,
           entries' = Kept(With(entries, id, row), now),
           Persist,
           promised' = IF apart' THEN Unpromised({id}) ELSE Promise(id, row),
           UNCHANGED now
    PROVE  IInv'
<1>. DEFINE put == With(entries, id, row)
<1>. USE DEF IInv
<1>1. /\ DOMAIN put = DOMAIN entries \cup {id}
      /\ put[id] = row
      /\ \A k \in DOMAIN entries \ {id} : put[k] = entries[k]
  BY DEF With
<1>2. Rows(put)  BY <1>1 DEF TypeOK, Rows
<1>3. /\ Rows(entries')
      /\ \A k \in DOMAIN put : ~Overdue(put[k], now) =>
             k \in DOMAIN entries' /\ entries'[k] = put[k]
  <2>1. entries' = Kept(put, now)  OBVIOUS
  <2>. HIDE DEF put
  <2>. QED  BY <1>2, <2>1, KeptRows DEF TypeOK
<1>4. /\ DOMAIN promised' \subseteq DOMAIN promised \cup {id}
      /\ \A k \in DOMAIN promised' \ {id} : promised'[k] = promised[k]
      /\ id \in DOMAIN promised' => ~apart' /\ promised'[id] = row /\ ~Overdue(row, now)
  <2>1. CASE apart' \/ Overdue(row, now)
    BY <2>1 DEF Promise, Unpromised, Restrict
  <2>2. CASE ~apart' /\ ~Overdue(row, now)
    BY <2>2 DEF Promise, With
  <2>. QED  BY <2>1, <2>2
<1>5. \A k \in DOMAIN promised' : k \in DOMAIN entries' /\ entries'[k] = promised'[k]
                                   /\ ~Overdue(promised'[k], now)
  BY <1>1, <1>3, <1>4 DEF PromisedEverywhere
<1>6. \A k \in DOMAIN promised' : k \in DOMAIN disk' /\ disk'[k] = promised'[k]
  BY <1>4, <1>5 DEF PromisedEverywhere, Persist
<1>7. Rows(promised')  BY <1>3, <1>5 DEF Rows
<1>8. TypeOK'  BY <1>3, <1>7 DEF TypeOK, Persist
<1>9. Durable'  BY DEF Durable, Persist
<1>10. PromisedEverywhere'  BY <1>5, <1>6 DEF PromisedEverywhere
<1>. QED  BY <1>8, <1>9, <1>10

-----------------------------------------------------------------------------
LEMMA NoRows == Rows(<<>>) /\ DOMAIN <<>> = {}
BY DEF Rows

LEMMA InitHolds == Init => IInv
<1>. SUFFICES ASSUME Init PROVE IInv
  OBVIOUS
<1>1. TypeOK
  <2>1. Rows(entries) /\ Rows(disk) /\ Rows(promised)  BY NoRows DEF Init
  <2>2. now \in Time /\ apart \in BOOLEAN  BY DEF Init
  <2>3. ops \in 0 .. MaxOps  BY HistoryAssumption DEF Init
  <2>. QED  BY <2>1, <2>2, <2>3 DEF TypeOK
<1>2. Durable  BY DEF Init, Durable
<1>3. PromisedEverywhere  BY NoRows DEF Init, PromisedEverywhere
<1>. QED  BY <1>1, <1>2, <1>3 DEF IInv

LEMMA StepKeeps == ASSUME IInv, [Next]_vars PROVE IInv'
<1>0. Command => ops' \in 0 .. MaxOps  BY HistoryAssumption DEF Command, IInv, TypeOK
<1>1. CASE List
  <2>1. /\ Rows(entries')
        /\ \A id \in DOMAIN promised : id \in DOMAIN entries' /\ entries'[id] = promised[id]
    BY <1>1, KeptRows DEF List, IInv, TypeOK, PromisedEverywhere
  <2>. QED
    BY <1>1, <2>1 DEF List, Persist, IInv, TypeOK, Durable, PromisedEverywhere
<1>2. ASSUME NEW id \in Ids, NEW c \in Contents, Upsert(id, c) PROVE IInv'
  <2>. DEFINE row == IF id \in DOMAIN entries
                     THEN [entries[id] EXCEPT !.content = c]
                     ELSE [content |-> c, favorite |-> FALSE, created |-> now]
  <2>1. row \in Row  BY DEF IInv, TypeOK, Rows, Row
  <2>2. /\ entries' = Kept(With(entries, id, row), now)
        /\ Persist
        /\ promised' = IF apart' THEN Unpromised({id}) ELSE Promise(id, row)
        /\ UNCHANGED now
    BY <1>2 DEF Upsert
  <2>3. ops' \in 0 .. MaxOps  BY <1>0, <1>2 DEF Upsert
  <2>. HIDE DEF row
  <2>. QED  BY <2>1, <2>2, <2>3, PutKeeps
<1>3. ASSUME NEW id \in Ids, NEW favorite \in BOOLEAN, SetFavorite(id, favorite) PROVE IInv'
  <2>. DEFINE row == [entries[id] EXCEPT !.favorite = favorite]
  <2>1. row \in Row  BY <1>3 DEF SetFavorite, IInv, TypeOK, Rows, Row
  <2>2. /\ entries' = Kept(With(entries, id, row), now)
        /\ Persist
        /\ promised' = IF apart' THEN Unpromised({id}) ELSE Promise(id, row)
        /\ UNCHANGED now
    BY <1>3 DEF SetFavorite
  <2>3. ops' \in 0 .. MaxOps  BY <1>0, <1>3 DEF SetFavorite
  <2>. HIDE DEF row
  <2>. QED  BY <2>1, <2>2, <2>3, PutKeeps
<1>4. ASSUME NEW ids \in SUBSET Ids, Delete(ids) PROVE IInv'
  <2>1. /\ DOMAIN entries' = DOMAIN entries \ ids
        /\ \A id \in DOMAIN entries' : entries'[id] = entries[id]
        /\ DOMAIN promised' = DOMAIN promised \ ids
        /\ \A id \in DOMAIN promised' : promised'[id] = promised[id]
    BY <1>4 DEF Delete, Unpromised, Restrict
  <2>2. TypeOK'  BY <1>0, <1>4, <2>1 DEF Delete, Persist, IInv, TypeOK, Rows
  <2>3. Durable'  BY <1>4 DEF Delete, Persist, Durable
  <2>4. PromisedEverywhere'
    BY <1>4, <2>1 DEF Delete, Persist, IInv, PromisedEverywhere
  <2>. QED  BY <2>2, <2>3, <2>4 DEF IInv
<1>5. CASE SetClock
  <2>1. /\ DOMAIN promised' \subseteq DOMAIN promised
        /\ \A id \in DOMAIN promised' :
               promised'[id] = promised[id] /\ ~Overdue(promised'[id], now')
    BY <1>5 DEF SetClock, Restrict
  <2>. QED
    BY <1>0, <1>5, <2>1 DEF SetClock, IInv, TypeOK, Rows, Durable, PromisedEverywhere
<1>6. CASE LoadReads
  <2>1. /\ Rows(entries')
        /\ \A id \in DOMAIN promised : id \in DOMAIN entries' /\ entries'[id] = promised[id]
    BY <1>6, KeptRows DEF LoadReads, IInv, TypeOK, PromisedEverywhere
  <2>2. /\ \/ disk' = entries' /\ apart' = FALSE
           \/ disk' = disk /\ apart' \in BOOLEAN /\ (~apart' => entries' = disk')
        /\ now' = now /\ promised' = promised
    BY <1>6 DEF LoadReads, Persist
  <2>. QED
    BY <1>0, <1>6, <2>1, <2>2 DEF LoadReads, IInv, TypeOK, Durable, PromisedEverywhere
<1>7. CASE LoadQuarantines
  <2>1. TypeOK'  BY <1>0, <1>7, NoRows DEF LoadQuarantines, IInv, TypeOK
  <2>2. Durable'  BY <1>7 DEF LoadQuarantines, Durable
  <2>3. PromisedEverywhere'  BY <1>7, NoRows DEF LoadQuarantines, PromisedEverywhere
  <2>. QED  BY <2>1, <2>2, <2>3 DEF IInv
<1>8. CASE LoadStartsEmpty
  <2>1. TypeOK'  BY <1>0, <1>8, NoRows DEF LoadStartsEmpty, IInv, TypeOK
  <2>2. Durable'  BY <1>8 DEF LoadStartsEmpty, Durable
  <2>3. PromisedEverywhere'  BY <1>8, NoRows DEF LoadStartsEmpty, PromisedEverywhere
  <2>. QED  BY <2>1, <2>2, <2>3 DEF IInv
<1>9. CASE UNCHANGED vars
  BY <1>9 DEF vars, IInv, TypeOK, Durable, PromisedEverywhere
<1>. QED
  BY <1>1, <1>2, <1>3, <1>4, <1>5, <1>6, <1>7, <1>8, <1>9 DEF Next

\* The invariant holds in every reachable state.
THEOREM Inductive == Spec => []IInv
<1>1. IInv /\ [Next]_vars => IInv'  BY StepKeeps
<1>. QED  BY <1>1, InitHolds, PTL DEF Spec

-----------------------------------------------------------------------------
LEMMA HistorySteps == LibrarySpec => Spec
<1>1. LibraryInit => Init  BY DEF LibraryInit
<1>2. [LibraryNext]_<<part, vars, bookVars, backupVars>> => [Next]_vars  BY DEF LibraryNext
<1>. QED  BY <1>1, <1>2, PTL DEF LibrarySpec, Spec

LEMMA BookSteps == LibrarySpec => VP!Spec
<1>1. LibraryInit => VP!Init  BY DEF LibraryInit, V!Init, VP!Init
<1>2. V!Next => VP!Next
  BY DEF V!Next, V!Upsert, V!SetNote, V!SetFavorite, V!Delete, V!Reload, V!Refresh,
         V!Read, V!Show, V!Load, V!LoadLoses, V!Built, V!Command, V!With, V!Without, V!Commit,
         V!store,
         VP!Next, VP!Upsert, VP!SetNote, VP!SetFavorite, VP!Delete, VP!Reload, VP!Refresh,
         VP!Read, VP!Show, VP!Load, VP!LoadLoses, VP!Built, VP!Command, VP!With, VP!Without,
         VP!Commit, VP!store,
         V!Restrict, VP!Restrict
<1>3. UNCHANGED bookVars => UNCHANGED VP!vars  BY DEF bookVars, VP!vars, VP!store, VP!window
<1>4. [LibraryNext]_<<part, vars, bookVars, backupVars>> => [VP!Next]_VP!vars
  <2>1. LibraryNext => V!Next \/ UNCHANGED bookVars  BY DEF LibraryNext
  <2>2. UNCHANGED <<part, vars, bookVars, backupVars>> => UNCHANGED bookVars  OBVIOUS
  <2>. QED  BY <1>2, <1>3, <2>1, <2>2
<1>. QED  BY <1>1, <1>4, PTL DEF LibrarySpec, VP!Spec

LEMMA BackupSteps == LibrarySpec => BP!Spec
<1>1. LibraryInit => BP!Init
  BY DEF LibraryInit, B!Init, BP!Init, B!Targets, BP!Targets, B!SettingsFile, BP!SettingsFile,
         B!Empty, BP!Empty
<1>2. B!Next => BP!Next
  BY DEF B!Next, B!Write, B!Export, B!Begin, B!Save, B!Install, B!Fail, B!Commit, B!Remove,
         B!Back, B!Clean, B!Crash, B!Restart, B!Command, B!Forward, B!CanReplace, B!Restoring,
         B!ghosts,
         BP!Next, BP!Write, BP!Export, BP!Begin, BP!Save, BP!Install, BP!Fail, BP!Commit,
         BP!Remove, BP!Back, BP!Clean, BP!Crash, BP!Restart, BP!Command, BP!Forward,
         BP!CanReplace, BP!Restoring, BP!ghosts,
         B!Targets, B!SettingsFile, B!GlossaryFolder, B!Empty,
         BP!Targets, BP!SettingsFile, BP!GlossaryFolder, BP!Empty
<1>3. UNCHANGED backupVars => UNCHANGED BP!vars  BY DEF backupVars, BP!vars, BP!ghosts
<1>4. [LibraryNext]_<<part, vars, bookVars, backupVars>> => [BP!Next]_BP!vars
  <2>1. LibraryNext => B!Next \/ UNCHANGED backupVars  BY DEF LibraryNext
  <2>2. UNCHANGED <<part, vars, bookVars, backupVars>> => UNCHANGED backupVars  OBVIOUS
  <2>. QED  BY <1>2, <1>3, <2>1, <2>2
<1>. QED  BY <1>1, <1>4, PTL DEF LibrarySpec, BP!Spec

-----------------------------------------------------------------------------
\* A row whose last command succeeded stays as it was told until it is overdue,
\* deleted or lost with its file.
THEOREM PromisesStayKept == LibrarySpec => []PromisesKept
<1>1. IInv => PromisesKept  BY DEF IInv, PromisedEverywhere, PromisesKept
<1>. QED  BY <1>1, HistorySteps, Inductive, PTL

\* Memory and file agree unless the last write failed or the file could not be
\* read.
THEOREM HistoryDurable == LibrarySpec => []Durable
<1>1. IInv => Durable  BY DEF IInv
<1>. QED  BY <1>1, HistorySteps, Inductive, PTL

\* Memory and file agree unless a write failed, a row is there as its user was
\* last told, and a window whose reloads are over lists what the book holds, but
\* for rows others have changed since, or a command that failed.
THEOREM BookStaysKept == LibrarySpec => []BookKept
<1>1. VP!BookKept => BookKept
  BY DEF BookKept, V!BookKept, V!Durable, V!PromisesKept, V!WindowCurrent,
         V!Without, V!Restrict,
         VP!BookKept, VP!Durable, VP!PromisesKept, VP!WindowCurrent, VP!Without, VP!Restrict
<1>. QED  BY <1>1, BookSteps, VP!BookStaysKept, PTL

\* A restore that comes back alive changed every target or none, but for those
\* of which a step back failed, and the stores hold what the files do.
THEOREM RestoresAllOrNothing == LibrarySpec => []AllOrNothing
<1>1. BP!AllOrNothing => AllOrNothing
  BY DEF AllOrNothing, B!AllOrNothing, BP!AllOrNothing, B!Targets, BP!Targets
<1>2. BP!Spec => []BP!AllOrNothing  BY BackupAssumption, BP!RestoresAllOrNothing
<1>. QED  BY <1>1, <1>2, BackupSteps, PTL

\* No content a restore moves is lost, whatever fails and whenever the process
\* dies, unless a step back failed for it.
THEOREM CopiesSurvive == LibrarySpec => []CopySurvives
<1>1. BP!CopySurvives => CopySurvives
  BY DEF CopySurvives, B!CopySurvives, BP!CopySurvives, B!Targets, BP!Targets
<1>2. BP!Spec => []BP!CopySurvives  BY BackupAssumption, BP!CopiesSurvive
<1>. QED  BY <1>1, <1>2, BackupSteps, PTL

\* Every reachable state of the three stores is well typed.
THEOREM TypesStayCorrect == LibrarySpec => []LibraryTypeOK
<1>1. IInv => TypeOK  BY DEF IInv
<1>2. VP!Spec => []VP!TypeOK  BY VP!TypeCorrect
<1>3. VP!TypeOK => V!TypeOK
  BY DEF VP!TypeOK, VP!Rows, VP!Row, V!TypeOK, V!Rows, V!Row
<1>4. BP!Spec => []BP!IInv  BY BackupAssumption, BP!Inductive
<1>5. BP!IInv => B!TypeOK
  BY DEF BP!IInv, BP!TypeOK, BP!Directory, BP!Targets, B!TypeOK, B!Directory, B!Targets
<1>6. IInv /\ VP!TypeOK /\ BP!IInv => LibraryTypeOK  BY <1>1, <1>3, <1>5 DEF LibraryTypeOK
<1>. QED  BY <1>2, <1>4, <1>6, HistorySteps, BookSteps, BackupSteps, Inductive, PTL
=============================================================================
