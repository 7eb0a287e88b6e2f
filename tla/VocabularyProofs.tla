-------------------------- MODULE VocabularyProofs --------------------------
(***************************************************************************)
(* The vocabulary book's safety for any rows, texts, notes and number of   *)
(* commands.                                                               *)
(*                                                                         *)
(* A restart takes the rows from the file, so a promised row is kept only  *)
(* if it is in memory and on disk, the same in both.  What a reload has    *)
(* read is memory as it was then: it differs from memory in the rows that  *)
(* are news, and in those of a command of the window itself, for which a   *)
(* further reload is owed.                                                 *)
(***************************************************************************)
EXTENDS VocabularyStore, TLAPS

PromisedEverywhere ==
    \A id \in DOMAIN promised :
        /\ id \in DOMAIN entries /\ entries[id] = promised[id]
        /\ id \in DOMAIN disk /\ disk[id] = promised[id]

Flags == apart \in BOOLEAN /\ owed \in BOOLEAN

\* The rows outside a set are the same in both.
SameBut(a, b, set) ==
    /\ DOMAIN a \ set = DOMAIN b \ set
    /\ \A id \in DOMAIN a \ set : a[id] = b[id]

\* What is listed, and what a reload has read.
Listed ==
    /\ ~owed /\ listing = "over" => SameBut(shown, entries, news)
    /\ ~owed /\ listing = "read" => SameBut(loaded, entries, news)

IInv == Flags /\ Durable /\ PromisedEverywhere /\ Listed

-----------------------------------------------------------------------------
\* What every command on rows ends with: rows that differ from memory in the
\* command's own, and are promised only where they are kept.
LEMMA CommitKeeps ==
    ASSUME IInv, NEW rows, NEW ids, NEW kept, NEW own \in BOOLEAN,
           kept \subseteq DOMAIN rows, kept \subseteq ids,
           SameBut(rows, entries, ids),
           Commit(rows, ids, kept, own)
    PROVE  IInv'
<1>. USE DEF IInv
<1>1. entries' = rows /\ UNCHANGED <<listing, loaded, shown>>  BY DEF Commit
<1>2. \A k \in DOMAIN entries \ ids : k \in DOMAIN rows /\ rows[k] = entries[k]
  BY DEF SameBut
<1>3. CASE /\ disk' = rows /\ apart' = FALSE
           /\ promised' = [id \in (DOMAIN promised \ ids) \cup kept |->
                              IF id \in kept THEN rows[id] ELSE promised[id]]
           /\ owed' = (owed \/ own)
           /\ news' = (IF own THEN news ELSE news \cup ids)
  <2>1. /\ DOMAIN promised' = (DOMAIN promised \ ids) \cup kept
        /\ \A id \in DOMAIN promised' :
               promised'[id] = IF id \in kept THEN rows[id] ELSE promised[id]
    BY <1>3
  <2>2. \A id \in DOMAIN promised' : id \in DOMAIN rows /\ rows[id] = promised'[id]
    BY <1>2, <2>1 DEF PromisedEverywhere
  <2>3. PromisedEverywhere'  BY <1>1, <1>3, <2>2 DEF PromisedEverywhere
  <2>4. Flags' /\ Durable'  BY <1>1, <1>3 DEF Flags, Durable
  <2>5. Listed'
    <3>1. CASE own  BY <1>3, <3>1 DEF Listed
    <3>2. CASE ~own
      <4>1. owed' = owed /\ news' = news \cup ids  BY <1>3, <3>2 DEF Flags
      <4>. QED  BY <1>1, <4>1 DEF Listed, SameBut
    <3>. QED  BY <3>1, <3>2
  <2>. QED  BY <2>3, <2>4, <2>5
<1>4. CASE /\ disk' = disk /\ apart' = TRUE
           /\ promised' = Without(promised, ids)
           /\ owed' = owed
           /\ news' = news \cup ids
  <2>1. /\ DOMAIN promised' = DOMAIN promised \ ids
        /\ \A id \in DOMAIN promised' : promised'[id] = promised[id]
    BY <1>4 DEF Without, Restrict
  <2>2. PromisedEverywhere'  BY <1>1, <1>2, <1>4, <2>1 DEF PromisedEverywhere
  <2>3. Flags' /\ Durable'  BY <1>4 DEF Flags, Durable
  <2>4. Listed'  BY <1>1, <1>4 DEF Listed, SameBut
  <2>. QED  BY <2>2, <2>3, <2>4
<1>. QED  BY <1>3, <1>4 DEF Commit

LEMMA PutKeeps ==
    ASSUME IInv, NEW id, NEW row, NEW own \in BOOLEAN,
           Commit(With(entries, id, row), {id}, {id}, own)
    PROVE  IInv'
<1>. DEFINE rows == With(entries, id, row)
<1>1. {id} \subseteq DOMAIN rows /\ SameBut(rows, entries, {id})  BY DEF With, SameBut
<1>2. Commit(rows, {id}, {id}, own)  OBVIOUS
<1>. HIDE DEF rows
<1>. QED  BY <1>1, <1>2, CommitKeeps

-----------------------------------------------------------------------------
LEMMA NothingIn == DOMAIN <<>> = {}
OBVIOUS

LEMMA InitHolds == Init => IInv
BY NothingIn DEF Init, IInv, Flags, Durable, PromisedEverywhere, Listed

LEMMA StepKeeps == ASSUME IInv, [Next]_vars PROVE IInv'
<1>1. ASSUME NEW id \in Ids, NEW text \in Texts, NEW note \in Notes \cup {NoNote},
             Upsert(id, text, note)
      PROVE  IInv'
  BY <1>1, PutKeeps DEF Upsert
<1>2. ASSUME NEW id \in Ids, NEW note \in Notes \cup {NoNote}, SetNote(id, note)
      PROVE  IInv'
  BY <1>2, PutKeeps DEF SetNote
<1>3. ASSUME NEW id \in Ids, NEW favorite \in BOOLEAN, SetFavorite(id, favorite)
      PROVE  IInv'
  BY <1>3, PutKeeps DEF SetFavorite
<1>4. ASSUME NEW ids \in SUBSET Ids, Delete(ids) PROVE IInv'
  <2>. DEFINE rows == Without(entries, ids)
              kept == {}
  <2>1. SameBut(rows, entries, ids)  BY DEF Without, Restrict, SameBut
  <2>2. Commit(rows, ids, kept, TRUE)  BY <1>4 DEF Delete
  <2>3. kept \subseteq DOMAIN rows /\ kept \subseteq ids  OBVIOUS
  <2>. HIDE DEF rows, kept
  <2>. QED  BY <2>1, <2>2, <2>3, CommitKeeps
<1>5. CASE Reload \/ Refresh
  BY <1>5 DEF Reload, Refresh, store, IInv, Flags, Durable, PromisedEverywhere, Listed
<1>6. CASE Read \/ Show
  BY <1>6 DEF Read, Show, store, IInv, Flags, Durable, PromisedEverywhere, Listed, SameBut
<1>7. CASE Load
  BY <1>7 DEF Load, Built, IInv, Flags, Durable, PromisedEverywhere, Listed
<1>8. CASE LoadLoses(<<>>, FALSE) \/ LoadLoses(disk, TRUE)
  BY <1>8, NothingIn
     DEF LoadLoses, Built, IInv, Flags, Durable, PromisedEverywhere, Listed
<1>9. CASE UNCHANGED vars
  BY <1>9 DEF vars, store, window, IInv, Flags, Durable, PromisedEverywhere, Listed
<1>. QED
  BY <1>1, <1>2, <1>3, <1>4, <1>5, <1>6, <1>7, <1>8, <1>9 DEF Next

\* The invariant holds in every reachable state.
THEOREM Inductive == Spec => []IInv
<1>1. IInv /\ [Next]_vars => IInv'  BY StepKeeps
<1>. QED  BY <1>1, InitHolds, PTL DEF Spec

\* Memory and file agree unless a write failed, a row is there as its user was
\* last told, and a window whose reloads are over lists what the book holds, but
\* for rows others have changed since, or a command that failed.
THEOREM BookStaysKept == Spec => []BookKept
<1>1. Listed => WindowCurrent
  <2>1. ASSUME SameBut(shown, entries, news) PROVE Without(shown, news) = Without(entries, news)
    BY <2>1 DEF SameBut, Without, Restrict
  <2>. QED  BY <2>1 DEF Listed, WindowCurrent
<1>2. IInv => BookKept
  BY <1>1 DEF IInv, PromisedEverywhere, BookKept, PromisesKept
<1>. QED  BY <1>2, Inductive, PTL

-----------------------------------------------------------------------------
(* Type correctness: whatever comes into memory comes from a command's row *)
(* or from a file that holds rows.                                         *)

LEMMA CommitTyped ==
    ASSUME TypeOK, NEW rows, Rows(rows), NEW ids \in SUBSET Ids, NEW kept,
           kept \subseteq DOMAIN rows, NEW own \in BOOLEAN, Commit(rows, ids, kept, own)
    PROVE  /\ Rows(entries') /\ Rows(disk') /\ Rows(promised') /\ Rows(loaded') /\ Rows(shown')
           /\ apart' \in BOOLEAN /\ owed' \in BOOLEAN
           /\ listing' \in {"asked", "read", "over"} /\ news' \subseteq Ids
<1>. USE DEF TypeOK
<1>1. /\ entries' = rows /\ UNCHANGED <<listing, loaded, shown>>
      /\ owed' \in {owed, owed \/ own} /\ news' \in {news, news \cup ids}
      /\ disk' \in {rows, disk} /\ apart' \in {TRUE, FALSE}
      /\ \/ promised' = [id \in (DOMAIN promised \ ids) \cup kept |->
                            IF id \in kept THEN rows[id] ELSE promised[id]]
         \/ promised' = Without(promised, ids)
  BY DEF Commit
<1>2. Rows(promised')  BY <1>1 DEF Without, Restrict, Rows
<1>3. (owed \/ own) \in BOOLEAN  OBVIOUS
<1>. QED  BY <1>1, <1>2, <1>3 DEF Rows

LEMMA PutTyped ==
    ASSUME TypeOK, NEW id \in Ids, NEW row \in Row, NEW own \in BOOLEAN,
           Commit(With(entries, id, row), {id}, {id}, own)
    PROVE  /\ Rows(entries') /\ Rows(disk') /\ Rows(promised') /\ Rows(loaded') /\ Rows(shown')
           /\ apart' \in BOOLEAN /\ owed' \in BOOLEAN
           /\ listing' \in {"asked", "read", "over"} /\ news' \subseteq Ids
<1>. DEFINE rows == With(entries, id, row)
<1>1. Rows(rows) /\ {id} \subseteq DOMAIN rows  BY DEF With, Rows, TypeOK
<1>2. Commit(rows, {id}, {id}, own) /\ {id} \in SUBSET Ids  OBVIOUS
<1>. HIDE DEF rows
<1>. QED  BY <1>1, <1>2, CommitTyped

LEMMA StepTyped == ASSUME MaxOps \in Nat, TypeOK, [Next]_vars PROVE TypeOK'
<1>1. Command => ops' \in 0 .. MaxOps  BY DEF Command, TypeOK
<1>2. ASSUME NEW id \in Ids, NEW text \in Texts, NEW note \in Notes \cup {NoNote},
             Upsert(id, text, note)
      PROVE  TypeOK'
  <2>. DEFINE row == [text |-> text, note |-> note,
                      favorite |-> id \in DOMAIN entries /\ entries[id].favorite]
  <2>1. id \in DOMAIN entries => entries[id] \in Row  BY DEF TypeOK, Rows
  <2>2. (id \in DOMAIN entries /\ entries[id].favorite) \in BOOLEAN  BY <2>1 DEF Row
  <2>3. row \in Row  BY <2>2 DEF Row
  <2>4. Commit(With(entries, id, row), {id}, {id}, FALSE) /\ Command
    BY <1>2 DEF Upsert
  <2>. HIDE DEF row
  <2>. QED  BY <1>1, <2>3, <2>4, PutTyped DEF TypeOK
<1>3. ASSUME NEW id \in Ids, NEW note \in Notes \cup {NoNote}, SetNote(id, note)
      PROVE  TypeOK'
  <2>1. [entries[id] EXCEPT !.note = note] \in Row  BY <1>3 DEF SetNote, TypeOK, Rows, Row
  <2>. QED  BY <1>1, <1>3, <2>1, PutTyped DEF SetNote, TypeOK
<1>4. ASSUME NEW id \in Ids, NEW favorite \in BOOLEAN, SetFavorite(id, favorite)
      PROVE  TypeOK'
  <2>1. [entries[id] EXCEPT !.favorite = favorite] \in Row
    BY <1>4 DEF SetFavorite, TypeOK, Rows, Row
  <2>. QED  BY <1>1, <1>4, <2>1, PutTyped DEF SetFavorite, TypeOK
<1>5. ASSUME NEW ids \in SUBSET Ids, Delete(ids) PROVE TypeOK'
  <2>. DEFINE rows == Without(entries, ids)
  <2>1. Rows(rows)  BY DEF Without, Restrict, Rows, TypeOK
  <2>2. Commit(rows, ids, {}, TRUE) /\ Command  BY <1>5 DEF Delete
  <2>. HIDE DEF rows
  <2>. QED  BY <1>1, <2>1, <2>2, CommitTyped DEF TypeOK
<1>6. CASE Reload \/ Refresh \/ Read \/ Show
  BY <1>6, NothingIn DEF Reload, Refresh, Read, Show, store, TypeOK, Rows
<1>7. CASE Load  BY <1>1, <1>7, NothingIn DEF Load, Built, TypeOK, Rows
<1>8. CASE LoadLoses(<<>>, FALSE) \/ LoadLoses(disk, TRUE)
  BY <1>1, <1>8, NothingIn DEF LoadLoses, Built, TypeOK, Rows
<1>9. CASE UNCHANGED vars  BY <1>9 DEF vars, store, window, TypeOK
<1>. QED
  BY <1>2, <1>3, <1>4, <1>5, <1>6, <1>7, <1>8, <1>9 DEF Next

\* Memory, file, promised rows and the window's rows are rows.
THEOREM TypeCorrect == ASSUME MaxOps \in Nat PROVE Spec => []TypeOK
<1>1. Init => TypeOK
  <2>1. Rows(<<>>)  BY NothingIn DEF Rows
  <2>2. Init => ops \in 0 .. MaxOps  BY DEF Init
  <2>3. Init => /\ apart \in BOOLEAN /\ owed \in BOOLEAN
                /\ listing \in {"asked", "read", "over"} /\ news \subseteq Ids
    BY DEF Init
  <2>. QED  BY <2>1, <2>2, <2>3 DEF Init, TypeOK
<1>2. TypeOK /\ [Next]_vars => TypeOK'  BY StepTyped
<1>. QED  BY <1>1, <1>2, PTL DEF Spec
=============================================================================
