--------------------------- MODULE VocabularyStore ---------------------------
(***************************************************************************)
(* The vocabulary book and a window that lists it.                         *)
(*                                                                         *)
(* Every command runs under the store's lock, changes memory and rewrites  *)
(* the file, which may fail and leave memory ahead.  The announcement of a *)
(* change is nobody's business: the window reloads after its own commands, *)
(* when they succeeded, when its filter or query changes and on a retry.   *)
(* Words are saved elsewhere, by the quick translator, and a restored      *)
(* backup (BackupInstall) is left out here.                                *)
(*                                                                         *)
(* A row is a text (word and translation), a note and its favourite flag.  *)
(* Ids are those the store handed out: trimming leaves them alone.         *)
(***************************************************************************)
EXTENDS Naturals, Functions

CONSTANTS
    Ids, Texts, Notes,
    NoNote,    \* no note, or a blank one
    MaxOps     \* bound on the commands of a behaviour

Row == [text : Texts, note : Notes \cup {NoNote}, favorite : BOOLEAN]

VARIABLES
    entries,   \* rows in memory, by id
    disk,      \* rows of vocabulary.json
    apart,     \* the last write failed, or the load could not read the file
    promised,  \* what users were told of rows that must still be there
    owed,      \* a command of the window succeeded and its reload is to come
    listing,   \* the newest reload: "asked", "read" or "over"
    loaded,    \* the rows it has read
    shown,     \* the rows the window lists
    news,      \* rows changed since it read, by others or by a command that failed
    ops

store == <<entries, disk, apart, promised>>
window == <<owed, listing, loaded, shown, news>>
vars == <<store, window, ops>>

\* The window is built, with nothing listed, and reloads.
Built ==
    /\ owed' = FALSE /\ listing' = "asked" /\ loaded' = <<>> /\ shown' = <<>>
    /\ news' = {}

Init ==
    /\ entries = <<>> /\ disk = <<>> /\ promised = <<>> /\ apart = FALSE
    /\ owed = FALSE /\ listing = "asked" /\ loaded = <<>> /\ shown = <<>> /\ news = {}
    /\ ops = 0

Command == ops < MaxOps /\ ops' = ops + 1

With(rows, id, row) ==
    [k \in DOMAIN rows \cup {id} |-> IF k = id THEN row ELSE rows[k]]

Without(rows, ids) == Restrict(rows, DOMAIN rows \ ids)

\* persist, or its error.  The rows of a command that succeeded are promised as
\* they are now.  The window reloads after its own commands that succeeded.
Commit(rows, ids, kept, own) ==
    /\ entries' = rows
    /\ \/ /\ disk' = rows /\ apart' = FALSE
          /\ promised' = [id \in (DOMAIN promised \ ids) \cup kept |->
                             IF id \in kept THEN rows[id] ELSE promised[id]]
          /\ owed' = (owed \/ own)
          /\ news' = IF own THEN news ELSE news \cup ids
       \/ /\ disk' = disk /\ apart' = TRUE
          /\ promised' = Without(promised, ids)
          /\ owed' = owed
          /\ news' = news \cup ids
    /\ UNCHANGED <<listing, loaded, shown>>

\* upsert_entry, for the quick translator: a row keeps its favourite, a new one
\* has none.
Upsert(id, text, note) ==
    /\ Command
    /\ LET row == [text |-> text, note |-> note,
                   favorite |-> id \in DOMAIN entries /\ entries[id].favorite]
       IN  Commit(With(entries, id, row), {id}, {id}, FALSE)

SetFavorite(id, favorite) ==
    /\ Command
    /\ id \in DOMAIN entries
    /\ Commit(With(entries, id, [entries[id] EXCEPT !.favorite = favorite]), {id}, {id}, TRUE)

SetNote(id, note) ==
    /\ Command
    /\ id \in DOMAIN entries
    /\ Commit(With(entries, id, [entries[id] EXCEPT !.note = note]), {id}, {id}, TRUE)

\* Mutant: the window reloads before it deletes.
DeleteUnlisted(ids) ==
    /\ Command
    /\ ids \cap DOMAIN entries # {}
    /\ entries' = Without(entries, ids) /\ promised' = Without(promised, ids)
    /\ disk' = entries' /\ apart' = FALSE
    /\ UNCHANGED window

\* delete_entries writes when it removed a row.
Delete(ids) ==
    /\ Command
    /\ ids \cap DOMAIN entries # {}
    /\ Commit(Without(entries, ids), ids, {}, TRUE)

-----------------------------------------------------------------------------
(* The window's reloads.  Only the newest one's answer is taken.           *)

Reload ==
    /\ owed
    /\ owed' = FALSE /\ listing' = "asked"
    /\ UNCHANGED <<store, loaded, shown, news, ops>>

\* A filter, a query, a retry; a command on a row that is gone, which succeeds.
Refresh ==
    /\ listing' = "asked"
    /\ UNCHANGED <<store, owed, loaded, shown, news, ops>>

\* list_entries, under the lock
Read ==
    /\ listing = "asked"
    /\ listing' = "read"
    /\ loaded' = entries
    /\ news' = {}
    /\ UNCHANGED <<store, owed, shown, ops>>

Show ==
    /\ listing = "read"
    /\ listing' = "over"
    /\ shown' = loaded /\ loaded' = <<>>
    /\ UNCHANGED <<store, owed, news, ops>>

-----------------------------------------------------------------------------
(* load: the file is read; or it cannot be decoded and is put aside; or it *)
(* cannot be read, or not put aside, and the next write replaces it.       *)

Load ==
    /\ Command
    /\ entries' = disk /\ apart' = FALSE
    /\ Built
    /\ UNCHANGED <<disk, promised>>

LoadLoses(file, split) ==
    /\ Command
    /\ entries' = <<>> /\ promised' = <<>>
    /\ disk' = file /\ apart' = split
    /\ Built

Next ==
    \/ \E id \in Ids, note \in Notes \cup {NoNote} :
          \/ \E text \in Texts : Upsert(id, text, note)
          \/ SetNote(id, note)
    \/ \E id \in Ids, favorite \in BOOLEAN : SetFavorite(id, favorite)
    \/ \E ids \in SUBSET Ids : Delete(ids)
    \/ Reload \/ Refresh \/ Read \/ Show
    \/ Load \/ LoadLoses(<<>>, FALSE) \/ LoadLoses(disk, TRUE)

Spec == Init /\ [][Next]_vars

-----------------------------------------------------------------------------
Rows(rows) == DOMAIN rows \subseteq Ids /\ \A id \in DOMAIN rows : rows[id] \in Row

TypeOK ==
    /\ Rows(entries) /\ Rows(disk) /\ Rows(promised) /\ Rows(loaded) /\ Rows(shown)
    /\ apart \in BOOLEAN /\ owed \in BOOLEAN /\ listing \in {"asked", "read", "over"}
    /\ news \subseteq Ids
    /\ ops \in 0 .. MaxOps

\* Memory and file agree unless the last write failed or the file could not be
\* read.
Durable == ~apart => entries = disk

\* A row whose last command succeeded is there as it was told, through failed
\* writes of other commands and restarts.
PromisesKept ==
    \A id \in DOMAIN promised :
        id \in DOMAIN entries /\ entries[id] = promised[id]

\* Once the window's reloads are over it lists what the book holds, those rows
\* apart that were saved elsewhere, or changed by a command that failed, since
\* the reload read them: of these the window is never told.
WindowCurrent ==
    ~owed /\ listing = "over" => Without(shown, news) = Without(entries, news)

\* vocabulary.rs: memory, file and promised rows, as the history's, and what the
\* window lists.
BookKept == Durable /\ PromisesKept /\ WindowCurrent
=============================================================================
