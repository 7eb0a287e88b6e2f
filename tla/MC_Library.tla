------------------------------ MODULE MC_Library ------------------------------
(* The stores of the personal libraries and their backup, on small         *)
(* instances that are explored one at a time: they share no state that a   *)
(* restore does not replace as a whole.                                    *)
EXTENDS HistoryStore, BackupTargets, TLC

CONSTANTS h1, h2, Texts, Notes, NoNote, None, Part

VARIABLES
    part,  \* which of the three is explored
    book, bookFile, bookApart, bookPromised, owed, listing, loaded, shown, news,
    bookOps,
    data, mem, archive, pc, at, staging, rollback, installed,
    before, torn, adrift, died, left, moves

bookVars == <<book, bookFile, bookApart, bookPromised, owed, listing, loaded, shown, news, bookOps>>
backupVars == <<data, mem, archive, pc, at, staging, rollback, installed,
                before, torn, adrift, died, left, moves>>

V == INSTANCE VocabularyStore WITH
    entries <- book, disk <- bookFile, apart <- bookApart,
    promised <- bookPromised, ops <- bookOps, MaxOps <- 4

B == INSTANCE BackupInstall WITH ops <- moves, MaxOps <- 4

LibraryInit ==
    /\ part \in Part
    /\ Init /\ V!Init /\ B!Init

LibraryNext ==
    /\ UNCHANGED part
    /\ \/ part = "history" /\ Next /\ UNCHANGED <<bookVars, backupVars>>
       \/ part = "vocabulary" /\ V!Next /\ UNCHANGED <<vars, backupVars>>
       \/ part = "backup" /\ B!Next /\ UNCHANGED <<vars, bookVars>>

LibrarySpec == LibraryInit /\ [][LibraryNext]_<<part, vars, bookVars, backupVars>>

\* The types of all three.
LibraryTypeOK == TypeOK /\ V!TypeOK /\ B!TypeOK

\* vocabulary.rs and vocabulary_view_model.dart: memory, file, promised rows and
\* the window agree.
BookKept == V!BookKept

\* backup.rs and backup_api.rs: a restore that comes back changed all or
\* nothing, and no data is without a copy.
AllOrNothing == B!AllOrNothing
CopySurvives == B!CopySurvives

\* docs/DATA_AND_NETWORK.md:6-8, the copy kept until the new data is there.
RollbackCopyKept == B!RollbackCopyKept
=============================================================================
