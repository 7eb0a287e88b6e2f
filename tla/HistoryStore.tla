---------------------------- MODULE HistoryStore ----------------------------
(***************************************************************************)
(* The translation history: rows in memory, one file rewritten after each  *)
(* change, a retention period and favourites that outlive it.              *)
(*                                                                         *)
(* Every command runs under the store's lock and is one step.  It changes  *)
(* memory, prunes what expired and rewrites the file, which may fail and   *)
(* leave memory ahead.  The clock is the system's: it runs, and it may be  *)
(* set, forward or back.  Loading prunes too; a file that cannot be        *)
(* decoded is put aside, one that cannot be read counts as empty.          *)
(*                                                                         *)
(* A row is its content, its favourite flag and its time of creation.      *)
(***************************************************************************)
EXTENDS Integers, Functions

CONSTANTS
    Ids, Contents,
    Retention,   \* the retention period
    MaxTime,     \* bound on the clock
    MaxOps       \* bound on the commands of a behaviour

ASSUME HistoryAssumption ==
    Retention \in Nat /\ MaxTime \in Nat /\ MaxOps \in Nat

Time == 0 .. MaxTime
Row == [content : Contents, favorite : BOOLEAN, created : Time]

VARIABLES
    entries,    \* rows in memory, by id
    disk,       \* rows of history.json
    now,
    apart,      \* the last write failed, or the load could not read the file
    promised,   \* what users were told of rows that must still be there
    ops

vars == <<entries, disk, now, apart, promised, ops>>

Init ==
    /\ entries = <<>> /\ disk = <<>>
    /\ now \in Time
    /\ apart = FALSE
    /\ promised = <<>>
    /\ ops = 0

-----------------------------------------------------------------------------
(* Retention                                                               *)

\* Mutant: an age below zero wraps around.
AgeWraps(row, t) == (t - row.created) % (MaxTime + 1)

\* now.saturating_sub(created_at)
Age(row, t) == IF t > row.created THEN t - row.created ELSE 0

Expired(row, t) == ~row.favorite /\ Age(row, t) > Retention

\* prune_entries
Kept(rows, t) == Restrict(rows, {id \in DOMAIN rows : ~Expired(rows[id], t)})

With(rows, id, row) ==
    [k \in DOMAIN rows \cup {id} |-> IF k = id THEN row ELSE rows[k]]

-----------------------------------------------------------------------------
(* Commands.  A row is promised from the moment a command on it succeeded, *)
(* until it is overdue or another command touches it.                      *)

Command == ops < MaxOps /\ ops' = ops + 1

Unpromised(ids) == Restrict(promised, DOMAIN promised \ ids)

\* What retention means, whatever the code computes.
Overdue(row, t) == ~row.favorite /\ t - row.created > Retention

Promise(id, row) == IF Overdue(row, now) THEN Unpromised({id}) ELSE With(promised, id, row)

\* persist: the file holds what memory holds now, or what it held before.
Persist ==
    \/ disk' = entries' /\ apart' = FALSE
    \/ disk' = disk /\ apart' = TRUE

\* Mutant: what a listing prunes stays in the file.
ListUnsaved ==
    /\ entries' = Kept(entries, now)
    /\ entries' # entries
    /\ UNCHANGED <<disk, apart, now, promised, ops>>

\* list_entries and counts prune, and save when that removed a row.
List ==
    /\ entries' = Kept(entries, now)
    /\ entries' # entries
    /\ Persist
    /\ UNCHANGED <<now, promised, ops>>

\* upsert_entry with the row's id, or with a new one.
Upsert(id, c) ==
    /\ Command
    /\ LET row == IF id \in DOMAIN entries
                  THEN [entries[id] EXCEPT !.content = c]
                  ELSE [content |-> c, favorite |-> FALSE, created |-> now]
       IN  /\ entries' = Kept(With(entries, id, row), now)
           /\ Persist
           /\ promised' = IF apart' THEN Unpromised({id}) ELSE Promise(id, row)
    /\ UNCHANGED now

\* Mutant: a row that is gone is made anew.
SetFavoriteBlind(id, favorite) ==
    /\ Command
    /\ entries' = With(entries, id, [favorite |-> favorite])
    /\ Persist
    /\ promised' = Unpromised({id})
    /\ UNCHANGED now

\* set_favorite; giving up the favourite of an old row removes it.
SetFavorite(id, favorite) ==
    /\ Command
    /\ id \in DOMAIN entries
    /\ LET row == [entries[id] EXCEPT !.favorite = favorite]
       IN  /\ entries' = Kept(With(entries, id, row), now)
           /\ Persist
           /\ promised' = IF apart' THEN Unpromised({id}) ELSE Promise(id, row)
    /\ UNCHANGED now

\* delete_entries, and clear, which deletes what there is.
Delete(ids) ==
    /\ Command
    /\ ids \cap DOMAIN entries # {}
    /\ entries' = Restrict(entries, DOMAIN entries \ ids)
    /\ Persist
    /\ promised' = Unpromised(ids)
    /\ UNCHANGED now

-----------------------------------------------------------------------------
(* The clock and the process                                               *)

SetClock ==
    /\ Command
    /\ now' \in Time
    /\ promised' = Restrict(promised, {id \in DOMAIN promised : ~Overdue(promised[id], now')})
    /\ UNCHANGED <<entries, disk, apart>>

\* Mutant: loading keeps what is young and forgets to look at the flag.
LoadReadsYoung ==
    /\ Command
    /\ entries' = Restrict(disk, {id \in DOMAIN disk : Age(disk[id], now) <= Retention})
    /\ IF entries' = disk THEN disk' = disk /\ apart' = FALSE ELSE Persist
    /\ UNCHANGED <<now, promised>>

\* A restart, at any point, whose load reads the file ...
LoadReads ==
    /\ Command
    /\ entries' = Kept(disk, now)
    /\ IF entries' = disk THEN disk' = disk /\ apart' = FALSE ELSE Persist
    /\ UNCHANGED <<now, promised>>

\* ... cannot decode it, and puts it aside ...
LoadQuarantines ==
    /\ Command
    /\ entries' = <<>>
    /\ disk' = <<>>
    /\ promised' = <<>>
    /\ apart' = FALSE
    /\ UNCHANGED now

\* ... or cannot read it, or cannot put it aside, and leaves it to be replaced by
\* the next write.
LoadStartsEmpty ==
    /\ Command
    /\ entries' = <<>>
    /\ promised' = <<>>
    /\ apart' = TRUE
    /\ UNCHANGED <<disk, now>>

\* What RuntimeHistory exports, the clock and the process.
Next ==
    \/ List
    \/ \E id \in Ids :
          \/ \E c \in Contents : Upsert(id, c)
          \/ \E favorite \in BOOLEAN : SetFavorite(id, favorite)
    \/ \E ids \in SUBSET Ids : Delete(ids)
    \/ SetClock
    \/ LoadReads \/ LoadQuarantines \/ LoadStartsEmpty

Spec == Init /\ [][Next]_vars

-----------------------------------------------------------------------------
Rows(rows) == DOMAIN rows \subseteq Ids /\ \A id \in DOMAIN rows : rows[id] \in Row

TypeOK ==
    /\ Rows(entries) /\ Rows(disk) /\ Rows(promised)
    /\ now \in Time
    /\ apart \in BOOLEAN
    /\ ops \in 0 .. MaxOps

\* Memory and file agree unless the last write failed or the file could not be
\* read.
Durable == ~apart => entries = disk

\* A row whose last command succeeded is there as it was told, through failed
\* writes of other commands, restarts and any clock, until it is overdue or its
\* file is lost.
PromisesKept ==
    \A id \in DOMAIN promised : id \in DOMAIN entries /\ entries[id] = promised[id]
=============================================================================
