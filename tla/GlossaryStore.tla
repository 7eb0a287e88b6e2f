--------------------------- MODULE GlossaryStore ---------------------------
(***************************************************************************)
(* The glossary: books in memory, one file per book, compiled matchers and *)
(* hit counters.                                                           *)
(*                                                                         *)
(* A mutation changes the book in memory, bumps the generation that        *)
(* invalidates the compiled matchers, and rewrites the book's file; the    *)
(* write may fail and memory is then ahead of the disk.  A translation     *)
(* matches under the read lock and counts its hits later, under the write  *)
(* lock.  Hits reach the disk with the next commit of their book or with a *)
(* flush, which writes the pending books until one write fails.            *)
(*                                                                         *)
(* Each method runs under the store's lock, so it is one step.  An entry is *)
(* its term, folded as the code folds it, and its translation; what a book *)
(* applies to is a set of language pairs, empty when it is disabled.  The  *)
(* hits of one entry in one text count once.                               *)
(***************************************************************************)
EXTENDS Naturals, Functions

CONSTANTS
    Books, Entries,   \* ids
    Terms, Translations,
    Pairs,            \* language pairs
    Workers,          \* translations that may be in flight
    None,
    HitsMax,          \* where the saturating counters stop
    MaxOps            \* bound on the commands of a behaviour

ASSUME GlossaryAssumption ==
    /\ HitsMax \in Nat \ {0}
    /\ MaxOps \in Nat
    /\ None \notin Entries

Content == [term : Terms, translation : Translations]
Entry == [content : Content, hits : 0 .. HitsMax]
\* A book applies to pairs and maps the ids of its entries to them.
BookFile(book) ==
    /\ DOMAIN book = {"pairs", "entries"}
    /\ book.pairs \subseteq Pairs
    /\ DOMAIN book.entries \subseteq Entries
    /\ \A e \in DOMAIN book.entries : book.entries[e] \in Entry

\* Maps: g with the entries of f put over it, one entry more or changed, one removed.
Over(f, g) == [k \in DOMAIN f \cup DOMAIN g |-> IF k \in DOMAIN f THEN f[k] ELSE g[k]]
With(f, k, v) == Over([x \in {k} |-> v], f)
Without(f, k) == Restrict(f, DOMAIN f \ {k})

VARIABLES
    books,        \* in memory, by id
    files,        \* on disk, by id
    pending,      \* pending_hits
    generation,
    matchers,     \* the cache: its generation and a compiled matcher per pair
    flight,       \* matches a worker found and has not counted yet
    failed,       \* books whose last write failed
    skipped,      \* books a flush gave up on after another book's write failed
    answered,     \* books delete_book answered for, with true or false
    ops

vars == <<books, files, pending, generation, matchers, flight, failed, skipped, answered, ops>>

Live(b) == b \in DOMAIN books
OnDisk(b) == b \in DOMAIN files

NoMatchers == [generation |-> 0, compiled |-> <<>>]

Init ==
    /\ books = <<>>
    /\ files = <<>>
    /\ pending = {}
    /\ generation = 0
    /\ matchers = NoMatchers
    /\ flight = [w \in Workers |-> {}]
    /\ failed = {} /\ skipped = {} /\ answered = {}
    /\ ops = 0

-----------------------------------------------------------------------------
(* Entries                                                                 *)

\* existing_by_term
SameTerm(book, c) ==
    {e \in DOMAIN book.entries : book.entries[e].content.term = c.term}

\* Mutant: an id that is given is trusted.
TargetTrustsId(book, id, c) ==
    IF id # None THEN {id}
    ELSE IF SameTerm(book, c) # {} THEN SameTerm(book, c)
    ELSE Entries \ DOMAIN book.entries

\* The entry an input addresses: an id given must not take another's term.
Target(book, id, c) ==
    IF id # None THEN {e \in {id} : SameTerm(book, c) \subseteq {id}}
    ELSE IF SameTerm(book, c) # {} THEN SameTerm(book, c)
    ELSE Entries \ DOMAIN book.entries

\* apply_entry: the books that may result, none when the input is refused.
Applied(book, id, c) ==
    {[book EXCEPT !.entries = With(@, e, [content |-> c,
          hits |-> IF e \in DOMAIN book.entries THEN book.entries[e].hits ELSE 0])] :
        e \in Target(book, id, c)}

-----------------------------------------------------------------------------
(* Commands                                                                *)

Command == ops < MaxOps /\ ops' = ops + 1

\* Mutant: a failed write goes unreported.
WriteUnreported(b, book) ==
    /\ files' = With(files, b, book) \/ files' = files
    /\ failed' = failed \ {b}

\* write_book of b, which replaces the file or leaves it.
Write(b, book) ==
    \/ /\ files' = With(files, b, book)
       /\ failed' = failed \ {b}
    \/ /\ files' = files
       /\ failed' = failed \cup {b}

\* Mutant: the matchers are invalidated once the write succeeded.
CommitBumpsLate(b, book) ==
    /\ books' = With(books, b, book)
    /\ pending' = pending \ {b}
    /\ skipped' = skipped \ {b}
    /\ Write(b, book)
    /\ generation' = IF b \in failed' THEN generation ELSE generation + 1
    /\ UNCHANGED <<matchers, flight, answered>>

\* commit
Commit(b, book) ==
    /\ books' = With(books, b, book)
    /\ generation' = generation + 1
    /\ pending' = pending \ {b}
    /\ skipped' = skipped \ {b}
    /\ Write(b, book)
    /\ UNCHANGED <<matchers, flight, answered>>

\* upsert_book.  New ids are time-ordered and are not those of an old file.
UpsertBook(b, pairs) ==
    /\ Command
    /\ \/ /\ Live(b)
          /\ Commit(b, [books[b] EXCEPT !.pairs = pairs])
       \/ /\ ~Live(b) /\ ~OnDisk(b) /\ b \notin answered \cup failed
          /\ Commit(b, [pairs |-> pairs, entries |-> <<>>])

UpsertEntry(b, id, c) ==
    /\ Command
    /\ Live(b)
    /\ \E book \in Applied(books[b], id, c) : Commit(b, book)

\* import_entries: several inputs, one write.
ImportEntries(b, c, d) ==
    /\ Command
    /\ Live(b)
    /\ \E half \in Applied(books[b], None, c) :
          \E book \in Applied(half, None, d) : Commit(b, book)

DeleteEntry(b, e) ==
    /\ Command
    /\ Live(b)
    /\ e \in DOMAIN books[b].entries
    /\ Commit(b, [books[b] EXCEPT !.entries = Without(@, e)])

\* Mutant: the deleted book's hits still wait for a flush.
DeleteBookKeepsHits(b) ==
    /\ Command
    /\ Live(b)
    /\ books' = Without(books, b)
    /\ pending' = pending
    /\ skipped' = skipped \ {b}
    /\ generation' = generation + 1
    /\ \/ files' = Without(files, b) /\ failed' = failed \ {b}
          /\ answered' = answered \cup {b}
       \/ OnDisk(b) /\ files' = files /\ failed' = failed \cup {b}
          /\ answered' = answered
    /\ UNCHANGED <<matchers, flight>>

\* delete_book of a book there is; the file's removal may fail.
DeleteBook(b) ==
    /\ Command
    /\ Live(b)
    /\ books' = Without(books, b)
    /\ pending' = pending \ {b}
    /\ skipped' = skipped \ {b}
    /\ generation' = generation + 1
    /\ \/ files' = Without(files, b) /\ failed' = failed \ {b}
          /\ answered' = answered \cup {b}
       \/ OnDisk(b) /\ files' = files /\ failed' = failed \cup {b}
          /\ answered' = answered
    /\ UNCHANGED <<matchers, flight>>

\* ... and of one there is not: the answer is false.
DeleteMissing(b) ==
    /\ Command
    /\ ~Live(b)
    /\ answered' = answered \cup {b}
    /\ UNCHANGED <<books, files, pending, generation, matchers, flight, failed, skipped>>

-----------------------------------------------------------------------------
(* Matching and hits                                                       *)

\* compile: every term of the books that apply to the pair.
Compile(q) ==
    UNION {{[book |-> b, entry |-> e, content |-> books[b].entries[e].content] :
               e \in DOMAIN books[b].entries} :
           b \in {x \in DOMAIN books : q \in books[x].pairs}}

\* The cache a lookup starts from: cleared when a mutation came in between.
Cleared ==
    IF matchers.generation = generation THEN matchers
    ELSE [generation |-> generation, compiled |-> <<>>]

\* The matcher a lookup of pair q uses.
Matcher(q) == IF q \in DOMAIN Cleared.compiled THEN Cleared.compiled[q] ELSE Compile(q)

\* CompiledMatcher::find; where the words of a text overlap and end is left out.
Found(q, text) == {m \in Matcher(q) : m.content.term \in text}

\* glossary_matches: a text holds some of the terms.
Match(w, q, text) ==
    /\ flight[w] = {}
    /\ matchers' = [Cleared EXCEPT !.compiled = With(@, q, Matcher(q))]
    /\ flight' = [flight EXCEPT ![w] = Found(q, text)]
    /\ UNCHANGED <<books, files, pending, generation, failed, skipped, answered, ops>>

\* Matches whose entry is still there.
Counted(w) == {m \in flight[w] : Live(m.book) /\ m.entry \in DOMAIN books[m.book].entries}

\* Mutant: the counter is not saturating.
Unsaturated(n) == n + 1

Saturated(n) == IF n < HitsMax THEN n + 1 ELSE n

\* record_hits before its flush: the books with the hits counted.
Hit(w) ==
    [b \in DOMAIN books |->
        [books[b] EXCEPT !.entries = [e \in DOMAIN books[b].entries |->
            IF \E m \in Counted(w) : m.book = b /\ m.entry = e
            THEN [books[b].entries[e] EXCEPT !.hits = Saturated(@)]
            ELSE books[b].entries[e]]]]

\* Mutant: only the books of this recording are kept pending.
HitBooksOfNow(w) == {m.book : m \in Counted(w)}

HitBooks(w) == pending \cup {m.book : m \in Counted(w)}

RecordHits(w) ==
    /\ flight[w] # {}
    /\ books' = Hit(w)
    /\ pending' = HitBooks(w)
    /\ flight' = [flight EXCEPT ![w] = {}]
    /\ UNCHANGED <<files, generation, matchers, failed, skipped, answered, ops>>

\* flush_hits of the hot books: the pending set is taken, and the first write
\* that fails ends the loop.
Flush(hot) ==
    /\ pending' = {}
    /\ \E written \in SUBSET hot :
          LET left == hot \ written
          IN  /\ files' = Over(Restrict(books', written \cap DOMAIN books'), files)
              /\ IF left = {}
                 THEN failed' = failed \ written /\ skipped' = skipped \ written
                 ELSE \E bad \in left :
                         /\ failed' = (failed \ written) \cup {bad}
                         /\ skipped' = (skipped \ written) \cup (left \ {bad})
    /\ UNCHANGED <<generation, matchers, answered, ops>>

\* A recording flushes when the last flush is long enough ago ...
RecordAndFlush(w) ==
    /\ flight[w] # {}
    /\ books' = Hit(w)
    /\ flight' = [flight EXCEPT ![w] = {}]
    /\ Flush(HitBooks(w))

\* ... and the application asks for one before it quits.
FlushHits ==
    /\ pending # {}
    /\ UNCHANGED <<books, flight>>
    /\ Flush(pending)

\* The process ends, at any point, and the store is loaded from the files.
Restart ==
    /\ Command
    /\ books' = files
    /\ pending' = {}
    /\ generation' = 0
    /\ matchers' = NoMatchers
    /\ flight' = [w \in Workers |-> {}]
    /\ failed' = {} /\ skipped' = {}
    /\ UNCHANGED <<files, answered>>

\* What RuntimeGlossary exports, its listings and exports left out, and the end
\* of the process.
Next ==
    \/ \E b \in Books :
          \/ \E pairs \in SUBSET Pairs : UpsertBook(b, pairs)
          \/ \E id \in Entries \cup {None}, c \in Content : UpsertEntry(b, id, c)
          \/ \E c, d \in Content : ImportEntries(b, c, d)
          \/ \E e \in Entries : DeleteEntry(b, e)
          \/ DeleteBook(b) \/ DeleteMissing(b)
    \/ \E w \in Workers :
          \/ \E q \in Pairs, text \in SUBSET Terms : Match(w, q, text)
          \/ RecordHits(w) \/ RecordAndFlush(w)
    \/ FlushHits \/ Restart

Spec == Init /\ [][Next]_vars

-----------------------------------------------------------------------------
TypeOK ==
    /\ DOMAIN books \subseteq Books /\ \A b \in DOMAIN books : BookFile(books[b])
    /\ DOMAIN files \subseteq Books /\ \A b \in DOMAIN files : BookFile(files[b])
    /\ pending \subseteq Books /\ failed \subseteq Books
    /\ skipped \subseteq Books /\ answered \subseteq Books
    /\ generation \in Nat
    /\ DOMAIN matchers = {"generation", "compiled"}
    /\ matchers.generation \in Nat
    /\ DOMAIN matchers.compiled \subseteq Pairs
    /\ ops \in 0 .. MaxOps

\* A match always uses the terms of the moment, whichever mutations, failed
\* writes and lookups went before.
MatcherFresh == \A q \in Pairs : Matcher(q) = Compile(q)

\* No book has two entries for one term, through edits, imports and restarts.
TermsUnique ==
    \A b \in DOMAIN books : \A d, e \in DOMAIN books[b].entries :
        books[b].entries[d].content.term = books[b].entries[e].content.term => d = e

\* What memory and disk hold of a book, the hits left out.
Shape(f, b) ==
    IF b \in DOMAIN f
    THEN <<f[b].pairs, [e \in DOMAIN f[b].entries |-> f[b].entries[e].content]>>
    ELSE <<>>

\* The terms in memory are those on disk, except for a book whose own last
\* write failed, which its caller was told.
TermsDurable == \A b \in Books \ failed : Shape(books, b) = Shape(files, b)

Written(b) == (Live(b) <=> OnDisk(b)) /\ (Live(b) => books[b] = files[b])

\* Hits that are not on disk belong to a pending book or to one a failed flush
\* dropped.
HitsAccounted ==
    \A b \in Books \ (failed \cup skipped \cup pending) : Written(b)

\* Only live books wait for a flush: a deleted book is never written back.
PendingLive == \A b \in pending : Live(b)

\* "Books whose hit counts have changed but not yet been written."
PendingComplete == \A b \in Books \ failed : ~Written(b) => b \in pending

\* "Removes a book and its file.  Returns false if it did not exist."
DeletedOffDisk == \A b \in answered : ~OnDisk(b)
=============================================================================
