--------------------------- MODULE GlossaryProofs ---------------------------
(***************************************************************************)
(* The glossary's safety for any books, entries, terms, pairs and workers. *)
(*                                                                         *)
(* Freshness of the matchers rests on the generation only growing: a cache *)
(* of the current generation was compiled from the books as they are, and  *)
(* the only steps that leave the generation alone change hits.             *)
(***************************************************************************)
EXTENDS GlossaryStore, TLAPS

MatchersCurrent ==
    /\ matchers.generation <= generation
    /\ matchers.generation = generation =>
           \A q \in DOMAIN matchers.compiled : matchers.compiled[q] = Compile(q)

\* Two entries of a book never have the same term.
Unique(book) ==
    \A d, e \in DOMAIN book.entries :
        book.entries[d].content.term = book.entries[e].content.term => d = e

UniqueEverywhere ==
    /\ \A b \in DOMAIN books : Unique(books[b])
    /\ \A b \in DOMAIN files : Unique(files[b])

IInv == TypeOK /\ MatchersCurrent /\ UniqueEverywhere /\ PendingLive /\ TermsDurable

-----------------------------------------------------------------------------
(* Lemmas about the operators.                                             *)

\* A command stays within the bound.
LEMMA CommandBound == ASSUME TypeOK, Command PROVE ops' \in 0 .. MaxOps
  BY GlossaryAssumption DEF TypeOK, Command

\* An applied input leaves a book a book, without two entries for one term.
LEMMA AppliedKeeps ==
    ASSUME NEW book, BookFile(book), Unique(book), NEW id \in Entries \cup {None},
           NEW c \in Content, NEW new \in Applied(book, id, c)
    PROVE  BookFile(new) /\ Unique(new)
<1>1. PICK e \in Target(book, id, c) :
          new = [book EXCEPT !.entries = With(@, e, [content |-> c,
              hits |-> IF e \in DOMAIN book.entries THEN book.entries[e].hits ELSE 0])]
  BY DEF Applied
<1>2. e \in Entries /\ SameTerm(book, c) \subseteq {e}
  <2>1. CASE id # None  BY <1>1, <2>1 DEF Target
  <2>2. CASE id = None
    <3>1. CASE SameTerm(book, c) = {}  BY <1>1, <2>2, <3>1 DEF Target, SameTerm
    <3>2. CASE SameTerm(book, c) # {}
      BY <1>1, <2>2, <3>2 DEF Target, SameTerm, Unique, BookFile
    <3>. QED  BY <3>1, <3>2
  <2>. QED  BY <2>1, <2>2
<1>. DEFINE v == [content |-> c,
                  hits |-> IF e \in DOMAIN book.entries THEN book.entries[e].hits ELSE 0]
<1>3. v \in Entry /\ v.content = c
  BY GlossaryAssumption DEF Entry, BookFile
<1>4. /\ DOMAIN new = {"pairs", "entries"}
      /\ new.pairs = book.pairs
      /\ new.entries = With(book.entries, e, v)
  BY <1>1 DEF BookFile
<1>. HIDE DEF v
<1>5. /\ DOMAIN new.entries = DOMAIN book.entries \cup {e}
      /\ new.entries[e] = v
      /\ \A x \in DOMAIN book.entries \ {e} : new.entries[x] = book.entries[x]
  BY <1>4 DEF With, Over
<1>6. BookFile(new)
  BY <1>2, <1>3, <1>4, <1>5 DEF BookFile
<1>7. Unique(new)
  <2>. SUFFICES ASSUME NEW x \in DOMAIN new.entries, NEW y \in DOMAIN new.entries,
                       new.entries[x].content.term = new.entries[y].content.term
                PROVE  x = y
    BY DEF Unique
  <2>1. CASE x = e  BY <2>1, <1>2, <1>3, <1>5 DEF SameTerm
  <2>2. CASE y = e  BY <2>2, <1>2, <1>3, <1>5 DEF SameTerm
  <2>3. CASE x # e /\ y # e  BY <2>3, <1>5 DEF Unique
  <2>. QED  BY <2>1, <2>2, <2>3
<1>. QED  BY <1>6, <1>7

\* Counting hits leaves everything but the hits alone.
LEMMA HitKeeps ==
    ASSUME TypeOK, UniqueEverywhere, NEW w
    PROVE  /\ DOMAIN Hit(w) = DOMAIN books
           /\ \A b \in DOMAIN books :
                 /\ BookFile(Hit(w)[b])
                 /\ Unique(Hit(w)[b])
                 /\ Hit(w)[b].pairs = books[b].pairs
                 /\ DOMAIN Hit(w)[b].entries = DOMAIN books[b].entries
                 /\ \A e \in DOMAIN books[b].entries :
                       Hit(w)[b].entries[e].content = books[b].entries[e].content
<1>1. DOMAIN Hit(w) = DOMAIN books
  BY DEF Hit
<1>2. ASSUME NEW b \in DOMAIN books
      PROVE  /\ BookFile(Hit(w)[b])
             /\ Unique(Hit(w)[b])
             /\ Hit(w)[b].pairs = books[b].pairs
             /\ DOMAIN Hit(w)[b].entries = DOMAIN books[b].entries
             /\ \A e \in DOMAIN books[b].entries :
                   Hit(w)[b].entries[e].content = books[b].entries[e].content
  <2>. DEFINE old == books[b].entries
              new == Hit(w)[b].entries
  <2>1. BookFile(books[b]) /\ Unique(books[b])
    BY <1>2 DEF TypeOK, UniqueEverywhere
  <2>2. /\ Hit(w)[b].pairs = books[b].pairs
        /\ DOMAIN Hit(w)[b] = {"pairs", "entries"}
        /\ new = [e \in DOMAIN old |->
                     IF \E m \in Counted(w) : m.book = b /\ m.entry = e
                     THEN [old[e] EXCEPT !.hits = Saturated(@)] ELSE old[e]]
    BY <2>1, <1>2 DEF Hit, BookFile
  <2>3. ASSUME NEW e \in DOMAIN old
        PROVE  new[e] \in Entry /\ new[e].content = old[e].content
    <3>1. old[e] \in Entry  BY <2>1, <2>3 DEF BookFile
    <3>2. Saturated(old[e].hits) \in 0 .. HitsMax
      BY <3>1, GlossaryAssumption DEF Entry, Saturated
    <3>3. new[e] = IF \E m \in Counted(w) : m.book = b /\ m.entry = e
                   THEN [old[e] EXCEPT !.hits = Saturated(@)] ELSE old[e]
      BY <2>2, <2>3
    <3>4. [old[e] EXCEPT !.hits = Saturated(@)] \in Entry
          /\ [old[e] EXCEPT !.hits = Saturated(@)].content = old[e].content
      BY <3>1, <3>2 DEF Entry
    <3>. QED  BY <3>1, <3>3, <3>4
  <2>4. DOMAIN new = DOMAIN old  BY <2>2
  <2>5. BookFile(Hit(w)[b])  BY <2>1, <2>2, <2>3, <2>4 DEF BookFile
  <2>6. Unique(Hit(w)[b])  BY <2>1, <2>3, <2>4 DEF Unique
  <2>. QED  BY <2>2, <2>3, <2>4, <2>5, <2>6
<1>. QED  BY <1>1, <1>2

\* What a pair's matcher is compiled from: books, pairs and contents.
LEMMA CompileSame ==
    ASSUME DOMAIN books' = DOMAIN books,
           \A b \in DOMAIN books :
               /\ books'[b].pairs = books[b].pairs
               /\ DOMAIN books'[b].entries = DOMAIN books[b].entries
               /\ \A e \in DOMAIN books[b].entries :
                      books'[b].entries[e].content = books[b].entries[e].content,
           NEW q
    PROVE  Compile(q)' = Compile(q)
<1>1. Compile(q)' \subseteq Compile(q)
  BY DEF Compile
<1>2. Compile(q) \subseteq Compile(q)'
  BY DEF Compile
<1>. QED  BY <1>1, <1>2

-----------------------------------------------------------------------------
(* Steps.                                                                  *)

\* A committed book that is a book, without two entries for one term.
LEMMA CommitKeeps ==
    ASSUME IInv, ops' \in 0 .. MaxOps, NEW b \in Books, NEW book,
           BookFile(book), Unique(book), Commit(b, book)
    PROVE  IInv'
<1>. USE DEF IInv
<1>1. /\ DOMAIN books' = DOMAIN books \cup {b}
      /\ books'[b] = book
      /\ \A x \in DOMAIN books \ {b} : books'[x] = books[x]
  BY DEF Commit, With, Over
<1>2. CASE files' = files /\ failed' = failed \cup {b}
  <2>1. TypeOK'  BY <1>1, <1>2 DEF TypeOK, Commit
  <2>2. MatchersCurrent'  BY DEF TypeOK, MatchersCurrent, Commit
  <2>3. UniqueEverywhere'  BY <1>1, <1>2 DEF UniqueEverywhere
  <2>4. PendingLive'  BY <1>1 DEF PendingLive, Live, Commit
  <2>5. TermsDurable'  BY <1>1, <1>2 DEF TermsDurable, Shape
  <2>. QED  BY <2>1, <2>2, <2>3, <2>4, <2>5
<1>3. CASE files' = With(files, b, book) /\ failed' = failed \ {b}
  <2>0. /\ DOMAIN files' = DOMAIN files \cup {b}
        /\ files'[b] = book
        /\ \A x \in DOMAIN files \ {b} : files'[x] = files[x]
    BY <1>3 DEF With, Over
  <2>1. TypeOK'  BY <1>1, <1>3, <2>0 DEF TypeOK, Commit
  <2>2. MatchersCurrent'  BY DEF TypeOK, MatchersCurrent, Commit
  <2>3. UniqueEverywhere'  BY <1>1, <2>0 DEF UniqueEverywhere
  <2>4. PendingLive'  BY <1>1 DEF PendingLive, Live, Commit
  <2>5. TermsDurable'
    <3>. SUFFICES ASSUME NEW x \in Books \ failed' PROVE Shape(books', x) = Shape(files', x)
      BY DEF TermsDurable
    <3>1. CASE x = b  BY <3>1, <1>1, <2>0 DEF Shape
    <3>2. CASE x # b
      <4>1. Shape(books, x) = Shape(files, x)  BY <1>3, <3>2 DEF TermsDurable
      <4>2. Shape(books', x) = Shape(books, x)  BY <1>1, <3>2 DEF Shape
      <4>3. Shape(files', x) = Shape(files, x)  BY <2>0, <3>2 DEF Shape
      <4>. QED  BY <4>1, <4>2, <4>3
    <3>. QED  BY <3>1, <3>2
  <2>. QED  BY <2>1, <2>2, <2>3, <2>4, <2>5
<1>. QED  BY <1>2, <1>3 DEF Commit, Write

LEMMA DeleteBookKeeps ==
    ASSUME IInv, NEW b \in Books, DeleteBook(b)
    PROVE  IInv'
<1>. USE DEF IInv
<1>1. /\ DOMAIN books' = DOMAIN books \ {b}
      /\ \A x \in DOMAIN books \ {b} : books'[x] = books[x]
  BY DEF DeleteBook, Without, Restrict
<1>2. ops' \in 0 .. MaxOps  BY CommandBound DEF DeleteBook
<1>3. CASE files' = Without(files, b) /\ failed' = failed \ {b}
  <2>0. /\ DOMAIN files' = DOMAIN files \ {b}
        /\ \A x \in DOMAIN files \ {b} : files'[x] = files[x]
    BY <1>3 DEF Without, Restrict
  <2>1. TypeOK'  BY <1>1, <1>2, <1>3, <2>0 DEF TypeOK, DeleteBook
  <2>2. MatchersCurrent'  BY DEF TypeOK, MatchersCurrent, DeleteBook
  <2>3. UniqueEverywhere'  BY <1>1, <2>0 DEF UniqueEverywhere
  <2>4. PendingLive'  BY <1>1 DEF PendingLive, Live, DeleteBook
  <2>5. TermsDurable'
    <3>. SUFFICES ASSUME NEW x \in Books \ failed' PROVE Shape(books', x) = Shape(files', x)
      BY DEF TermsDurable
    <3>1. CASE x = b  BY <3>1, <1>1, <2>0 DEF Shape
    <3>2. CASE x # b
      <4>1. Shape(books, x) = Shape(files, x)  BY <1>3, <3>2 DEF TermsDurable
      <4>2. Shape(books', x) = Shape(books, x)  BY <1>1, <3>2 DEF Shape
      <4>3. Shape(files', x) = Shape(files, x)  BY <2>0, <3>2 DEF Shape
      <4>. QED  BY <4>1, <4>2, <4>3
    <3>. QED  BY <3>1, <3>2
  <2>. QED  BY <2>1, <2>2, <2>3, <2>4, <2>5
<1>4. CASE files' = files /\ failed' = failed \cup {b} /\ answered' = answered
  <2>1. TypeOK'  BY <1>1, <1>2, <1>4 DEF TypeOK, DeleteBook
  <2>2. MatchersCurrent'  BY DEF TypeOK, MatchersCurrent, DeleteBook
  <2>3. UniqueEverywhere'  BY <1>1, <1>4 DEF UniqueEverywhere
  <2>4. PendingLive'  BY <1>1 DEF PendingLive, Live, DeleteBook
  <2>5. TermsDurable'  BY <1>1, <1>4 DEF TermsDurable, Shape
  <2>. QED  BY <2>1, <2>2, <2>3, <2>4, <2>5
<1>. QED  BY <1>3, <1>4 DEF DeleteBook

LEMMA MatchKeeps ==
    ASSUME IInv, NEW w, NEW q \in Pairs, NEW text, Match(w, q, text)
    PROVE  IInv'
<1>. USE DEF IInv
<1>1. /\ DOMAIN matchers' = {"generation", "compiled"}
      /\ matchers'.generation = generation
      /\ matchers'.compiled = With(Cleared.compiled, q, Matcher(q))
  BY DEF Match, Cleared, TypeOK
<1>2. /\ DOMAIN matchers'.compiled = DOMAIN Cleared.compiled \cup {q}
      /\ matchers'.compiled[q] = Matcher(q)
      /\ \A x \in DOMAIN Cleared.compiled \ {q} : matchers'.compiled[x] = Cleared.compiled[x]
  BY <1>1 DEF With, Over
<1>3. /\ DOMAIN Cleared.compiled \subseteq Pairs
      /\ \A x \in DOMAIN Cleared.compiled : Cleared.compiled[x] = Compile(x)
  BY DEF Cleared, TypeOK, MatchersCurrent
<1>4. \A x : Compile(x)' = Compile(x)  BY DEF Match, Compile
<1>5. Matcher(q) = Compile(q)  BY <1>3 DEF Matcher
<1>6. TypeOK'  BY <1>1, <1>2, <1>3 DEF TypeOK, Match
<1>7. MatchersCurrent'
  BY <1>1, <1>2, <1>3, <1>4, <1>5 DEF MatchersCurrent, Match, Found, TypeOK
<1>8. (UniqueEverywhere /\ PendingLive /\ TermsDurable)'
  BY DEF UniqueEverywhere, PendingLive, TermsDurable, Live, Shape, Match
<1>. QED  BY <1>6, <1>7, <1>8

\* What the two recording steps share: memory changes in its hits only.
LEMMA HitsKeep ==
    ASSUME IInv, NEW w, books' = Hit(w), UNCHANGED <<generation, matchers>>
    PROVE  /\ DOMAIN books' = DOMAIN books
           /\ \A b \in DOMAIN books : BookFile(books'[b]) /\ Unique(books'[b])
           /\ MatchersCurrent'
           /\ \A b : Shape(books', b) = Shape(books, b)
           /\ HitBooks(w) \subseteq DOMAIN books
<1>. USE DEF IInv
<1>1. /\ DOMAIN books' = DOMAIN books
      /\ \A b \in DOMAIN books :
             /\ BookFile(books'[b]) /\ Unique(books'[b])
             /\ books'[b].pairs = books[b].pairs
             /\ DOMAIN books'[b].entries = DOMAIN books[b].entries
             /\ \A e \in DOMAIN books[b].entries :
                    books'[b].entries[e].content = books[b].entries[e].content
  BY HitKeeps
<1>2. \A q : Compile(q)' = Compile(q)  BY <1>1, CompileSame
<1>3. MatchersCurrent'  BY <1>2 DEF MatchersCurrent
<1>4. \A b : Shape(books', b) = Shape(books, b)  BY <1>1 DEF Shape
<1>5. HitBooks(w) \subseteq DOMAIN books
  BY DEF HitBooks, Counted, Live, PendingLive
<1>. QED  BY <1>1, <1>3, <1>4, <1>5

LEMMA RecordHitsKeeps ==
    ASSUME IInv, NEW w, RecordHits(w)
    PROVE  IInv'
<1>. USE DEF IInv
<1>1. /\ DOMAIN books' = DOMAIN books
      /\ \A b \in DOMAIN books : BookFile(books'[b]) /\ Unique(books'[b])
      /\ MatchersCurrent'
      /\ \A b : Shape(books', b) = Shape(books, b)
      /\ HitBooks(w) \subseteq DOMAIN books
  BY HitsKeep DEF RecordHits
<1>2. TypeOK'  BY <1>1 DEF TypeOK, RecordHits
<1>3. UniqueEverywhere'  BY <1>1 DEF UniqueEverywhere, RecordHits
<1>4. PendingLive'  BY <1>1 DEF PendingLive, Live, RecordHits
<1>5. TermsDurable'  BY <1>1 DEF TermsDurable, RecordHits
<1>. QED  BY <1>1, <1>2, <1>3, <1>4, <1>5

\* A flush of live books whose terms have not changed.
LEMMA FlushKeeps ==
    ASSUME IInv, NEW hot, Flush(hot), hot \subseteq DOMAIN books,
           DOMAIN books' = DOMAIN books,
           \A b \in DOMAIN books : BookFile(books'[b]) /\ Unique(books'[b]),
           MatchersCurrent',
           \A b : Shape(books', b) = Shape(books, b)
    PROVE  IInv'
<1>. USE DEF IInv
<1>1. PICK written \in SUBSET hot :
          /\ files' = Over(Restrict(books', written \cap DOMAIN books'), files)
          /\ IF hot \ written = {}
             THEN failed' = failed \ written /\ skipped' = skipped \ written
             ELSE \E bad \in hot \ written :
                     /\ failed' = (failed \ written) \cup {bad}
                     /\ skipped' = (skipped \ written) \cup ((hot \ written) \ {bad})
  BY DEF Flush
<1>2. /\ DOMAIN files' = DOMAIN files \cup written
      /\ \A b \in written : files'[b] = books'[b]
      /\ \A b \in DOMAIN files \ written : files'[b] = files[b]
  BY <1>1 DEF Over, Restrict
<1>3. failed \ written \subseteq failed'
      /\ failed' \subseteq Books /\ skipped' \subseteq Books /\ written \subseteq DOMAIN books
  <2>1. hot \subseteq Books  BY DEF TypeOK
  <2>. QED  BY <1>1, <2>1 DEF TypeOK
<1>4. TypeOK'  BY <1>2, <1>3 DEF TypeOK, Flush
<1>5. UniqueEverywhere'  BY <1>2, <1>3 DEF UniqueEverywhere
<1>6. PendingLive'  BY DEF PendingLive, Flush
<1>7. TermsDurable'
  <2>. SUFFICES ASSUME NEW b \in Books \ failed' PROVE Shape(books', b) = Shape(files', b)
    BY DEF TermsDurable
  <2>1. CASE b \in written  BY <2>1, <1>2, <1>3 DEF Shape
  <2>2. CASE b \notin written
    <3>1. Shape(books, b) = Shape(files, b)  BY <2>2, <1>3 DEF TermsDurable
    <3>2. Shape(files', b) = Shape(files, b)  BY <2>2, <1>2 DEF Shape
    <3>. QED  BY <3>1, <3>2
  <2>. QED  BY <2>1, <2>2
<1>. QED  BY <1>4, <1>5, <1>6, <1>7

LEMMA FlushHitsKeeps ==
    ASSUME IInv, FlushHits
    PROVE  IInv'
<1>1. pending \subseteq DOMAIN books  BY DEF IInv, PendingLive, Live
<1>2. \A b \in DOMAIN books : BookFile(books'[b]) /\ Unique(books'[b])
  BY DEF FlushHits, IInv, TypeOK, UniqueEverywhere
<1>3. MatchersCurrent'  BY DEF FlushHits, Flush, IInv, MatchersCurrent, Compile
<1>4. \A b : Shape(books', b) = Shape(books, b)  BY DEF FlushHits, Shape
<1>. QED  BY <1>1, <1>2, <1>3, <1>4, FlushKeeps DEF FlushHits

LEMMA RestartKeeps ==
    ASSUME IInv, Restart
    PROVE  IInv'
<1>. USE DEF IInv
<1>1. TypeOK'  BY CommandBound DEF TypeOK, Restart, NoMatchers
<1>2. MatchersCurrent'  BY DEF MatchersCurrent, Restart, NoMatchers
<1>3. UniqueEverywhere'  BY DEF UniqueEverywhere, Restart
<1>4. PendingLive'  BY DEF PendingLive, Restart
<1>5. TermsDurable'  BY DEF TermsDurable, Shape, Restart
<1>. QED  BY <1>1, <1>2, <1>3, <1>4, <1>5

-----------------------------------------------------------------------------
LEMMA InitHolds == Init => IInv
<1>. SUFFICES ASSUME Init PROVE IInv
  OBVIOUS
<1>1. TypeOK  BY GlossaryAssumption DEF Init, TypeOK, NoMatchers
<1>2. MatchersCurrent  BY DEF Init, MatchersCurrent, NoMatchers
<1>3. UniqueEverywhere  BY DEF Init, UniqueEverywhere
<1>4. PendingLive  BY DEF Init, PendingLive
<1>5. TermsDurable  BY DEF Init, TermsDurable, Shape
<1>. QED  BY <1>1, <1>2, <1>3, <1>4, <1>5 DEF IInv

LEMMA StepKeeps == IInv /\ [Next]_vars => IInv'
<1>. SUFFICES ASSUME IInv, [Next]_vars PROVE IInv'
  OBVIOUS
<1>1. ASSUME NEW b \in Books, NEW pairs \in SUBSET Pairs, UpsertBook(b, pairs)
      PROVE  IInv'
  <2>0. ops' \in 0 .. MaxOps  BY <1>1, CommandBound DEF UpsertBook, IInv
  <2>1. CASE Live(b) /\ Commit(b, [books[b] EXCEPT !.pairs = pairs])
    <3>. DEFINE book == [books[b] EXCEPT !.pairs = pairs]
    <3>1. BookFile(books[b]) /\ Unique(books[b])
      BY <2>1 DEF IInv, TypeOK, UniqueEverywhere, Live
    <3>2. BookFile(book) /\ Unique(book)  BY <3>1 DEF BookFile, Unique
    <3>. QED  BY <2>0, <2>1, <3>2, CommitKeeps
  <2>2. CASE Commit(b, [pairs |-> pairs, entries |-> <<>>])
    <3>. DEFINE book == [pairs |-> pairs, entries |-> <<>>]
    <3>1. BookFile(book) /\ Unique(book)  BY DEF BookFile, Unique
    <3>. QED  BY <2>0, <2>2, <3>1, CommitKeeps
  <2>. QED  BY <1>1, <2>1, <2>2 DEF UpsertBook
<1>2. ASSUME NEW b \in Books, NEW id \in Entries \cup {None}, NEW c \in Content,
             UpsertEntry(b, id, c)
      PROVE  IInv'
  <2>1. ops' \in 0 .. MaxOps  BY <1>2, CommandBound DEF UpsertEntry, IInv
  <2>2. BookFile(books[b]) /\ Unique(books[b])
    BY <1>2 DEF UpsertEntry, IInv, TypeOK, UniqueEverywhere, Live
  <2>3. PICK book \in Applied(books[b], id, c) : Commit(b, book)
    BY <1>2 DEF UpsertEntry
  <2>4. BookFile(book) /\ Unique(book)  BY <2>2, AppliedKeeps
  <2>. QED  BY <2>1, <2>3, <2>4, CommitKeeps
<1>3. ASSUME NEW b \in Books, NEW c \in Content, NEW d \in Content, ImportEntries(b, c, d)
      PROVE  IInv'
  <2>1. ops' \in 0 .. MaxOps  BY <1>3, CommandBound DEF ImportEntries, IInv
  <2>2. BookFile(books[b]) /\ Unique(books[b])
    BY <1>3 DEF ImportEntries, IInv, TypeOK, UniqueEverywhere, Live
  <2>3. PICK half \in Applied(books[b], None, c) :
            \E book \in Applied(half, None, d) : Commit(b, book)
    BY <1>3 DEF ImportEntries
  <2>4. BookFile(half) /\ Unique(half)  BY <2>2, AppliedKeeps
  <2>5. PICK book \in Applied(half, None, d) : Commit(b, book)  BY <2>3
  <2>6. BookFile(book) /\ Unique(book)  BY <2>4, AppliedKeeps
  <2>. QED  BY <2>1, <2>5, <2>6, CommitKeeps
<1>4. ASSUME NEW b \in Books, NEW e \in Entries, DeleteEntry(b, e)
      PROVE  IInv'
  <2>. DEFINE book == [books[b] EXCEPT !.entries = Without(@, e)]
  <2>1. ops' \in 0 .. MaxOps  BY <1>4, CommandBound DEF DeleteEntry, IInv
  <2>2. BookFile(books[b]) /\ Unique(books[b])
    BY <1>4 DEF DeleteEntry, IInv, TypeOK, UniqueEverywhere, Live
  <2>3. /\ DOMAIN book = {"pairs", "entries"}
        /\ book.pairs = books[b].pairs
        /\ book.entries = Without(books[b].entries, e)
    BY <2>2 DEF BookFile
  <2>4. /\ DOMAIN book.entries = DOMAIN books[b].entries \ {e}
        /\ \A x \in DOMAIN books[b].entries \ {e} : book.entries[x] = books[b].entries[x]
    BY <2>3 DEF Without, Restrict
  <2>5. BookFile(book) /\ Unique(book)  BY <2>2, <2>3, <2>4 DEF BookFile, Unique
  <2>. QED  BY <1>4, <2>1, <2>5, CommitKeeps DEF DeleteEntry
<1>5. ASSUME NEW b \in Books, DeleteBook(b) PROVE IInv'
  BY <1>5, DeleteBookKeeps
<1>6. ASSUME NEW b \in Books, DeleteMissing(b) PROVE IInv'
  BY <1>6, CommandBound DEF DeleteMissing, IInv, TypeOK, MatchersCurrent, Compile,
              UniqueEverywhere, PendingLive, Live, TermsDurable, Shape
<1>7. ASSUME NEW w \in Workers, NEW q \in Pairs, NEW text \in SUBSET Terms, Match(w, q, text)
      PROVE  IInv'
  BY <1>7, MatchKeeps
<1>8. ASSUME NEW w \in Workers, RecordHits(w) PROVE IInv'
  BY <1>8, RecordHitsKeeps
<1>9. ASSUME NEW w \in Workers, RecordAndFlush(w) PROVE IInv'
  <2>1. /\ DOMAIN books' = DOMAIN books
        /\ \A b \in DOMAIN books : BookFile(books'[b]) /\ Unique(books'[b])
        /\ MatchersCurrent'
        /\ \A b : Shape(books', b) = Shape(books, b)
        /\ HitBooks(w) \subseteq DOMAIN books
    BY <1>9, HitsKeep DEF RecordAndFlush, Flush
  <2>. QED  BY <1>9, <2>1, FlushKeeps DEF RecordAndFlush
<1>10. CASE FlushHits
  BY <1>10, FlushHitsKeeps
<1>11. CASE Restart
  BY <1>11, RestartKeeps
<1>12. CASE UNCHANGED vars
  BY <1>12 DEF vars, IInv, TypeOK, MatchersCurrent, Compile, UniqueEverywhere,
               PendingLive, Live, TermsDurable, Shape
<1>. QED
  BY <1>1, <1>2, <1>3, <1>4, <1>5, <1>6, <1>7, <1>8, <1>9, <1>10, <1>11, <1>12 DEF Next

\* The invariant holds in every reachable state.
THEOREM Inductive == Spec => []IInv
  BY InitHolds, StepKeeps, PTL DEF Spec

\* For any number of books, entries, pairs and translations in flight, a match
\* uses the terms of the moment.
THEOREM MatchesAreFresh == Spec => []MatcherFresh
<1>1. IInv => MatcherFresh
  BY DEF IInv, MatcherFresh, Matcher, Cleared, MatchersCurrent
<1>. QED  BY <1>1, Inductive, PTL

\* No book ever has two entries for one term.
THEOREM TermsStayUnique == Spec => []TermsUnique
<1>1. IInv => TermsUnique
  BY DEF IInv, UniqueEverywhere, Unique, TermsUnique
<1>. QED  BY <1>1, Inductive, PTL

\* The terms in memory are those on disk unless the book's own write failed.
THEOREM TermsStayDurable == Spec => []TermsDurable
  BY Inductive, PTL DEF IInv

\* Only live books wait for a flush.
THEOREM PendingStaysLive == Spec => []PendingLive
  BY Inductive, PTL DEF IInv

\* Type correctness.
THEOREM TypeCorrect == Spec => []TypeOK
  BY Inductive, PTL DEF IInv

-----------------------------------------------------------------------------
(* The hits.  That they are accounted for is inductive beside the rest:    *)
(* memory departs from a file only where a step says so, in the books that *)
(* wait, failed or were skipped.  A book whose hits were not counted is    *)
(* the same book because books and their entries are functions.            *)

Formed(book) ==
    /\ book = [pairs |-> book.pairs, entries |-> book.entries]
    /\ book.entries = [e \in DOMAIN book.entries |-> book.entries[e]]

FormedEverywhere ==
    /\ \A b \in DOMAIN books : Formed(books[b])
    /\ \A b \in DOMAIN files : Formed(files[b])

HitsInv == FormedEverywhere /\ HitsAccounted

\* To change a book is to change one of its two fields.
LEMMA BookChanged ==
    ASSUME NEW book, Formed(book), NEW v
    PROVE  /\ [book EXCEPT !.pairs = v] = [pairs |-> v, entries |-> book.entries]
           /\ [book EXCEPT !.entries = v] = [pairs |-> book.pairs, entries |-> v]
BY DEF Formed

LEMMA AppliedForms ==
    ASSUME NEW book, Formed(book), NEW id, NEW c, NEW new \in Applied(book, id, c)
    PROVE  Formed(new)
<1>1. PICK e, v : new = [book EXCEPT !.entries = With(@, e, v)]  BY DEF Applied
<1>2. new = [pairs |-> book.pairs, entries |-> With(book.entries, e, v)]  BY <1>1 DEF Formed
<1>. QED  BY <1>2 DEF Formed, With, Over

\* Only what is counted changes.
LEMMA HitSame ==
    ASSUME NEW w, NEW b \in DOMAIN books, Formed(books[b])
    PROVE  Formed(Hit(w)[b]) /\ (b \notin HitBooks(w) => Hit(w)[b] = books[b])
<1>. DEFINE old == books[b].entries
            new == [e \in DOMAIN old |-> IF \E m \in Counted(w) : m.book = b /\ m.entry = e
                                         THEN [old[e] EXCEPT !.hits = Saturated(@)]
                                         ELSE old[e]]
<1>1. Hit(w)[b] = [pairs |-> books[b].pairs, entries |-> new]
  <2>1. Hit(w)[b] = [books[b] EXCEPT !.entries = new]  BY DEF Hit
  <2>. HIDE DEF new
  <2>. QED  BY <2>1 DEF Formed
<1>2. ASSUME b \notin HitBooks(w) PROVE new = old
  <2>1. \A m \in Counted(w) : m.book # b  BY <1>2 DEF HitBooks
  <2>2. new = [e \in DOMAIN old |-> old[e]]  BY <2>1
  <2>. QED  BY <2>2 DEF Formed
<1>3. new = [e \in DOMAIN new |-> new[e]]  OBVIOUS
<1>. HIDE DEF new
<1>. QED  BY <1>1, <1>2, <1>3 DEF Formed

LEMMA CommitAccounts ==
    ASSUME HitsInv, NEW b \in Books, NEW book, Formed(book), Commit(b, book)
    PROVE  HitsInv'
<1>. USE DEF HitsInv
<1>1. /\ DOMAIN books' = DOMAIN books \cup {b}
      /\ books'[b] = book
      /\ \A x \in DOMAIN books \ {b} : books'[x] = books[x]
  BY DEF Commit, With, Over
<1>2. \/ failed' = failed \cup {b} /\ files' = files
      \/ /\ failed' = failed \ {b}
         /\ DOMAIN files' = DOMAIN files \cup {b}
         /\ files'[b] = book
         /\ \A x \in DOMAIN files \ {b} : files'[x] = files[x]
  BY DEF Commit, Write, With, Over
<1>3. pending' = pending \ {b} /\ skipped' = skipped \ {b}  BY DEF Commit
<1>4. FormedEverywhere'  BY <1>1, <1>2 DEF FormedEverywhere
<1>5. HitsAccounted'  BY <1>1, <1>2, <1>3 DEF HitsAccounted, Written, Live, OnDisk
<1>. QED  BY <1>4, <1>5

LEMMA DeleteBookAccounts ==
    ASSUME HitsInv, NEW b \in Books, DeleteBook(b)
    PROVE  HitsInv'
<1>. USE DEF HitsInv
<1>1. /\ DOMAIN books' = DOMAIN books \ {b}
      /\ \A x \in DOMAIN books \ {b} : books'[x] = books[x]
  BY DEF DeleteBook, Without, Restrict
<1>2. \/ failed' = failed \cup {b} /\ files' = files
      \/ /\ failed' = failed \ {b}
         /\ DOMAIN files' = DOMAIN files \ {b}
         /\ \A x \in DOMAIN files \ {b} : files'[x] = files[x]
  BY DEF DeleteBook, Without, Restrict
<1>3. pending' = pending \ {b} /\ skipped' = skipped \ {b}  BY DEF DeleteBook
<1>4. FormedEverywhere'  BY <1>1, <1>2 DEF FormedEverywhere
<1>5. HitsAccounted'  BY <1>1, <1>2, <1>3 DEF HitsAccounted, Written, Live, OnDisk
<1>. QED  BY <1>4, <1>5

\* A flush leaves the books it did not write among the failed and the skipped.
LEMMA FlushAccounts ==
    ASSUME HitsInv, NEW hot, Flush(hot), pending \subseteq hot, hot \subseteq DOMAIN books,
           DOMAIN books' = DOMAIN books,
           \A b \in DOMAIN books : Formed(books'[b]),
           \A b \in DOMAIN books \ hot : books'[b] = books[b]
    PROVE  HitsInv'
<1>. USE DEF HitsInv
<1>1. PICK written \in SUBSET hot :
          /\ files' = Over(Restrict(books', written \cap DOMAIN books'), files)
          /\ IF hot \ written = {}
             THEN failed' = failed \ written /\ skipped' = skipped \ written
             ELSE \E bad \in hot \ written :
                     /\ failed' = (failed \ written) \cup {bad}
                     /\ skipped' = (skipped \ written) \cup ((hot \ written) \ {bad})
  BY DEF Flush
<1>2. /\ DOMAIN files' = DOMAIN files \cup written
      /\ \A b \in written : files'[b] = books'[b]
      /\ \A b \in DOMAIN files \ written : files'[b] = files[b]
  BY <1>1 DEF Over, Restrict
<1>3. /\ failed \ written \subseteq failed' /\ skipped \ written \subseteq skipped'
      /\ hot \ written \subseteq failed' \cup skipped'
  BY <1>1
<1>4. FormedEverywhere'  BY <1>2 DEF FormedEverywhere
<1>5. ASSUME NEW b \in Books \ (failed' \cup skipped' \cup pending') PROVE Written(b)'
  <2>1. CASE b \in written  BY <1>2, <2>1 DEF Written, Live, OnDisk
  <2>2. CASE b \notin written
    <3>1. b \notin hot /\ b \notin failed \cup skipped \cup pending  BY <1>3, <1>5, <2>2
    <3>2. Written(b)  BY <3>1 DEF HitsAccounted
    <3>. QED  BY <1>2, <2>2, <3>1, <3>2 DEF Written, Live, OnDisk
  <2>. QED  BY <2>1, <2>2
<1>6. HitsAccounted'  BY <1>5 DEF HitsAccounted
<1>. QED  BY <1>4, <1>6

LEMMA StepAccounts == ASSUME IInv, HitsInv, [Next]_vars PROVE HitsInv'
<1>. USE DEF HitsInv
<1>1. ASSUME NEW b \in Books, NEW pairs \in SUBSET Pairs, UpsertBook(b, pairs)
      PROVE  HitsInv'
  <2>1. CASE Live(b) /\ Commit(b, [books[b] EXCEPT !.pairs = pairs])
    <3>1. Formed(books[b])  BY <2>1 DEF FormedEverywhere, Live
    <3>2. [books[b] EXCEPT !.pairs = pairs] = [pairs |-> pairs, entries |-> books[b].entries]
      BY <3>1, BookChanged
    <3>3. Formed([books[b] EXCEPT !.pairs = pairs])  BY <3>1, <3>2 DEF Formed
    <3>. QED  BY <2>1, <3>3, CommitAccounts
  <2>2. CASE Commit(b, [pairs |-> pairs, entries |-> <<>>])
    <3>1. Formed([pairs |-> pairs, entries |-> <<>>])  BY DEF Formed
    <3>. QED  BY <2>2, <3>1, CommitAccounts
  <2>. QED  BY <1>1, <2>1, <2>2 DEF UpsertBook
<1>2. ASSUME NEW b \in Books, NEW id \in Entries \cup {None}, NEW c \in Content,
             UpsertEntry(b, id, c)
      PROVE  HitsInv'
  <2>1. PICK book \in Applied(books[b], id, c) : Commit(b, book)  BY <1>2 DEF UpsertEntry
  <2>2. Formed(book)
    BY <1>2, AppliedForms DEF UpsertEntry, Live, FormedEverywhere
  <2>. QED  BY <2>1, <2>2, CommitAccounts
<1>3. ASSUME NEW b \in Books, NEW c \in Content, NEW d \in Content, ImportEntries(b, c, d)
      PROVE  HitsInv'
  <2>1. PICK half \in Applied(books[b], None, c) :
            \E book \in Applied(half, None, d) : Commit(b, book)
    BY <1>3 DEF ImportEntries
  <2>2. PICK book \in Applied(half, None, d) : Commit(b, book)  BY <2>1
  <2>3. Formed(half)
    BY <1>3, AppliedForms DEF ImportEntries, Live, FormedEverywhere
  <2>4. Formed(book)  BY <2>3, AppliedForms
  <2>. QED  BY <2>2, <2>4, CommitAccounts
<1>4. ASSUME NEW b \in Books, NEW e \in Entries, DeleteEntry(b, e)
      PROVE  HitsInv'
  <2>. DEFINE book == [books[b] EXCEPT !.entries = Without(@, e)]
  <2>1. Live(b) /\ Commit(b, book)  BY <1>4 DEF DeleteEntry
  <2>2. book = [pairs |-> books[b].pairs, entries |-> Without(books[b].entries, e)]
    BY <2>1, BookChanged DEF FormedEverywhere, Live
  <2>3. Formed(book)  BY <2>2 DEF Formed, Without, Restrict
  <2>. QED  BY <2>1, <2>3, CommitAccounts
<1>5. ASSUME NEW b \in Books, DeleteBook(b) PROVE HitsInv'
  BY <1>5, DeleteBookAccounts
<1>6. ASSUME NEW w \in Workers, RecordHits(w) \/ RecordAndFlush(w) PROVE HitsInv'
  <2>1. books' = Hit(w) /\ DOMAIN books' = DOMAIN books
    BY <1>6 DEF RecordHits, RecordAndFlush, Hit
  <2>2. /\ \A b \in DOMAIN books : Formed(books'[b])
        /\ \A b \in DOMAIN books \ HitBooks(w) : books'[b] = books[b]
    BY <2>1, HitSame DEF FormedEverywhere
  <2>3. pending \subseteq HitBooks(w) /\ HitBooks(w) \subseteq DOMAIN books
    BY DEF HitBooks, Counted, Live, IInv, PendingLive
  <2>4. CASE RecordHits(w)
    <3>1. FormedEverywhere'  BY <2>1, <2>2, <2>4 DEF RecordHits, FormedEverywhere
    <3>2. HitsAccounted'
      BY <2>1, <2>2, <2>3, <2>4 DEF RecordHits, HitsAccounted, Written, Live, OnDisk
    <3>. QED  BY <3>1, <3>2
  <2>5. CASE RecordAndFlush(w)
    BY <2>1, <2>2, <2>3, <2>5, FlushAccounts DEF RecordAndFlush
  <2>. QED  BY <1>6, <2>4, <2>5
<1>7. CASE FlushHits
  <2>1. pending \subseteq DOMAIN books  BY DEF IInv, PendingLive, Live
  <2>. QED  BY <1>7, <2>1, FlushAccounts DEF FlushHits, FormedEverywhere
<1>8. CASE Restart
  BY <1>8 DEF Restart, FormedEverywhere, HitsAccounted, Written, Live, OnDisk
<1>9. CASE UNCHANGED <<books, files, pending, failed, skipped>>
  BY <1>9 DEF FormedEverywhere, HitsAccounted, Written, Live, OnDisk
<1>. QED
  BY <1>1, <1>2, <1>3, <1>4, <1>5, <1>6, <1>7, <1>8, <1>9 DEF Next, vars, DeleteMissing, Match

\* Hits that are not on disk belong to a book that waits for a flush, or to one
\* whose write failed or that a failed flush dropped.
THEOREM HitsStayAccounted == Spec => []HitsAccounted
<1>1. Init => HitsInv
  BY DEF Init, HitsInv, FormedEverywhere, HitsAccounted, Written, Live, OnDisk
<1>2. IInv /\ HitsInv /\ [Next]_vars => HitsInv'  BY StepAccounts
<1>3. HitsInv => HitsAccounted  BY DEF HitsInv
<1>. QED  BY <1>1, <1>2, <1>3, Inductive, PTL DEF Spec
=============================================================================
