--------------------------- MODULE DictionaryParser ---------------------------
(***************************************************************************)
(* Reading a definition of the macOS dictionary: one text, without any     *)
(* structure but its marks, becomes pronunciations and definitions.        *)
(*                                                                         *)
(* A text is a sequence of marks and words separated by blanks:            *)
(*   "head"    the word looked up          "pipe"  |                       *)
(*   "label"   a BrE or AmE part           "ipa"   a phonetic part         *)
(*   "tri"     the triangle before a part of speech                        *)
(*   "letter"  A. B. C.                    "circ"  a circled number        *)
(*   "num"     1. 2. or a bullet           "nl"    a new line              *)
(*   "pos"     a part of speech            "form"  a note on word forms    *)
(*   "word"    anything else                                               *)
(* A part of it is a set of positions of the text, so that every word can  *)
(* be followed to where it ends.  A list of parts is a function on the     *)
(* positions of the marks they stand behind, in whose order it is; 0 is    *)
(* the position before the text.                                           *)
(***************************************************************************)
EXTENDS Naturals, Sequences, FiniteSets, Functions

CONSTANTS
    Marks,      \* the tokens texts are made of
    MaxLen      \* bound on the length of a text

VARIABLES text, reply
vars == <<text, reply>>

Idle == [state |-> "idle"]

Init == text = <<>> /\ reply = Idle

-----------------------------------------------------------------------------
(* Splitting the part s of the text t.                                     *)

Of(t, s, kind) == {i \in s : t[i] = kind}
Words(t, s) == s \ Of(t, s, "nl")
First(s) == {i \in s : \A j \in s : i <= j}

Several(parts) == \E c, d \in DOMAIN parts : c # d
Only(part) == [c \in {0} |-> part]
Nonempty(parts) == Restrict(parts, {c \in DOMAIN parts : parts[c] # {}})

\* The parts between the marks of one kind.
SplitAt(t, s, kind) ==
    LET cuts == Of(t, s, kind)
    IN  [c \in {0} \cup cuts |->
            {i \in s \ cuts : c < i /\ \A k \in cuts : k < i => k <= c}]

\* A trimmed text has no blank part before a first or after a last mark; the
\* blank between two marks is a part.
Sections(t, s, kind) ==
    LET parts == SplitAt(t, s, kind)
    IN  Restrict(parts, {c \in DOMAIN parts :
            parts[c] # {} \/ (c # 0 /\ \E d \in DOMAIN parts : c < d)})

split_by_triangle(t, s) == Sections(t, s, "tri")

\* What precedes the first letter belongs to no section.
split_by_letters(t, s) ==
    LET parts == SplitAt(t, s, "letter")
    IN  Restrict(parts, {c \in DOMAIN parts \ {0} : Words(t, parts[c]) # {}})

\* Mutant: the part after the last mark is forgotten.
split_by_circled_short(t, s) ==
    LET parts == Sections(t, s, "circ")
    IN  Restrict(parts, {c \in DOMAIN parts : \E d \in DOMAIN parts : c < d})

split_by_circled(t, s) == Sections(t, s, "circ")

-----------------------------------------------------------------------------
(* Pronunciations and the body.                                            *)

InPipe(t, i) == Cardinality({j \in 1 .. i - 1 : t[j] = "pipe"}) % 2 = 1

Trim(t, s) == {i \in s : \E j, k \in Words(t, s) : j <= i /\ i <= k}

strip_pipe_blocks(t) == Trim(t, {i \in DOMAIN t : t[i] # "pipe" /\ ~InPipe(t, i)})

\* The headword goes when something follows it.
strip_headword(t, s) ==
    LET rest == s \ First(s)
    IN  IF rest # {} /\ \E i \in First(s) : t[i] = "head" THEN Trim(t, rest) ELSE s

\* The parts of the first closed block, if it looks like a pronunciation.  A
\* label begins a group; without any label all is one.
extract_pronunciation(t) ==
    LET parts == SplitAt(t, DOMAIN t, "pipe")
        opening == First(DOMAIN parts \ {0})
        block == UNION {Words(t, parts[c]) : c \in opening}
        starts == First(block) \cup Of(t, block, "label")
        Group(k) == {i \in block : k <= i /\ \A c \in starts : c > k => i < c}
    IN  IF (DOMAIN parts \ {0}) \ opening = {} \/ \A i \in block : t[i] \notin {"label", "ipa"}
        THEN <<>> ELSE [k \in starts |-> Group(k)]

-----------------------------------------------------------------------------
(* Definitions: a name and values.                                         *)

Definition(name, values) == [name |-> name, values |-> values]

\* A leading number goes when something follows it.
strip_leading_number(t, line) ==
    LET rest == line \ First(line)
    IN  IF rest # {} /\ \E i \in First(line) : t[i] = "num" THEN rest ELSE line

\* The lines from the first numbered one; without any, the section as it is.
split_pos_and_defs(t, s) ==
    LET lines == Nonempty(SplitAt(t, s, "nl"))
        numbered == {c \in DOMAIN lines : \E i \in First(lines[c]) : t[i] = "num"}
        before == {c \in DOMAIN lines : \A n \in numbered : c < n}
    IN  IF numbered = {} THEN [pos |-> {}, lines |-> Only(Words(t, s))]
        ELSE [pos |-> UNION {lines[c] : c \in before},
              lines |-> Restrict(lines, DOMAIN lines \ before)]

Stripped(t, lines) == [c \in DOMAIN lines |-> strip_leading_number(t, lines[c])]

make_def(t, s) ==
    LET split == split_pos_and_defs(t, s)
    IN  Definition(split.pos, Nonempty(Stripped(t, split.lines)))

\* A section on one line: a part of speech, a remainder, circled values.
parse_inline_definition_section(t, s) ==
    LET line == Words(t, s)
        head == SplitAt(t, line, "circ")[0]
        circled == IF head = line THEN <<>> ELSE Nonempty(split_by_circled(t, line \ head))
        name == Of(t, First(head), "pos")
        rest == head \ name
        values == IF rest = {} \/ Of(t, rest, "form") # {} THEN circled
                  ELSE [c \in {0} \cup DOMAIN circled |-> IF c = 0 THEN rest ELSE circled[c]]
    IN  Definition(name,
            IF DOMAIN circled = {} THEN Nonempty(Only(IF rest = {} THEN head ELSE rest))
            ELSE values)

\* The five ways to find sections, in their order.
parse_definition_sections(t, s) ==
    LET triangles == split_by_triangle(t, s)
        sections == {c \in DOMAIN triangles : Words(t, triangles[c]) # {}}
        letters == split_by_letters(t, s)
        entries == [c \in DOMAIN letters |-> parse_inline_definition_section(t, letters[c])]
        inline == parse_inline_definition_section(t, s)
        circled == split_by_circled(t, Words(t, s))
        lines == split_pos_and_defs(t, s).lines
    IN  IF Words(t, s) = {} THEN <<>>
        ELSE IF Several(triangles) THEN [c \in sections |-> make_def(t, triangles[c])]
        ELSE IF DOMAIN letters # {}
        THEN Restrict(entries, {c \in DOMAIN entries :
                 entries[c].name # {} \/ DOMAIN entries[c].values # {}})
        ELSE IF inline.name # {} \/ Several(inline.values) THEN Only(inline)
        ELSE IF Several(circled) /\ DOMAIN Nonempty(circled) # {}
        THEN Only(Definition({}, Nonempty(circled)))
        ELSE Only(Definition({}, Nonempty(Stripped(t, lines))))

parse_lookup_response(t) ==
    [state |-> "read",
     pronunciations |-> extract_pronunciation(t),
     definitions |-> parse_definition_sections(t, strip_headword(t, strip_pipe_blocks(t)))]

-----------------------------------------------------------------------------
Texts == UNION {[1 .. n -> Marks] : n \in 1 .. MaxLen}

\* The word may be no word, the dictionary may have nothing, or a text.
look_up ==
    /\ reply = Idle
    /\ \/ reply' \in {[state |-> "error"], [state |-> "empty"]} /\ UNCHANGED text
       \/ \E t \in Texts :
              /\ "nl" \notin {t[1], t[Len(t)]}      \* trimmed
              /\ text' = t
              /\ reply' = parse_lookup_response(t)

Next == look_up

Spec == Init /\ [][Next]_vars

-----------------------------------------------------------------------------
TypeOK ==
    /\ text \in Seq(Marks)
    /\ reply.state \in {"idle", "error", "empty", "read"}

\* What a definition says, and all that is kept of a text.
Said(d) == d.name \cup UNION {d.values[c] : c \in DOMAIN d.values}
Kept == UNION {Said(reply.definitions[c]) : c \in DOMAIN reply.definitions}

Before(p, q) ==
    \A i \in p, j \in q : text[i] = "word" /\ text[j] = "word" => i < j

\* What is to be kept, and what a text may lose of it: what precedes all the
\* letters, what stands on a line before a numbered one, and what stands with
\* a note on word forms before a circled number.
Bare == {i \in DOMAIN text : ~InPipe(text, i)}
Body == {i \in Bare : text[i] \in {"word", "ipa", "label"}}

BeforeLetters(i) ==
    LET letters == Of(text, Bare, "letter") IN letters # {} /\ \A j \in letters : i < j
BeforeNumbers(i) ==
    \E j \in Of(text, Bare, "nl"), k \in Of(text, Bare, "num") : i < j /\ j < k
BesideForm(i) ==
    \E j \in Of(text, Bare, "form"), k \in Of(text, Bare, "circ") : i < k /\ j < k

\* macos.rs, parse_definition_sections: whichever way a text is split, its
\* words come out once and in their order, nothing inside pipes comes out, and
\* nothing is lost unless letters, numbers or notes on forms say so.
NothingUnread ==
    reply.state = "read" =>
        /\ \A c, d \in DOMAIN reply.definitions : c < d =>
              Before(Said(reply.definitions[c]), Said(reply.definitions[d]))
        /\ \A c \in DOMAIN reply.definitions :
              LET values == reply.definitions[c].values
              IN  \A k, l \in DOMAIN values :
                      /\ Before(reply.definitions[c].name, values[k])
                      /\ k < l => Before(values[k], values[l])
        /\ Kept \subseteq Bare
        /\ \A i \in Body \ Kept : BeforeLetters(i) \/ BeforeNumbers(i) \/ BesideForm(i)
=============================================================================
