---------------------------- MODULE StreamDecoder ----------------------------
(***************************************************************************)
(* The decoder of a provider's streamed answer and the task that feeds it. *)
(*                                                                         *)
(* The wire carries lines; the network cuts them into pushes anywhere, so  *)
(* that a line has two halves here.  In the "sse" format data lines add up *)
(* to a record until a blank line; in the "lines" format every line is a   *)
(* record.  A record is a piece of text, an end, a piece with the end, a   *)
(* note without text, the provider's refusal, or garbage.  A line may not  *)
(* be UTF-8 (mangled).                                                     *)
(***************************************************************************)
EXTENDS Naturals, Sequences, SequencesExt

CONSTANTS
    Formats, Lines,
    MaxLines,   \* bound on what a provider sends
    Limit       \* bound on a record, in half lines

VARIABLES
    format, wire,
    arrived,    \* half lines received
    taken,      \* lines decoded
    data,       \* the data lines of the record under way
    out,        \* chunks sent to the receiver
    state,      \* "running", or how the task ended
    listening   \* the receiver was not dropped

vars == <<format, wire, arrived, taken, data, out, state, listening>>

Init ==
    /\ format \in Formats
    /\ wire \in UNION {[1 .. n -> Lines] : n \in 0 .. MaxLines}
    /\ arrived = 0 /\ taken = 0
    /\ data = <<>> /\ out = <<>>
    /\ state = "running" /\ listening = TRUE

-----------------------------------------------------------------------------
(* The decoder                                                             *)

Finishing == {"stop", "last"}
Failing == {"refusal", "garbage"}

\* record and emit: d gathers the chunks of a push.
Take(d, record) ==
    CASE record \in Failing -> [d EXCEPT !.error = "failed"]
      [] record = "note" -> d
      [] OTHER -> [d EXCEPT !.chunks = Append(@, record), !.finished = record \in Finishing]

\* dispatch: two documents in one record are no JSON.
Flush(d) ==
    IF d.data = <<>> THEN d
    ELSE Take([d EXCEPT !.data = <<>>],
              IF Len(d.data) = 1 THEN Head(d.data) ELSE "garbage")

\* line
Line(d, line) ==
    IF format = "lines"
    THEN CASE line = "blank" -> d [] line = "comment" -> Take(d, "garbage") [] OTHER -> Take(d, line)
    ELSE CASE line = "blank" -> Flush(d)
           [] line = "comment" -> d
           [] OTHER -> [d EXCEPT !.data = Append(@, line)]

\* The loop of push over the lines that are complete.
Step(d, line) ==
    IF d.finished \/ d.error # "none" THEN d
    ELSE [IF line = "mangled" THEN [d EXCEPT !.error = "lost"] ELSE Line(d, line)
             EXCEPT !.lines = @ + 1]

Decode(pending, lines) ==
    LET start == [data |-> pending, chunks |-> <<>>, lines |-> 0,
                  finished |-> FALSE, error |-> "none"]
        After[n \in 0 .. Len(lines)] ==
            IF n = 0 THEN start ELSE Step(After[n - 1], lines[n])
    IN  After[Len(lines)]

Complete(n) == n \div 2

Oversize(d, n) == n - 2 * (taken + d.lines) + 2 * Len(d.data) > Limit

-----------------------------------------------------------------------------
(* receive                                                                 *)

Over(how, said) ==
    /\ state' = how
    /\ out' = IF listening THEN out \o said ELSE out

\* Mutant: an error in a push takes the pieces before it along.
OutcomeForgets(d, big) ==
    IF d.error # "none" \/ big THEN Over(IF d.error = "none" THEN "lost" ELSE d.error, <<"error">>)
    ELSE IF d.finished THEN Over("finished", d.chunks)
    ELSE IF d.chunks # <<>> /\ ~listening THEN Over("left", <<>>)
    ELSE Over("running", d.chunks)

\* What becomes of a push: a record that fails keeps the pieces before it; a
\* line that is not UTF-8, or a record too large, loses those of its push.  A
\* receiver that is gone ends the task at the next chunk.
Outcome(d, big) ==
    IF d.error = "failed" THEN Over("failed", Append(d.chunks, "error"))
    ELSE IF d.error = "lost" \/ big THEN Over("lost", <<"error">>)
    ELSE IF d.finished THEN Over("finished", d.chunks)
    ELSE IF d.chunks # <<>> /\ ~listening THEN Over("left", <<>>)
    ELSE Over("running", d.chunks)

Push ==
    /\ state = "running"
    /\ \E n \in arrived + 1 .. 2 * Len(wire) :
          LET d == Decode(data, SubSeq(wire, taken + 1, Complete(n)))
          IN  /\ arrived' = n
              /\ taken' = taken + d.lines
              /\ data' = d.data
              /\ Outcome(d, d.error = "none" /\ Oversize(d, n))
    /\ UNCHANGED <<format, wire, listening>>

\* The connection breaks.
Break ==
    /\ state = "running"
    /\ Over("broken", <<"error">>)
    /\ UNCHANGED <<format, wire, arrived, taken, data, listening>>

\* end: the line without line end, whole or cut, and the record without a blank
\* line after it.
Rest(d) == IF d.error = "none" THEN Flush(d) ELSE d

Tails ==
    IF arrived = 2 * taken THEN {Rest(Decode(data, <<>>))}
    ELSE {Rest(Decode(data, <<line>>)) :
              line \in {wire[taken + 1], "garbage", "comment", "mangled"}}

\* Mutant: an answer that stops is an answer.
EndTrusts ==
    /\ state = "running"
    /\ \E d \in Tails : Over("ended", IF d.error # "none" THEN <<"error">> ELSE d.chunks)
    /\ UNCHANGED <<format, wire, arrived, taken, data, listening>>

\* The connection ends; an answer without end is an error.
End ==
    /\ state = "running"
    /\ \E d \in Tails :
          Over("ended", IF d.error # "none" THEN <<"error">>
                        ELSE IF d.finished THEN d.chunks ELSE Append(d.chunks, "error"))
    /\ UNCHANGED <<format, wire, arrived, taken, data, listening>>

Leave ==
    /\ listening
    /\ listening' = FALSE
    /\ UNCHANGED <<format, wire, arrived, taken, data, out, state>>

Next == Push \/ Break \/ End \/ Leave

Spec == Init /\ [][Next]_vars

-----------------------------------------------------------------------------
TypeOK ==
    /\ arrived \in 0 .. 2 * Len(wire) /\ taken \in 0 .. Complete(arrived)
    /\ data \in Seq(Lines)
    /\ state \in {"running", "finished", "failed", "lost", "broken", "ended", "left"}

\* The receiver hears an end once, as the last thing, and every task that did
\* not lose its receiver says one.
EndOnce ==
    /\ \A i \in DOMAIN out : out[i] \in Finishing \cup {"error"} =>
          i = Len(out) /\ state # "running"
    /\ state # "running" /\ listening => out # <<>> /\ Last(out) \in Finishing \cup {"error"}

\* However the network cut the answer, the receiver hears what the lines that
\* arrived say, in order and up to the first failure; only a line that is not
\* UTF-8 or a record too large may cost the pieces that came in its push.
CutsUnheard ==
    LET whole == Decode(<<>>, SubSeq(wire, 1, Complete(arrived)))
        heard == IF out # <<>> /\ Last(out) = "error" THEN Front(out) ELSE out
    IN  listening =>
            /\ state \in {"running", "finished", "failed", "broken"} => heard = whole.chunks
            /\ state = "ended" => heard = whole.chunks \/ Front(heard) = whole.chunks
            /\ state = "lost" => IsPrefix(heard, whole.chunks)
=============================================================================
