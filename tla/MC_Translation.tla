--------------------------- MODULE MC_Translation ---------------------------
(* A translation at its three levels, on small instances explored one at a *)
(* time: the view model with two services, the task that runs one stream,  *)
(* and the decoder of what a provider sends.  Each level takes the next    *)
(* only at its word: pieces, then one end.                                 *)
EXTENDS TranslationSession, Sequences

CONSTANTS Part, MaxPieces, Formats, Lines, MaxLines, Limit

\* What the task and the decoder are given: a bound each, and lines that no
\* receiver could take for its own error.
ASSUME TaskAssumption == MaxPieces \in Nat
ASSUME DecoderAssumption == MaxLines \in Nat /\ "error" \notin Lines

VARIABLES
    part,
    cancelled, calling, waiter, op, loop, result, outer, queue, sent, reader, answer, stopped,
    heard,
    format, wire, arrived, taken, data, out, state, listening

task == <<cancelled, calling, waiter, op, loop, result, outer, queue, sent, reader, answer,
          stopped, heard>>
decoder == <<format, wire, arrived, taken, data, out, state, listening>>

T == INSTANCE TranslationTask
D == INSTANCE StreamDecoder

\* A level that is not explored rests in its initial state.
TranslationInit ==
    /\ part \in Part
    /\ Init /\ T!Init
    /\ D!Init /\ (part = "decoder" \/ (format = "sse" /\ wire = <<>>))

SessionNext == part = "session" /\ Next /\ UNCHANGED <<part, task, decoder>>
TaskNext == part = "task" /\ T!Next /\ UNCHANGED <<part, vars, decoder>>
DecoderNext == part = "decoder" /\ D!Next /\ UNCHANGED <<part, vars, task>>

TranslationSpec ==
    /\ TranslationInit /\ [][SessionNext \/ TaskNext \/ DecoderNext]_<<part, vars, task, decoder>>
    /\ WF_vars(part = "session" /\ Translation)
    /\ part = "task" => T!Fairness

-----------------------------------------------------------------------------
\* The types of all three.
TranslationTypeOK == TypeOK /\ T!TypeOK /\ D!TypeOK

\* What is shown together, or kept together in the history, answers one query.
OneQuery == Comparable /\ OneQueryPerSession

\* An end is said once and last by the task, and nothing in the view waits
\* for an end nobody will say.
EndIsSaid == T!OneEnd /\ T!EndIsSaid /\ NothingHangs

\* A submission ends, and after a cancellation or an end every thread of its
\* task does.
EndsAtLast == SubmissionsEnd /\ T!AllEnd

\* llm_stream.dart: the listener is told what a stream promises.
ImplementsStream == T!ImplementsStream

\* streaming.rs: an answer is heard in order and with one end, and how the
\* network cuts it makes no difference.
AnswerHeard == D!EndOnce /\ D!CutsUnheard
=============================================================================
