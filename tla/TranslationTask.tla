-------------------------- MODULE TranslationTask --------------------------
(***************************************************************************)
(* One streaming translation: the thread that runs it, the blocking loop   *)
(* that reads the provider's chunks, the queue, and the listener that      *)
(* takes events from the queue until one ends the stream or it cancels.    *)
(*                                                                         *)
(* Two parties wait for a cancellation next to their work: the bridge      *)
(* thread beside the provider's calls, and the listener's next() beside    *)
(* the queue.  cancel() stores a flag and then wakes the waiters there     *)
(* are, so a waiter registers before it looks at the flag.                 *)
(*                                                                         *)
(* The provider is external: it answers, streams chunks, ends, fails or    *)
(* stays silent for ever.  The listener reads alone, so the queue's lock   *)
(* is never contended; the threads are assumed to start and not to panic.  *)
(***************************************************************************)
EXTENDS Naturals, Sequences, SequencesExt

CONSTANT MaxPieces   \* bound on the pieces of a translation

Waiters == {"bridge", "listener"}

VARIABLES
    cancelled,    \* the task's flag
    calling,      \* cancel() has stored the flag and not woken the waiters yet
    waiter,       \* wait_cancelled of each waiter
    op,           \* the operation on the bridge thread
    loop,         \* the blocking loop
    result,       \* of translate_stream_impl, once the bridge thread ended
    outer,        \* the translation thread still runs
    queue,
    sent,         \* pieces sent
    reader,       \* the listener: in next(), holding its answer, closed
    answer,       \* what next() returned
    stopped,      \* the listener's own flag
    heard         \* what the stream delivered

taskVars == <<cancelled, calling, waiter>>
workVars == <<op, loop, result, outer, sent>>
readVars == <<reader, answer, stopped, heard>>
vars == <<taskVars, workVars, queue, readVars>>

Ends == {"finish", "error"}

Init ==
    /\ cancelled = FALSE /\ calling = FALSE
    /\ waiter = [w \in Waiters |-> "start"]
    /\ op = "resolve" /\ loop = "off" /\ result = "none" /\ outer = TRUE
    /\ queue = <<>> /\ sent = 0
    /\ reader = "next" /\ answer = "none" /\ stopped = FALSE /\ heard = <<>>

-----------------------------------------------------------------------------
(* Cancellation                                                            *)

\* cancel(), when the subscription is cancelled or is over: the flag ...
CancelStores ==
    /\ ~stopped
    /\ stopped' = TRUE
    /\ cancelled' = TRUE
    /\ calling' = TRUE
    /\ UNCHANGED <<waiter, workVars, queue, reader, answer, heard>>

\* ... and then notify_waiters.
CancelWakes ==
    /\ calling
    /\ calling' = FALSE
    /\ waiter' = [w \in Waiters |->
           IF waiter[w] \in {"registered", "waiting"} THEN "woken" ELSE waiter[w]]
    /\ UNCHANGED <<cancelled, workVars, queue, readVars>>

\* Mutant: the flag is looked at before the waiter registers.
WaitLate(w) ==
    /\ \/ /\ waiter[w] = "start"
          /\ waiter' = [waiter EXCEPT ![w] = IF cancelled THEN "woken" ELSE "off"]
       \/ /\ waiter[w] = "off"
          /\ waiter' = [waiter EXCEPT ![w] = "waiting"]
    /\ UNCHANGED <<cancelled, calling>>

\* wait_cancelled: register, then look at the flag.
Wait(w) ==
    /\ \/ /\ waiter[w] = "start"
          /\ waiter' = [waiter EXCEPT ![w] = "registered"]
       \/ /\ waiter[w] = "registered"
          /\ waiter' = [waiter EXCEPT ![w] = IF cancelled THEN "woken" ELSE "waiting"]
    /\ UNCHANGED <<cancelled, calling>>

\* A select polls the wait first: its other branch runs when that one waits.
BesideWait(w) == waiter[w] = "waiting"

Settled(w) == waiter' = [waiter EXCEPT ![w] = "off"] /\ UNCHANGED <<cancelled, calling>>

-----------------------------------------------------------------------------
(* The bridge thread                                                       *)

BridgeWaits ==
    /\ result = "none"
    /\ Wait("bridge")
    /\ UNCHANGED <<workVars, queue, readVars>>

\* The service is resolved and the provider called.
Resolve ==
    /\ BesideWait("bridge") /\ op = "resolve"
    /\ op' \in {"called", "failed"}
    /\ UNCHANGED <<taskVars, loop, result, outer, sent, queue, readVars>>

\* A provider with chat_stream starts the blocking loop ...
StreamOpens ==
    /\ BesideWait("bridge") /\ op = "called"
    /\ op' = "looping" /\ loop' = "checking"
    /\ UNCHANGED <<taskVars, result, outer, sent, queue, readVars>>

\* ... one without sends its translations and the end at once ...
AnswerComes ==
    /\ BesideWait("bridge") /\ op = "called"
    /\ \E n \in 0 .. MaxPieces :
          /\ queue' = queue \o [i \in 1 .. n |-> "piece"] \o <<"finish">>
          /\ sent' = n
    /\ op' = "done"
    /\ UNCHANGED <<taskVars, loop, result, outer, readVars>>

\* ... and both may fail instead.
CallFails ==
    /\ BesideWait("bridge") /\ op = "called"
    /\ op' = "failed"
    /\ UNCHANGED <<taskVars, loop, result, outer, sent, queue, readVars>>

LoopChecks ==
    /\ loop = "checking"
    /\ loop' = IF cancelled THEN "over" ELSE "receiving"
    /\ UNCHANGED <<taskVars, op, result, outer, sent, queue, readVars>>

LoopTimesOut ==
    /\ loop = "receiving"
    /\ loop' = "checking"
    /\ UNCHANGED <<taskVars, op, result, outer, sent, queue, readVars>>

LoopPiece ==
    /\ loop = "receiving"
    /\ sent < MaxPieces
    /\ queue' = Append(queue, "piece") /\ sent' = sent + 1
    /\ loop' = "checking"
    /\ UNCHANGED <<taskVars, op, result, outer, readVars>>

\* Mutant: a stream that breaks off ends without a word.
LoopEndsSilently ==
    /\ loop = "receiving"
    /\ queue' \in {Append(queue, "finish"), queue}
    /\ loop' = "over"
    /\ UNCHANGED <<taskVars, op, result, outer, sent, readVars>>

\* The provider's end or error, or the loss of its stream.
LoopEnds ==
    /\ loop = "receiving"
    /\ \E e \in Ends : queue' = Append(queue, e)
    /\ loop' = "over"
    /\ UNCHANGED <<taskVars, op, result, outer, sent, readVars>>

\* Mutant: the loop's end counts as a failure of the operation.
LoopJoinedFails ==
    /\ BesideWait("bridge") /\ op = "looping" /\ loop = "over"
    /\ op' = "failed"
    /\ UNCHANGED <<taskVars, loop, result, outer, sent, queue, readVars>>

LoopJoined ==
    /\ BesideWait("bridge") /\ op = "looping" /\ loop = "over"
    /\ op' = "done"
    /\ UNCHANGED <<taskVars, loop, result, outer, sent, queue, readVars>>

\* The select ends, cancelled or with the operation's result, and the thread's
\* executor waits for the blocking loop before the result is passed on.
BridgeEnds ==
    /\ result = "none"
    /\ loop \in {"off", "over"}
    /\ \/ waiter["bridge"] = "woken" /\ result' = "ok"
       \/ BesideWait("bridge") /\ op = "done" /\ result' = "ok"
       \/ BesideWait("bridge") /\ op = "failed" /\ result' = "error"
    /\ Settled("bridge")
    /\ UNCHANGED <<op, loop, outer, sent, queue, readVars>>

\* The translation thread reports an error unless it was cancelled, and drops
\* the queue's last sender.
OuterEnds ==
    /\ outer /\ result # "none"
    /\ outer' = FALSE
    /\ queue' = IF result = "error" /\ ~cancelled THEN Append(queue, "error") ELSE queue
    /\ UNCHANGED <<taskVars, op, loop, result, sent, readVars>>

-----------------------------------------------------------------------------
(* The listener: LlmStream's read(), which calls next() until the stream   *)
(* ends.  cancel() runs on its thread, so it takes no step of its own      *)
(* between the two halves of it.                                           *)

NextWaits ==
    /\ reader = "next"
    /\ Wait("listener")
    /\ UNCHANGED <<workVars, queue, readVars>>

NextAnswers ==
    /\ reader = "next"
    /\ \/ /\ waiter["listener"] = "woken"
          /\ answer' = "nothing" /\ queue' = queue
       \/ /\ BesideWait("listener") /\ queue # <<>>
          /\ answer' = Head(queue) /\ queue' = Tail(queue)
       \/ /\ BesideWait("listener") /\ queue = <<>> /\ ~outer
          /\ answer' = "nothing" /\ queue' = queue
    /\ Settled("listener")
    /\ reader' = "answered"
    /\ UNCHANGED <<workVars, stopped, heard>>

\* Mutant: the listener's flag is not looked at after the await.
ListenerHearsCancelled ==
    /\ reader = "answered" /\ ~calling
    /\ heard' = Append(heard, IF answer = "nothing" THEN "error" ELSE answer)
    /\ IF answer = "piece"
       THEN /\ reader' = "next"
            /\ waiter' = [waiter EXCEPT !["listener"] = "start"]
       ELSE reader' = "closed" /\ waiter' = waiter
    /\ answer' = "none"
    /\ UNCHANGED <<cancelled, calling, workVars, queue, stopped>>

\* The answer is looked at: a cancelled listener closes, the queue's end is an
\* error, an end closes the stream and a piece asks for the next.
ListenerHears ==
    /\ reader = "answered" /\ ~calling
    /\ IF stopped
       THEN reader' = "closed" /\ UNCHANGED <<heard, waiter>>
       ELSE /\ heard' = Append(heard, IF answer = "nothing" THEN "error" ELSE answer)
            /\ IF answer = "piece"
               THEN /\ reader' = "next"
                    /\ waiter' = [waiter EXCEPT !["listener"] = "start"]
               ELSE reader' = "closed" /\ waiter' = waiter
    /\ answer' = "none"
    /\ UNCHANGED <<cancelled, calling, workVars, queue, stopped>>

-----------------------------------------------------------------------------
Bridge == BridgeWaits \/ BridgeEnds \/ LoopJoined
Provider == Resolve \/ StreamOpens \/ AnswerComes \/ CallFails \/ LoopPiece \/ LoopEnds
Listener == NextWaits \/ NextAnswers \/ ListenerHears

Next ==
    \/ CancelStores \/ CancelWakes
    \/ Bridge \/ Provider \/ Listener
    \/ LoopChecks \/ LoopTimesOut \/ OuterEnds

\* The threads run and a receive times out after 40 ms.  The provider owes
\* nothing, and nobody has to cancel.
Fairness ==
    /\ WF_vars(CancelWakes)
    /\ WF_vars(Bridge) /\ WF_vars(OuterEnds)
    /\ WF_vars(LoopChecks) /\ WF_vars(LoopTimesOut)
    /\ WF_vars(Listener)

Spec == Init /\ [][Next]_vars /\ Fairness

-----------------------------------------------------------------------------
TypeOK ==
    /\ cancelled \in BOOLEAN /\ calling \in BOOLEAN
    /\ waiter \in [Waiters -> {"off", "start", "registered", "waiting", "woken"}]
    /\ op \in {"resolve", "called", "looping", "done", "failed"}
    /\ loop \in {"off", "checking", "receiving", "over"}
    /\ result \in {"none", "ok", "error"} /\ outer \in BOOLEAN
    /\ queue \in Seq({"piece"} \cup Ends) /\ Len(queue) <= MaxPieces + 1
    /\ sent \in 0 .. MaxPieces
    /\ reader \in {"next", "answered", "closed"}
    /\ answer \in {"none", "nothing", "piece"} \cup Ends
    /\ stopped \in BOOLEAN
    /\ heard \in Seq({"piece"} \cup Ends)

\* Whatever is still to be heard, in order.
ToCome == (IF answer \in {"piece"} \cup Ends THEN <<answer>> ELSE <<>>) \o queue

\* An end is the last thing the worker says: no second end, no piece after it.
OneEnd ==
    \A i \in 1 .. Len(ToCome) : ToCome[i] \in Ends => i = Len(ToCome)

\* The worker goes without having said an end only when it was cancelled: the
\* listener's "stream ended before completion" never stands for a lost end.
EndIsSaid ==
    ~outer /\ ~cancelled =>
        \/ ToCome # <<>> /\ Last(ToCome) \in Ends
        \/ heard # <<>> /\ Last(heard) \in Ends

\* After a cancellation or an end the listener, the bridge, the loop and the
\* translation thread all come to their end, however silent the provider is.
AllEnd ==
    (stopped \/ reader = "closed") ~>
        (reader = "closed" /\ (cancelled => ~outer /\ loop \in {"off", "over"}))

\* The stream is the one a listener is promised.
Stream == INSTANCE TranslationStream WITH listening <- ~stopped
ImplementsStream == Stream!Spec
=============================================================================
