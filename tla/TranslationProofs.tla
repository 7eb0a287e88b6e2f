-------------------------- MODULE TranslationProofs --------------------------
(***************************************************************************)
(* The results about translations, for any texts, languages and services.  *)
(***************************************************************************)
EXTENDS MC_Translation, SequenceTheorems, WellFoundedInduction, TLAPS

\* What a submission under way says, knows and waits for.
LiveInv ==
    live # None =>
          /\ live.request = requests /\ live.session = session /\ live.query = key
          /\ key.text # ""
          /\ key.target # "auto" => live.target = key.target
          /\ run # None => live.target = run.target
          /\ live.phase # "starting" => run # None
          /\ live.phase \in {"finished", "completed"} =>
                /\ live.service \in DOMAIN run.results
                /\ \A s \in DOMAIN run.results : run.results[s].status # "translating"
          /\ \A s \in DOMAIN live.previous :
                /\ live.previous[s].status # "translating"
                /\ live.previous[s].text = key.text /\ live.previous[s].target = live.target

\* A session is one of a submission, and there is one while a query is answered.
SessionsInv ==
    /\ session # None => session <= requests
    /\ session = None <=> key = None

\* What the rows, as they were recorded, and the records under way say of their
\* sessions.
Recorded == {id \in DOMAIN rows : ~rows[id].edited}

Claims ==
    {[session |-> id[1], text |-> rows[id].text, target |-> rows[id].target] : id \in Recorded}
    \cup {[session |-> r.session, text |-> r.text, target |-> r.target] : r \in saving}

ClaimsInv ==
    /\ \A c, d \in Claims : c.session = d.session => c = d
    /\ \A c \in Claims :
          /\ c.session <= requests
          /\ c.session = session =>
                run # None /\ key # None /\ c.text = key.text /\ c.target = run.target

\* A star that was set and is not shown yet is still its row's, unless the row
\* was changed elsewhere meanwhile.
Starred ==
    toggle # None /\ toggle.set =>
        Toggled \in stale \/ (Toggled \in DOMAIN rows /\ rows[Toggled].favorite = toggle.favorite)

\* What the view, the submission under way and the history say fits together.
Agreed ==
    LiveInv /\ SessionsInv /\ ClaimsInv /\ Comparable /\ NothingHangs /\ Starred /\ HistoryOwned

SessionInv == TypeOK /\ Agreed

-----------------------------------------------------------------------------
\* The worker has said no end yet and still may.
Unsaid ==
    \/ op \in {"resolve", "called"} \/ (op = "failed" /\ outer)
    \/ op = "looping" /\ loop # "over"

\* An end was said and is still to be heard, or was heard.
Said ==
    \/ queue # <<>> /\ queue[Len(queue)] \in T!Ends
    \/ answer \in T!Ends
    \/ heard # <<>> /\ heard[Len(heard)] \in T!Ends

\* How the threads, the waiters and the listener go together.
WorkInv ==
    /\ result # "none" <=> waiter["bridge"] = "off"
    /\ ~outer => result # "none"
    /\ op \in {"resolve", "called"} => sent = 0
    /\ op \in {"resolve", "called", "failed"} => loop = "off"
    /\ op = "looping" => loop # "off"
    /\ op = "done" => loop \in {"off", "over"}
    /\ result # "none" => loop \in {"off", "over"}
    /\ result = "error" => op = "failed"
    /\ result = "ok" => op = "done" \/ cancelled
    /\ \A w \in T!Waiters : waiter[w] = "woken" => cancelled
    /\ stopped = cancelled
    /\ calling => cancelled
    /\ reader # "answered" => answer = "none"
    /\ reader = "answered" => answer # "none"

\* The pieces and ends that were said and not dropped.
Held == IF answer \in {"none", "nothing"} THEN 0 ELSE 1
Count == Len(heard) + Held + Len(queue)

\* Nobody has said an end.
Quiet ==
    /\ answer \notin T!Ends /\ \A i \in 1 .. Len(queue) : queue[i] \notin T!Ends
    /\ heard = <<>> \/ heard[Len(heard)] \notin T!Ends
    /\ Count <= sent

\* An end was said, unless a cancellation kept the worker from it.
Spoken == Count <= sent + 1 /\ (cancelled \/ Said)

\* An end is the last thing that is said and the last that is heard.
Orderly ==
    /\ \A i \in 1 .. Len(queue) : queue[i] \in T!Ends => i = Len(queue)
    /\ answer \in T!Ends => queue = <<>>
    /\ answer = "nothing" => cancelled
    /\ heard # <<>> /\ heard[Len(heard)] \in T!Ends => reader = "closed"

SaidInv ==
    /\ Orderly
    /\ Unsaid => Quiet
    /\ ~Unsaid => Spoken

\* The types, without the bound on the queue.
TaskTypes ==
    /\ cancelled \in BOOLEAN /\ calling \in BOOLEAN
    /\ waiter \in [T!Waiters -> {"off", "start", "registered", "waiting", "woken"}]
    /\ op \in {"resolve", "called", "looping", "done", "failed"}
    /\ loop \in {"off", "checking", "receiving", "over"}
    /\ result \in {"none", "ok", "error"} /\ outer \in BOOLEAN
    /\ queue \in Seq({"piece"} \cup T!Ends)
    /\ sent \in 0 .. MaxPieces
    /\ reader \in {"next", "answered", "closed"}
    /\ answer \in {"none", "nothing", "piece"} \cup T!Ends
    /\ stopped \in BOOLEAN
    /\ heard \in Seq({"piece"} \cup T!Ends)

TaskInv == TaskTypes /\ WorkInv /\ SaidInv
-----------------------------------------------------------------------------
(* The task                                                                *)

\* A sequence with one more.
LEMMA Appended ==
    ASSUME NEW S, NEW q \in Seq(S), NEW x \in S
    PROVE  LET r == Append(q, x)
           IN  /\ r \in Seq(S) /\ r # <<>> /\ Len(q) \in Nat /\ Len(r) = Len(q) + 1
               /\ \A i \in 1 .. Len(r) : (i # Len(r) /\ i \in 1 .. Len(q) /\ r[i] = q[i])
                                        \/ (i = Len(r) /\ r[i] = x)
               /\ r[Len(r)] = x
BY AppendProperties

\* The types of the task, but for the bound on the queue.
LEMMA TaskTyped ==
    ASSUME TaskInv, [T!Next]_T!vars
    PROVE  TaskTypes'
<1>. USE TaskAssumption DEF TaskInv, TaskTypes, WorkInv, T!Ends, T!Waiters
<1>1. CASE T!CancelStores  BY <1>1 DEF T!CancelStores, T!taskVars, T!workVars, T!readVars
<1>2. CASE T!CancelWakes  BY <1>2 DEF T!CancelWakes, T!taskVars, T!workVars, T!readVars
<1>3. CASE T!BridgeWaits  BY <1>3 DEF T!BridgeWaits, T!Wait, T!taskVars, T!workVars, T!readVars
<1>4. CASE T!Resolve  BY <1>4 DEF T!Resolve, T!BesideWait, T!taskVars, T!workVars, T!readVars
<1>5. CASE T!StreamOpens  BY <1>5 DEF T!StreamOpens, T!BesideWait, T!taskVars, T!workVars, T!readVars
<1>6. CASE T!AnswerComes  BY <1>6 DEF T!AnswerComes, T!BesideWait, T!taskVars, T!workVars, T!readVars
<1>7. CASE T!CallFails  BY <1>7 DEF T!CallFails, T!BesideWait, T!taskVars, T!workVars, T!readVars
<1>8. CASE T!LoopChecks  BY <1>8 DEF T!LoopChecks, T!taskVars, T!workVars, T!readVars
<1>9. CASE T!LoopTimesOut  BY <1>9 DEF T!LoopTimesOut, T!taskVars, T!workVars, T!readVars
<1>10. CASE T!LoopPiece  BY <1>10 DEF T!LoopPiece, T!taskVars, T!workVars, T!readVars
<1>11. CASE T!LoopEnds  BY <1>11 DEF T!LoopEnds, T!taskVars, T!workVars, T!readVars
<1>12. CASE T!LoopJoined  BY <1>12 DEF T!LoopJoined, T!BesideWait, T!taskVars, T!workVars, T!readVars
<1>13. CASE T!BridgeEnds  BY <1>13 DEF T!BridgeEnds, T!BesideWait, T!Settled, T!taskVars, T!workVars, T!readVars
<1>14. CASE T!OuterEnds
  <2>1. Append(queue, "error") \in Seq({"piece"} \cup T!Ends)  OBVIOUS
  <2>2. queue' \in Seq({"piece"} \cup T!Ends)  BY <1>14, <2>1 DEF T!OuterEnds
  <2>. QED  BY <1>14, <2>2 DEF T!OuterEnds, T!taskVars, T!workVars, T!readVars
<1>15. CASE T!NextWaits  BY <1>15 DEF T!NextWaits, T!Wait, T!taskVars, T!workVars, T!readVars
<1>16. CASE T!NextAnswers
  <2>1. UNCHANGED <<op, loop, result, outer, sent, stopped, heard, cancelled, calling>>
        /\ reader' = "answered"
    BY <1>16 DEF T!NextAnswers, T!Settled, T!workVars
  <2>2. waiter' \in [T!Waiters -> {"off", "start", "registered", "waiting", "woken"}]
    BY <1>16 DEF T!NextAnswers, T!Settled
  <2>3. queue # <<>> => Head(queue) \in {"piece"} \cup T!Ends /\ Tail(queue) \in Seq({"piece"} \cup T!Ends)
    OBVIOUS
  <2>4. /\ answer' \in {"none", "nothing", "piece"} \cup T!Ends
        /\ queue' \in Seq({"piece"} \cup T!Ends)
    BY <1>16, <2>3 DEF T!NextAnswers
  <2>. QED  BY <2>1, <2>2, <2>4
<1>17. CASE T!ListenerHears  BY SMTT(20), <1>17 DEF T!ListenerHears, T!taskVars, T!workVars, T!readVars
<1>18. CASE UNCHANGED T!vars  BY <1>18 DEF T!vars, T!taskVars, T!workVars, T!readVars
<1>. QED  BY <1>1, <1>2, <1>3, <1>4, <1>5, <1>6, <1>7, <1>8, <1>9, <1>10, <1>11, <1>12, <1>13, <1>14, <1>15, <1>16, <1>17, <1>18
     DEF T!Next, T!Bridge, T!Provider, T!Listener

\* The threads, the waiters and the listener stay in step.
LEMMA WorkKept ==
    ASSUME TaskInv, [T!Next]_T!vars
    PROVE  WorkInv'
<1>. USE TaskAssumption DEF TaskInv, WorkInv, TaskTypes, T!Ends, T!Waiters, Unsaid
<1>1. CASE T!CancelStores  BY <1>1 DEF T!CancelStores, T!taskVars, T!workVars, T!readVars
<1>2. CASE T!CancelWakes
  <2>1. \A w \in T!Waiters : waiter'[w] =
            IF waiter[w] \in {"registered", "waiting"} THEN "woken" ELSE waiter[w]
    BY <1>2 DEF T!CancelWakes
  <2>2. UNCHANGED <<op, loop, result, sent, reader, answer>>
    BY <1>2 DEF T!CancelWakes, T!workVars, T!readVars
  <2>3. cancelled' = cancelled /\ outer' = outer /\ stopped' = stopped
    BY <1>2 DEF T!CancelWakes, T!workVars, T!readVars
  <2>4. cancelled  BY <1>2 DEF T!CancelWakes
  <2>. QED  BY <2>1, <2>2, <2>3, <2>4
<1>3. CASE T!BridgeWaits  BY <1>3 DEF T!BridgeWaits, T!Wait, T!taskVars, T!workVars, T!readVars
<1>4. CASE T!Resolve  BY <1>4 DEF T!Resolve, T!BesideWait, T!taskVars, T!workVars, T!readVars
<1>5. CASE T!StreamOpens  BY <1>5 DEF T!StreamOpens, T!BesideWait, T!taskVars, T!workVars, T!readVars
<1>6. CASE T!AnswerComes  BY <1>6 DEF T!AnswerComes, T!BesideWait, T!taskVars, T!workVars, T!readVars
<1>7. CASE T!CallFails  BY <1>7 DEF T!CallFails, T!BesideWait, T!taskVars, T!workVars, T!readVars
<1>8. CASE T!LoopChecks  BY <1>8 DEF T!LoopChecks, T!taskVars, T!workVars, T!readVars
<1>9. CASE T!LoopTimesOut  BY <1>9 DEF T!LoopTimesOut, T!taskVars, T!workVars, T!readVars
<1>10. CASE T!LoopPiece  BY <1>10 DEF T!LoopPiece, T!taskVars, T!workVars, T!readVars
<1>11. CASE T!LoopEnds  BY <1>11 DEF T!LoopEnds, T!taskVars, T!workVars, T!readVars
<1>12. CASE T!LoopJoined  BY <1>12 DEF T!LoopJoined, T!BesideWait, T!taskVars, T!workVars, T!readVars
<1>13. CASE T!BridgeEnds  BY <1>13 DEF T!BridgeEnds, T!BesideWait, T!Settled, T!taskVars, T!workVars, T!readVars
<1>14. CASE T!OuterEnds  BY <1>14 DEF T!OuterEnds, T!taskVars, T!workVars, T!readVars
<1>15. CASE T!NextWaits  BY <1>15 DEF T!NextWaits, T!Wait, T!taskVars, T!workVars, T!readVars
<1>16. CASE T!NextAnswers  BY <1>16 DEF T!NextAnswers, T!BesideWait, T!Settled, T!taskVars, T!workVars, T!readVars
<1>17. CASE T!ListenerHears  BY <1>17 DEF T!ListenerHears, T!taskVars, T!workVars, T!readVars
<1>18. CASE UNCHANGED T!vars  BY <1>18 DEF T!vars, T!taskVars, T!workVars, T!readVars
<1>. QED  BY <1>1, <1>2, <1>3, <1>4, <1>5, <1>6, <1>7, <1>8, <1>9, <1>10, <1>11, <1>12, <1>13, <1>14, <1>15, <1>16, <1>17, <1>18
     DEF T!Next, T!Bridge, T!Provider, T!Listener

-----------------------------------------------------------------------------
(* The task: what is said                                                  *)

\* A step that says and hears nothing and leaves the worker as quiet as it was.
LEMMA SameSaid ==
    ASSUME SaidInv, TaskTypes, UNCHANGED <<queue, answer, heard, sent, reader>>,
           cancelled => cancelled',
           Unsaid' = Unsaid \/ (Unsaid /\ (Unsaid' \/ cancelled'))
    PROVE  SaidInv'
<1>1. Held' = Held /\ Count' = Count /\ Said' = Said  BY DEF Held, Count, Said
<1>2. Quiet' = Quiet  BY <1>1 DEF Quiet
<1>3. Orderly'  BY DEF SaidInv, Orderly
<1>4. Count <= sent => Count <= sent + 1
  <2>1. Len(heard) \in Nat /\ Len(queue) \in Nat /\ Held \in Nat /\ sent \in Nat
    BY TaskAssumption DEF TaskTypes, Held
  <2>. QED  BY <2>1 DEF Count
<1>5. Spoken => Spoken'  BY <1>1 DEF Spoken
<1>6. Quiet /\ cancelled' => Spoken'  BY <1>1, <1>4 DEF Quiet, Spoken
<1>. QED  BY <1>2, <1>3, <1>5, <1>6 DEF SaidInv

\* Nothing was said but pieces, and one more is.
LEMMA PieceSaid ==
    ASSUME SaidInv, TaskTypes, queue' = Append(queue, "piece"), sent' = sent + 1,
           UNCHANGED <<answer, heard, reader>>, cancelled' = cancelled, Unsaid, Unsaid'
    PROVE  SaidInv'
<1>1. /\ Len(queue) \in Nat /\ Len(queue') = Len(queue) + 1
      /\ \A i \in 1 .. Len(queue') :
             \/ i # Len(queue') /\ i \in 1 .. Len(queue) /\ queue'[i] = queue[i]
             \/ i = Len(queue') /\ queue'[i] = "piece"
  BY Appended DEF TaskTypes
<1>2. Quiet /\ Orderly  BY DEF SaidInv
<1>3. \A i \in 1 .. Len(queue') : queue'[i] \notin T!Ends  BY <1>1, <1>2 DEF Quiet, T!Ends
<1>4. Held \in Nat /\ Held' = Held  BY DEF Held
<1>5. Len(heard) \in Nat /\ sent \in Nat  BY TaskAssumption DEF TaskTypes
<1>6. Count \in Nat /\ Count' = Count + 1  BY <1>1, <1>4, <1>5 DEF Count
<1>9. Count' <= sent'  BY <1>2, <1>5, <1>6 DEF Quiet
<1>7. Quiet'  BY <1>2, <1>3, <1>9 DEF Quiet
<1>8. Orderly'  BY <1>2, <1>3 DEF Orderly, Quiet
<1>. QED  BY <1>7, <1>8 DEF SaidInv

\* Nothing was said but pieces, and an end is.
LEMMA EndSaid ==
    ASSUME SaidInv, TaskTypes, NEW e \in T!Ends, queue' = Append(queue, e),
           UNCHANGED <<answer, heard, reader, sent>>, cancelled' = cancelled, Unsaid, ~Unsaid'
    PROVE  SaidInv'
<1>1. /\ Len(queue) \in Nat /\ Len(queue') = Len(queue) + 1 /\ queue' # <<>>
      /\ \A i \in 1 .. Len(queue') :
             \/ i # Len(queue') /\ i \in 1 .. Len(queue) /\ queue'[i] = queue[i]
             \/ i = Len(queue') /\ queue'[i] = e
      /\ queue'[Len(queue')] = e
  BY Appended DEF TaskTypes
<1>2. Quiet /\ Orderly  BY DEF SaidInv
<1>3. Held \in Nat /\ Held' = Held  BY DEF Held
<1>4. Len(heard) \in Nat /\ sent \in Nat  BY TaskAssumption DEF TaskTypes
<1>8. Count \in Nat /\ Count' = Count + 1  BY <1>1, <1>3, <1>4 DEF Count
<1>5. Count' <= sent' + 1  BY <1>2, <1>4, <1>8 DEF Quiet
<1>6. Said'  BY <1>1 DEF Said
<1>7. Orderly'  BY <1>1, <1>2 DEF Orderly, Quiet
<1>. QED  BY <1>5, <1>6, <1>7 DEF SaidInv, Spoken

\* Nothing was said at all, and a whole answer is.
LEMMA AllSaid ==
    ASSUME SaidInv, TaskTypes, NEW n \in 0 .. MaxPieces, sent = 0, sent' = n,
           queue' = queue \o [i \in 1 .. n |-> "piece"] \o <<"finish">>,
           UNCHANGED <<answer, heard, reader>>, cancelled' = cancelled, Unsaid, ~Unsaid'
    PROVE  SaidInv'
<1>1. Quiet /\ Orderly  BY DEF SaidInv
<1>2. Held \in Nat /\ Held' = Held /\ Len(heard) \in Nat /\ Len(queue) \in Nat /\ n \in Nat
  BY TaskAssumption DEF TaskTypes, Held
<1>3. Held = 0 /\ Len(heard) = 0 /\ Len(queue) = 0  BY <1>1, <1>2 DEF Quiet, Count
<1>4. queue = <<>> /\ answer \notin T!Ends  BY <1>1, <1>3 DEF TaskTypes, Quiet
<1>. DEFINE pieces == [i \in 1 .. n |-> "piece"]
<1>5. pieces \in Seq({"piece"} \cup T!Ends) /\ Len(pieces) = n  BY <1>2
<1>. HIDE DEF pieces
<1>6. queue' = Append(pieces, "finish")
  <2>1. <<>> \o pieces = pieces  BY <1>5
  <2>2. pieces \o <<"finish">> = Append(pieces, "finish")  BY <1>5, AppendIsConcat DEF T!Ends
  <2>. QED  BY <1>4, <2>1, <2>2 DEF pieces
<1>7. /\ Len(queue') = n + 1 /\ queue' # <<>> /\ queue'[Len(queue')] = "finish"
      /\ \A i \in 1 .. Len(queue') : i # Len(queue') => i \in 1 .. n /\ queue'[i] = pieces[i]
  <2>1. "finish" \in {"piece"} \cup T!Ends  BY DEF T!Ends
  <2>. DEFINE all == Append(pieces, "finish")
  <2>2. /\ Len(all) = Len(pieces) + 1 /\ all[Len(pieces) + 1] = "finish"
        /\ \A i \in 1 .. Len(pieces) : all[i] = pieces[i]
    BY <1>5, <2>1, AppendProperties
  <2>3. all # <<>>  BY ZenonT(40), <1>5, <2>1, AppendProperties
  <2>4. queue' = all  BY <1>6
  <2>. HIDE DEF all
  <2>5. Len(all) = n + 1 /\ all[n + 1] = "finish"  BY <1>5, <2>2
  <2>6. \A i \in 1 .. n : all[i] = pieces[i]  BY <1>5, <2>2
  <2>. QED  BY <1>2, <2>3, <2>4, <2>5, <2>6
<1>8. \A i \in 1 .. n : pieces[i] \notin T!Ends  BY DEF pieces, T!Ends
<1>9. Count' = n + 1  BY <1>2, <1>3, <1>7 DEF Count
<1>10. Orderly'  BY <1>1, <1>4, <1>7, <1>8 DEF Orderly
<1>11. Said'  BY <1>7 DEF Said, T!Ends
<1>. QED  BY <1>2, <1>9, <1>10, <1>11 DEF SaidInv, Spoken

\* The listener is handed the head of the queue.
LEMMA AnswerTaken ==
    ASSUME SaidInv, TaskTypes, queue # <<>>, answer = "none", answer' = Head(queue),
           queue' = Tail(queue), reader = "next", UNCHANGED <<heard, sent>>,
           cancelled' = cancelled, Unsaid' = Unsaid
    PROVE  SaidInv'
<1>1. /\ answer' = queue[1] /\ Len(queue) \in Nat /\ Len(queue') = Len(queue) - 1
      /\ 1 \in 1 .. Len(queue) /\ queue' \in Seq({"piece"} \cup T!Ends)
      /\ answer' \in {"piece"} \cup T!Ends
      /\ \A i \in 1 .. Len(queue') : i + 1 \in 1 .. Len(queue) /\ queue'[i] = queue[i + 1]
  BY HeadTailProperties DEF TaskTypes
<1>2. Held = 0 /\ Held' = 1  BY <1>1 DEF Held, T!Ends
<1>3. Count' = Count  BY <1>1, <1>2 DEF Count, TaskTypes
<1>4. queue' = <<>> <=> Len(queue) = 1  BY <1>1
<1>5. Orderly'
  <2>1. ASSUME NEW i \in 1 .. Len(queue'), queue'[i] \in T!Ends  PROVE i = Len(queue')
    <3>1. i + 1 \in 1 .. Len(queue) /\ queue[i + 1] \in T!Ends  BY <1>1, <2>1
    <3>2. i + 1 = Len(queue)  BY <3>1 DEF SaidInv, Orderly
    <3>3. Len(queue') = Len(queue) - 1 /\ Len(queue) \in Nat /\ i \in Int  BY <1>1
    <3>. QED  BY <3>2, <3>3
  <2>2. answer' \in T!Ends => queue' = <<>>  BY <1>1, <1>4 DEF SaidInv, Orderly
  <2>3. answer' # "nothing"  BY <1>1 DEF T!Ends
  <2>4. ~(heard # <<>> /\ heard[Len(heard)] \in T!Ends)  BY DEF SaidInv, Orderly
  <2>. QED  BY <2>1, <2>2, <2>3, <2>4 DEF Orderly
<1>6. Quiet => Quiet'  BY <1>1, <1>3 DEF Quiet
<1>7. Said => Said'
  <2>1. CASE Len(queue) = 1  BY <1>1, <2>1 DEF Said, SaidInv, Orderly, T!Ends
  <2>2. CASE Len(queue) # 1
    <3>1. queue' # <<>> /\ queue'[Len(queue')] = queue[Len(queue)]  BY <1>1, <1>4, <2>2
    <3>. QED  BY <3>1 DEF Said, T!Ends
  <2>. QED  BY <2>1, <2>2
<1>8. Spoken => Spoken'  BY <1>3, <1>7 DEF Spoken
<1>. QED  BY <1>5, <1>6, <1>8 DEF SaidInv

\* The listener was cancelled and drops its answer.
LEMMA AnswerDropped ==
    ASSUME SaidInv, TaskTypes, cancelled, answer' = "none", reader' = "closed",
           UNCHANGED <<queue, heard, sent>>, cancelled' = cancelled, Unsaid' = Unsaid
    PROVE  SaidInv'
<1>1. /\ Held \in Nat /\ Held' = 0 /\ Len(heard) \in Nat /\ Len(queue) \in Nat
      /\ Count' = Len(heard) + Len(queue) /\ sent \in Nat
  BY TaskAssumption DEF TaskTypes, Held, Count
<1>2. Count \in Nat /\ Count' <= Count  BY <1>1 DEF Count
<1>3. Orderly'  BY DEF SaidInv, Orderly, T!Ends
<1>4. Quiet => Quiet'  BY <1>1, <1>2 DEF Quiet, T!Ends
<1>5. Spoken => Spoken'  BY <1>1, <1>2 DEF Spoken
<1>. QED  BY <1>3, <1>4, <1>5 DEF SaidInv

\* The listener hears its answer.
LEMMA AnswerHeardLast ==
    ASSUME SaidInv, TaskTypes, answer \notin {"none", "nothing"}, answer' = "none",
           heard' = Append(heard, answer), answer \in T!Ends => reader' = "closed",
           UNCHANGED <<queue, sent>>, cancelled' = cancelled, Unsaid' = Unsaid,
           reader = "answered"
    PROVE  SaidInv'
<1>1. answer \in {"piece"} \cup T!Ends  BY DEF TaskTypes
<1>2. /\ Len(heard) \in Nat /\ Len(heard') = Len(heard) + 1 /\ heard' # <<>>
      /\ heard'[Len(heard')] = answer
  BY <1>1, Appended DEF TaskTypes
<1>3. Held = 1 /\ Held' = 0 /\ Len(queue) \in Nat  BY DEF Held, TaskTypes
<1>4. Count' = Count  BY <1>2, <1>3 DEF Count
<1>5. Orderly'  BY <1>2 DEF SaidInv, Orderly, T!Ends
<1>6. Quiet => Quiet'  BY <1>2, <1>4 DEF Quiet, T!Ends
<1>7. Said /\ ~(heard # <<>> /\ heard[Len(heard)] \in T!Ends) => Said'  BY <1>2 DEF Said
<1>8. ~(heard # <<>> /\ heard[Len(heard)] \in T!Ends)  BY DEF SaidInv, Orderly
<1>9. Spoken => Spoken'  BY <1>4, <1>7, <1>8 DEF Spoken
<1>. QED  BY <1>5, <1>6, <1>9 DEF SaidInv

\* What is said is one end, last, and it is said.
LEMMA SaidKept ==
    ASSUME TaskInv, [T!Next]_T!vars
    PROVE  SaidInv'
<1>. USE TaskAssumption DEF TaskInv, WorkInv, TaskTypes, T!Ends, T!Waiters
<1>1. CASE T!CancelStores
  <2>1. UNCHANGED <<queue, answer, heard, sent, reader>>
    BY <1>1 DEF T!CancelStores, T!taskVars, T!workVars, T!readVars
  <2>2. Unsaid' = Unsaid /\ (cancelled => cancelled')
    BY <1>1 DEF Unsaid, T!CancelStores, T!taskVars, T!workVars, T!readVars
  <2>. QED  BY <2>1, <2>2, SameSaid
<1>2. CASE T!CancelWakes
  <2>1. UNCHANGED <<queue, answer, heard, sent, reader>>
    BY <1>2 DEF T!CancelWakes, T!taskVars, T!workVars, T!readVars
  <2>2. Unsaid' = Unsaid /\ (cancelled => cancelled')
    BY <1>2 DEF Unsaid, T!CancelWakes, T!taskVars, T!workVars, T!readVars
  <2>. QED  BY <2>1, <2>2, SameSaid
<1>3. CASE T!BridgeWaits
  <2>1. UNCHANGED <<queue, answer, heard, sent, reader>>
    BY <1>3 DEF T!BridgeWaits, T!Wait, T!taskVars, T!workVars, T!readVars
  <2>2. Unsaid' = Unsaid /\ (cancelled => cancelled')
    BY <1>3 DEF Unsaid, T!BridgeWaits, T!Wait, T!taskVars, T!workVars, T!readVars
  <2>. QED  BY <2>1, <2>2, SameSaid
<1>4. CASE T!Resolve
  <2>1. UNCHANGED <<queue, answer, heard, sent, reader>>
    BY <1>4 DEF T!Resolve, T!BesideWait, T!taskVars, T!workVars, T!readVars
  <2>2. Unsaid' = Unsaid /\ (cancelled => cancelled')
    BY <1>4 DEF Unsaid, T!Resolve, T!BesideWait, T!taskVars, T!workVars, T!readVars
  <2>. QED  BY <2>1, <2>2, SameSaid
<1>5. CASE T!StreamOpens
  <2>1. UNCHANGED <<queue, answer, heard, sent, reader>>
    BY <1>5 DEF T!StreamOpens, T!BesideWait, T!taskVars, T!workVars, T!readVars
  <2>2. Unsaid' = Unsaid /\ (cancelled => cancelled')
    BY <1>5 DEF Unsaid, T!StreamOpens, T!BesideWait, T!taskVars, T!workVars, T!readVars
  <2>. QED  BY <2>1, <2>2, SameSaid
<1>6. CASE T!AnswerComes
  <2>1. PICK n \in 0 .. MaxPieces :
            /\ queue' = queue \o [i \in 1 .. n |-> "piece"] \o <<"finish">>
            /\ sent' = n
    BY <1>6 DEF T!AnswerComes
  <2>2. /\ Unsaid /\ ~Unsaid' /\ sent = 0 /\ UNCHANGED <<answer, heard, reader>>
        /\ cancelled' = cancelled
    BY <1>6 DEF T!AnswerComes, Unsaid, T!taskVars, T!readVars
  <2>. QED  BY <2>1, <2>2, AllSaid
<1>7. CASE T!CallFails
  <2>1. UNCHANGED <<queue, answer, heard, sent, reader>>
    BY <1>7 DEF T!CallFails, T!BesideWait, T!taskVars, T!workVars, T!readVars
  <2>2. Unsaid' = Unsaid /\ (cancelled => cancelled')
    BY <1>7 DEF Unsaid, T!CallFails, T!BesideWait, T!taskVars, T!workVars, T!readVars
  <2>. QED  BY <2>1, <2>2, SameSaid
<1>8. CASE T!LoopChecks
  <2>1. UNCHANGED <<queue, answer, heard, sent, reader>> /\ cancelled' = cancelled
    BY <1>8 DEF T!LoopChecks, T!taskVars, T!workVars, T!readVars
  <2>2. Unsaid /\ (Unsaid' \/ cancelled)
    BY <1>8 DEF Unsaid, T!LoopChecks, T!taskVars, T!workVars, T!readVars
  <2>. QED  BY <2>1, <2>2, SameSaid
<1>9. CASE T!LoopTimesOut
  <2>1. UNCHANGED <<queue, answer, heard, sent, reader>>
    BY <1>9 DEF T!LoopTimesOut, T!taskVars, T!workVars, T!readVars
  <2>2. Unsaid' = Unsaid /\ (cancelled => cancelled')
    BY <1>9 DEF Unsaid, T!LoopTimesOut, T!taskVars, T!workVars, T!readVars
  <2>. QED  BY <2>1, <2>2, SameSaid
<1>10. CASE T!LoopPiece
  <2>1. /\ queue' = Append(queue, "piece") /\ sent' = sent + 1
        /\ UNCHANGED <<answer, heard, reader>> /\ cancelled' = cancelled
    BY <1>10 DEF T!LoopPiece, T!taskVars, T!workVars, T!readVars
  <2>2. Unsaid /\ Unsaid'  BY <1>10 DEF T!LoopPiece, Unsaid
  <2>. QED  BY <2>1, <2>2, PieceSaid
<1>11. CASE T!LoopEnds
  <2>1. PICK e \in T!Ends : queue' = Append(queue, e)  BY <1>11 DEF T!LoopEnds
  <2>2. UNCHANGED <<answer, heard, reader, sent>> /\ cancelled' = cancelled
    BY <1>11 DEF T!LoopEnds, T!taskVars, T!workVars, T!readVars
  <2>3. Unsaid /\ ~Unsaid'  BY <1>11 DEF T!LoopEnds, Unsaid
  <2>. QED  BY <2>1, <2>2, <2>3, EndSaid
<1>12. CASE T!LoopJoined
  <2>1. UNCHANGED <<queue, answer, heard, sent, reader>>
    BY <1>12 DEF T!LoopJoined, T!BesideWait, T!taskVars, T!workVars, T!readVars
  <2>2. Unsaid' = Unsaid /\ (cancelled => cancelled')
    BY <1>12 DEF Unsaid, T!LoopJoined, T!BesideWait, T!taskVars, T!workVars, T!readVars
  <2>. QED  BY <2>1, <2>2, SameSaid
<1>13. CASE T!BridgeEnds
  <2>1. UNCHANGED <<queue, answer, heard, sent, reader>>
    BY <1>13 DEF T!BridgeEnds, T!BesideWait, T!Settled, T!taskVars, T!workVars, T!readVars
  <2>2. Unsaid' = Unsaid /\ (cancelled => cancelled')
    BY <1>13 DEF Unsaid, T!BridgeEnds, T!BesideWait, T!Settled, T!taskVars, T!workVars, T!readVars
  <2>. QED  BY <2>1, <2>2, SameSaid
<1>14. CASE T!OuterEnds
  <2>1. UNCHANGED <<answer, heard, reader, sent>> /\ cancelled' = cancelled
    BY <1>14 DEF T!OuterEnds, T!taskVars, T!workVars, T!readVars
  <2>2. CASE result = "error" /\ ~cancelled
    <3>1. queue' = Append(queue, "error")  BY <1>14, <2>2 DEF T!OuterEnds
    <3>2. Unsaid /\ ~Unsaid'  BY <1>14, <2>2 DEF T!OuterEnds, T!workVars, Unsaid
    <3>. QED  BY <2>1, <3>1, <3>2, EndSaid
  <2>3. CASE ~(result = "error" /\ ~cancelled)
    <3>1. queue' = queue  BY <1>14, <2>3 DEF T!OuterEnds
    <3>2. Unsaid' = Unsaid \/ (Unsaid /\ cancelled)
      BY <1>14, <2>3 DEF T!OuterEnds, T!workVars, Unsaid
    <3>. QED  BY <2>1, <3>1, <3>2, SameSaid
  <2>. QED  BY <2>2, <2>3
<1>15. CASE T!NextWaits
  <2>1. UNCHANGED <<queue, answer, heard, sent, reader>>
    BY <1>15 DEF T!NextWaits, T!Wait, T!taskVars, T!workVars, T!readVars
  <2>2. Unsaid' = Unsaid /\ (cancelled => cancelled')
    BY <1>15 DEF Unsaid, T!NextWaits, T!Wait, T!taskVars, T!workVars, T!readVars
  <2>. QED  BY <2>1, <2>2, SameSaid
<1>16. CASE T!NextAnswers
  <2>1. /\ UNCHANGED <<op, loop, heard, sent>> /\ reader = "next" /\ reader' = "answered"
        /\ answer = "none"
    BY <1>16 DEF T!NextAnswers, T!workVars
  <2>2. outer' = outer /\ cancelled' = cancelled
    BY <1>16 DEF T!NextAnswers, T!Settled, T!workVars
  <2>3. Unsaid' = Unsaid  BY <2>1, <2>2 DEF Unsaid
  <2>4. CASE queue # <<>> /\ answer' = Head(queue) /\ queue' = Tail(queue)
    BY <2>1, <2>2, <2>3, <2>4, AnswerTaken
  <2>5. CASE answer' = "nothing" /\ queue' = queue
    <3>1. cancelled
      <4>1. waiter["listener"] = "woken" \/ (queue = <<>> /\ ~outer)
        BY <1>16, <2>5 DEF T!NextAnswers
      <4>2. CASE queue = <<>> /\ ~outer
        <5>1. ~Said
          BY <2>1, <4>2 DEF SaidInv, Orderly, Said
        <5>2. cancelled \/ ~Unsaid
          BY <4>2 DEF Unsaid
        <5>. QED  BY <5>1, <5>2 DEF SaidInv, Spoken
      <4>. QED  BY <4>1, <4>2
    <3>2. Held = 0 /\ Held' = 0  BY <2>1, <2>5 DEF Held
    <3>3. Count' = Count  BY <2>1, <2>5, <3>2 DEF Count
    <3>4. Orderly'  BY <2>1, <2>2, <2>5, <3>1 DEF SaidInv, Orderly
    <3>5. Unsaid => Quiet'  BY <2>1, <2>5, <3>3 DEF SaidInv, Quiet
    <3>6. ~Unsaid => Spoken'  BY <2>1, <2>2, <3>1, <3>3 DEF SaidInv, Spoken
    <3>. QED  BY <2>3, <3>4, <3>5, <3>6 DEF SaidInv
  <2>. QED  BY <1>16, <2>4, <2>5 DEF T!NextAnswers
<1>17. CASE T!ListenerHears
  <2>1. UNCHANGED <<op, loop, queue, sent>> /\ reader = "answered" /\ answer' = "none"
    BY <1>17 DEF T!ListenerHears, T!workVars
  <2>2. outer' = outer /\ cancelled' = cancelled
    BY <1>17 DEF T!ListenerHears, T!workVars
  <2>3. Unsaid' = Unsaid  BY <2>1, <2>2 DEF Unsaid
  <2>4. CASE stopped
    <3>1. heard' = heard /\ reader' = "closed"  BY <1>17, <2>4 DEF T!ListenerHears
    <3>. QED  BY <2>1, <2>2, <2>3, <2>4, <3>1, AnswerDropped
  <2>5. CASE ~stopped
    <3>1. heard' = Append(heard, IF answer = "nothing" THEN "error" ELSE answer)
      BY <1>17, <2>5 DEF T!ListenerHears
    <3>2. ~cancelled  BY <2>5
    <3>3. answer # "nothing" /\ answer # "none"
      BY <2>1, <3>2 DEF SaidInv, Orderly
    <3>4. heard' = Append(heard, answer)  BY <3>1, <3>3
    <3>5. answer \in T!Ends => reader' = "closed"
      BY <1>17, <2>5 DEF T!ListenerHears
    <3>. QED  BY <2>1, <2>2, <2>3, <3>3, <3>4, <3>5, AnswerHeardLast
  <2>. QED  BY <2>4, <2>5
<1>18. CASE UNCHANGED T!vars
  <2>1. UNCHANGED <<queue, answer, heard, sent, reader>> /\ cancelled' = cancelled
    BY <1>18 DEF T!vars, T!taskVars, T!workVars, T!readVars
  <2>2. Unsaid' = Unsaid
    BY <1>18 DEF Unsaid, T!vars, T!taskVars, T!workVars, T!readVars
  <2>. QED  BY <2>1, <2>2, SameSaid
<1>. QED  BY <1>1, <1>2, <1>3, <1>4, <1>5, <1>6, <1>7, <1>8, <1>9, <1>10, <1>11, <1>12, <1>13, <1>14, <1>15, <1>16, <1>17, <1>18
     DEF T!Next, T!Bridge, T!Provider, T!Listener


LEMMA TaskBegins ==
    ASSUME T!Init
    PROVE  TaskInv
<1>. USE TaskAssumption DEF T!Init, T!Ends, T!Waiters
<1>1. TaskTypes
  <2>1. waiter \in [T!Waiters -> {"off", "start", "registered", "waiting", "woken"}]
    OBVIOUS
  <2>2. queue \in Seq({"piece"} \cup T!Ends) /\ heard \in Seq({"piece"} \cup T!Ends)
    OBVIOUS
  <2>3. sent \in 0 .. MaxPieces  OBVIOUS
  <2>4. cancelled \in BOOLEAN /\ calling \in BOOLEAN  OBVIOUS
  <2>5. outer \in BOOLEAN /\ stopped \in BOOLEAN  OBVIOUS
  <2>. QED  BY <2>1, <2>2, <2>3, <2>4, <2>5 DEF TaskTypes
<1>2. WorkInv  BY DEF WorkInv
<1>3. Unsaid  BY DEF Unsaid
<1>4. Count = 0 /\ sent = 0  BY DEF Count, Held
<1>5. Quiet  BY <1>4 DEF Quiet
<1>6. Orderly  BY DEF Orderly
<1>. QED  BY <1>1, <1>2, <1>3, <1>5, <1>6 DEF TaskInv, SaidInv

LEMMA TaskStays == TaskInv /\ [T!Next]_T!vars => TaskInv'
BY TaskTyped, WorkKept, SaidKept DEF TaskInv

-----------------------------------------------------------------------------
(* The task: what it keeps                                                 *)

\* A sequence with one more in front.
LEMMA Prepended ==
    ASSUME NEW S, NEW x \in S, NEW q \in Seq(S)
    PROVE  LET r == <<x>> \o q
           IN  /\ Len(q) \in Nat /\ Len(r) = Len(q) + 1 /\ r # <<>>
               /\ r[1] = x /\ \A i \in 1 .. Len(r) : i # 1 => i - 1 \in 1 .. Len(q) /\ r[i] = q[i - 1]
<1>1. /\ <<x>> \in Seq(S) /\ Len(<<x>>) = 1  OBVIOUS
<1>. DEFINE one == <<x>>
<1>2. one[1] = x  OBVIOUS
<1>. HIDE DEF one
<1>3. /\ one \o q \in Seq(S) /\ Len(one \o q) = Len(one) + Len(q)
      /\ \A i \in 1 .. Len(one) + Len(q) :
             (one \o q)[i] = IF i <= Len(one) THEN one[i] ELSE q[i - Len(one)]
  BY <1>1, ConcatProperties DEF one
<1>4. Len(q) \in Nat  OBVIOUS
<1>5. Len(one) = 1  BY <1>1 DEF one
<1>6. (one \o q) # <<>>  BY <1>3, <1>4, <1>5
<1>7. (one \o q)[1] = x  BY <1>2, <1>3, <1>4, <1>5
<1>8. \A i \in 1 .. Len(q) + 1 : i # 1 => i - 1 \in 1 .. Len(q) /\ (one \o q)[i] = q[i - 1]
  BY <1>3, <1>4, <1>5
<1>. QED  BY <1>3, <1>4, <1>5, <1>6, <1>7, <1>8 DEF one

\* What is to be heard: the answer in the listener's hand, and the queue.
LEMMA AnswerFirst ==
    ASSUME TaskInv, answer \in {"piece"} \cup T!Ends
    PROVE  /\ Len(queue) \in Nat /\ Len(T!ToCome) = Len(queue) + 1 /\ T!ToCome # <<>>
           /\ T!ToCome[1] = answer
           /\ \A i \in 1 .. Len(T!ToCome) :
                 i # 1 => i - 1 \in 1 .. Len(queue) /\ T!ToCome[i] = queue[i - 1]
<1>1. queue \in Seq({"piece"} \cup T!Ends)  BY DEF TaskInv, TaskTypes
<1>2. T!ToCome = <<answer>> \o queue  BY DEF T!ToCome
<1>. QED  BY <1>1, <1>2, Prepended

LEMMA QueueOnly ==
    ASSUME TaskInv, answer \notin {"piece"} \cup T!Ends
    PROVE  T!ToCome = queue
<1>1. queue \in Seq({"piece"} \cup T!Ends)  BY DEF TaskInv, TaskTypes
<1>2. <<>> \o queue = queue  BY <1>1
<1>. QED  BY <1>2 DEF T!ToCome

\* Of what is to be heard only the last can be an end.
LEMMA OneEndFollows ==
    ASSUME TaskInv
    PROVE  T!OneEnd
<1>1. Orderly  BY DEF TaskInv, SaidInv
<1>2. CASE answer \in {"piece"} \cup T!Ends
  <2>1. ASSUME NEW i \in 1 .. Len(T!ToCome), T!ToCome[i] \in T!Ends
        PROVE  i = Len(T!ToCome)
    <3>1. CASE i = 1
      <4>1. queue = <<>>  BY <1>1, <1>2, <2>1, <3>1, AnswerFirst DEF Orderly
      <4>. QED  BY <1>2, <3>1, <4>1, AnswerFirst
    <3>2. CASE i # 1
      <4>1. i - 1 \in 1 .. Len(queue) /\ queue[i - 1] \in T!Ends
        BY <1>2, <2>1, <3>2, AnswerFirst
      <4>2. i - 1 = Len(queue)  BY <1>1, <4>1 DEF Orderly
      <4>3. Len(queue) \in Nat /\ Len(T!ToCome) = Len(queue) + 1  BY <1>2, AnswerFirst
      <4>. QED  BY <4>2, <4>3
    <3>. QED  BY <3>1, <3>2
  <2>. QED  BY <2>1 DEF T!OneEnd
<1>3. CASE answer \notin {"piece"} \cup T!Ends
  BY <1>1, <1>3, QueueOnly DEF Orderly, T!OneEnd
<1>. QED  BY <1>2, <1>3

\* A worker that is gone and was not cancelled has said its end.
LEMMA EndIsSaidFollows ==
    ASSUME TaskInv
    PROVE  T!EndIsSaid
<1>1. SUFFICES ASSUME ~outer, ~cancelled
               PROVE  \/ T!ToCome # <<>> /\ T!ToCome[Len(T!ToCome)] \in T!Ends
                      \/ heard # <<>> /\ heard[Len(heard)] \in T!Ends
  BY DEF T!EndIsSaid, T!Last
<1>2. ~Unsaid  BY <1>1 DEF TaskInv, WorkInv, TaskTypes, Unsaid
<1>3. Said  BY <1>1, <1>2 DEF TaskInv, SaidInv, Spoken
<1>4. CASE answer \in {"piece"} \cup T!Ends
  <2>1. CASE queue = <<>>
    <3>1. answer \in T!Ends \/ (heard # <<>> /\ heard[Len(heard)] \in T!Ends)
      BY <1>3, <2>1 DEF Said
    <3>2. Len(T!ToCome) = 1  BY <1>4, <2>1, AnswerFirst
    <3>. QED  BY <1>4, <3>1, <3>2, AnswerFirst
  <2>2. CASE queue # <<>>
    <3>1. answer \notin T!Ends  BY <2>2 DEF TaskInv, SaidInv, Orderly
    <3>2. queue[Len(queue)] \in T!Ends \/ (heard # <<>> /\ heard[Len(heard)] \in T!Ends)
      BY <1>3, <3>1 DEF Said
    <3>3. Len(queue) # 0  BY <2>2 DEF TaskInv, TaskTypes
    <3>4. /\ Len(T!ToCome) \in 1 .. Len(T!ToCome) /\ Len(T!ToCome) # 1
          /\ Len(T!ToCome) - 1 = Len(queue)
      BY <1>4, <3>3, AnswerFirst
    <3>5. T!ToCome[Len(T!ToCome)] = queue[Len(queue)] /\ T!ToCome # <<>>
      BY <1>4, <3>4, AnswerFirst
    <3>. QED  BY <3>2, <3>5
  <2>. QED  BY <2>1, <2>2
<1>5. CASE answer \notin {"piece"} \cup T!Ends
  BY <1>3, <1>5, QueueOnly DEF Said, T!Ends
<1>. QED  BY <1>4, <1>5

\* The queue holds no more than the pieces and the end.
LEMMA TaskTypesFollow ==
    ASSUME TaskInv
    PROVE  T!TypeOK
<1>1. Count <= sent + 1
  <2>1. Held \in Nat /\ sent \in Nat  BY TaskAssumption DEF TaskInv, TaskTypes, Held
  <2>2. Len(heard) \in Nat /\ Len(queue) \in Nat  BY DEF TaskInv, TaskTypes
  <2>3. Count \in Nat  BY <2>1, <2>2 DEF Count
  <2>. QED  BY <2>1, <2>3 DEF TaskInv, SaidInv, Quiet, Spoken
<1>2. Len(queue) <= Count
  <2>1. Held \in Nat  BY DEF Held
  <2>. QED  BY <2>1 DEF TaskInv, TaskTypes, Count
<1>3. sent <= MaxPieces /\ sent \in Nat /\ Count \in Int /\ Len(queue) \in Nat
  <2>1. Held \in Nat  BY DEF Held
  <2>2. Len(heard) \in Nat /\ Len(queue) \in Nat  BY DEF TaskInv, TaskTypes
  <2>3. sent <= MaxPieces /\ sent \in Nat  BY TaskAssumption DEF TaskInv, TaskTypes
  <2>. QED  BY <2>1, <2>2, <2>3 DEF Count
<1>4. Len(queue) <= MaxPieces + 1  BY <1>1, <1>2, <1>3, TaskAssumption
<1>. QED  BY <1>4 DEF TaskInv, TaskTypes, T!TypeOK

-----------------------------------------------------------------------------
(* The task implements the stream its listener is promised                 *)

LEMMA StreamBegins == T!Init => T!Stream!Init
BY DEF T!Init, T!Stream!Init

\* There is room for the piece that is about to be heard.
LEMMA RoomForPiece ==
    ASSUME TaskInv, ~cancelled, answer = "piece"
    PROVE  Len(heard) < MaxPieces
<1>1. /\ Len(heard) \in Nat /\ Len(queue) \in Nat /\ sent \in Nat /\ sent <= MaxPieces
      /\ reader = "answered"
  BY TaskAssumption DEF TaskInv, TaskTypes, WorkInv
<1>2. Held = 1  BY DEF Held
<1>3. Count = Len(heard) + 1 + Len(queue)  BY <1>2 DEF Count
<1>4. CASE Unsaid
  <2>1. Count <= sent  BY <1>4 DEF TaskInv, SaidInv, Quiet
  <2>. QED  BY <1>1, <1>3, <2>1, TaskAssumption
<1>5. CASE ~Unsaid
  <2>1. Count <= sent + 1 /\ Said  BY <1>5 DEF TaskInv, SaidInv, Spoken
  <2>2. queue # <<>>  BY <1>1, <2>1 DEF TaskInv, SaidInv, Orderly, Said, T!Ends
  <2>3. Len(queue) # 0  BY <2>2 DEF TaskInv, TaskTypes
  <2>. QED  BY <1>1, <1>3, <2>1, <2>3, TaskAssumption
<1>. QED  BY <1>4, <1>5

LEMMA StreamKept ==
    ASSUME TaskInv, [T!Next]_T!vars
    PROVE  [T!Stream!Next]_<<heard, ~stopped>>
<1>. USE DEF T!Stream!Next, T!taskVars, T!workVars, T!readVars
<1>1. CASE T!CancelStores
  <2>1. heard' = heard  BY <1>1 DEF T!CancelStores
  <2>2. (~stopped) = TRUE /\ (~stopped') = FALSE  BY <1>1 DEF T!CancelStores
  <2>. QED  BY <2>1, <2>2 DEF T!Stream!Cancel
<1>2. CASE T!ListenerHears /\ ~stopped
  <2>1. ~cancelled /\ reader = "answered" /\ answer # "none"
    BY <1>2 DEF TaskInv, WorkInv, T!ListenerHears
  <2>2. Orderly  BY DEF TaskInv, SaidInv
  <2>3. answer # "nothing"  BY <2>1, <2>2 DEF Orderly
  <2>4. heard' = Append(heard, answer)  BY <1>2, <2>3 DEF T!ListenerHears
  <2>5. stopped' = stopped  BY <1>2 DEF T!ListenerHears
  <2>6. ~T!Stream!Ended  BY <2>1, <2>2 DEF Orderly, T!Stream!Ended, T!Stream!Ends, T!Ends
  <2>7. (~stopped) = TRUE /\ (~stopped') = (~stopped)  BY <1>2, <2>5
  <2>8. CASE answer = "piece"
    <3>1. Len(heard) < MaxPieces  BY <2>1, <2>8, RoomForPiece
    <3>. QED  BY <2>4, <2>6, <2>7, <2>8, <3>1 DEF T!Stream!Piece
  <2>9. CASE answer \in T!Ends
    BY <2>4, <2>6, <2>7, <2>9 DEF T!Stream!End, T!Stream!Ends, T!Ends
  <2>10. answer \in {"piece"} \cup T!Ends  BY <2>1, <2>3 DEF TaskInv, TaskTypes
  <2>. QED  BY <2>8, <2>9, <2>10
<1>3. CASE T!ListenerHears /\ stopped
  <2>1. heard' = heard  BY <1>3 DEF T!ListenerHears
  <2>2. stopped' = stopped  BY <1>3 DEF T!ListenerHears
  <2>. QED  BY <2>1, <2>2
<1>4. CASE /\ ~T!CancelStores /\ ~T!ListenerHears
  <2>1. heard' = heard
    BY <1>4 DEF T!Next, T!Bridge, T!Provider, T!Listener, T!CancelWakes, T!BridgeWaits,
       T!BridgeEnds, T!LoopJoined, T!Resolve, T!StreamOpens, T!AnswerComes, T!CallFails,
       T!LoopPiece, T!LoopEnds, T!NextWaits, T!NextAnswers, T!LoopChecks, T!LoopTimesOut,
       T!OuterEnds, T!vars
  <2>2. stopped' = stopped
    BY <1>4 DEF T!Next, T!Bridge, T!Provider, T!Listener, T!CancelWakes, T!BridgeWaits,
       T!BridgeEnds, T!LoopJoined, T!Resolve, T!StreamOpens, T!AnswerComes, T!CallFails,
       T!LoopPiece, T!LoopEnds, T!NextWaits, T!NextAnswers, T!LoopChecks, T!LoopTimesOut,
       T!OuterEnds, T!vars
  <2>. QED  BY <2>1, <2>2
<1>. QED  BY <1>1, <1>2, <1>3, <1>4

-----------------------------------------------------------------------------
(* The session: its types                                                  *)

LEMMA Bounded == MaxSubmits \in Nat /\ MaxOps \in Nat
BY SessionAssumption

LEMMA PartlyIs ==
    ASSUME NEW X, NEW Y, NEW f
    PROVE  f \in Partly(X, Y) <=> f \in [DOMAIN f -> Y] /\ DOMAIN f \subseteq X
BY DEF Partly

\* A run and another one that has its target and shows the same services'
\* results of the same texts.
Alike(r, q) ==
    /\ r \in Run /\ q \in Run
    /\ q.target = r.target /\ DOMAIN q.results = DOMAIN r.results
    /\ \A s \in DOMAIN r.results :
          q.results[s].text = r.results[s].text /\ q.results[s].target = r.results[s].target

LEMMA StoppedRun ==
    ASSUME NEW r \in Run
    PROVE  /\ Alike(r, Stopped(r))
           /\ \A s \in DOMAIN r.results : Stopped(r).results[s].status # "translating"
<1>1. r # None  BY NoneAssumption
<1>. DEFINE stop == [s \in DOMAIN r.results |->
                       IF r.results[s].status = "translating"
                       THEN [r.results[s] EXCEPT !.status = "cancelled"] ELSE r.results[s]]
<1>2. Stopped(r) = [r EXCEPT !.results = stop]  BY <1>1 DEF Stopped
<1>3. r.results \in [DOMAIN r.results -> Result] /\ DOMAIN r.results \subseteq Services
  BY PartlyIs DEF Run
<1>4. \A s \in DOMAIN r.results :
          /\ stop[s] \in Result /\ stop[s].status # "translating"
          /\ stop[s].text = r.results[s].text /\ stop[s].target = r.results[s].target
  BY <1>3 DEF Result, Status
<1>5. DOMAIN stop = DOMAIN r.results  OBVIOUS
<1>6. stop \in Partly(Services, Result)  BY <1>3, <1>4, <1>5, PartlyIs
<1>. HIDE DEF stop
<1>7. Stopped(r) \in Run /\ Stopped(r).results = stop /\ Stopped(r).target = r.target
  BY <1>2, <1>6 DEF Run
<1>. QED  BY <1>4, <1>5, <1>7 DEF Alike

\* A result put into a run's results.
LEMMA PutIs ==
    ASSUME NEW X, NEW Y, NEW f, f \in [DOMAIN f -> Y], DOMAIN f \subseteq X,
           NEW x \in X, NEW v \in Y
    PROVE  /\ DOMAIN Put(f, x, v) = DOMAIN f \cup {x}
           /\ Put(f, x, v) \in [DOMAIN Put(f, x, v) -> Y] /\ DOMAIN Put(f, x, v) \subseteq X
           /\ Put(f, x, v)[x] = v
           /\ \A y \in DOMAIN f : y # x => Put(f, x, v)[y] = f[y]
BY DEF Put

\* What the listener shows is a run with its results.
LEMMA ShownRun ==
    ASSUME SessionInv, live # None, NEW t \in Languages, NEW d \in Languages \cup {None},
           NEW st \in Status, Show(t, d, st)
    PROVE  /\ run' \in Run /\ run' # None /\ run'.target = t
           /\ DOMAIN run'.results = DOMAIN live.previous \cup {live.service}
           /\ run'.results[live.service] = [status |-> st, text |-> key.text, target |-> t]
           /\ \A s \in DOMAIN live.previous :
                 s # live.service => run'.results[s] = live.previous[s]
<1>1. live \in Subscription /\ live.query = key /\ key.text # "" /\ key # None
  BY NoneAssumption DEF SessionInv, Agreed, TypeOK, LiveInv, Subscription
<1>2. key \in Query  BY <1>1 DEF Subscription
<1>. DEFINE v == [status |-> st, text |-> key.text, target |-> t]
<1>3. v \in Result  BY <1>1, <1>2 DEF Query, Result
<1>4. /\ live.service \in Services
      /\ live.previous \in [DOMAIN live.previous -> Result]
      /\ DOMAIN live.previous \subseteq Services
  BY <1>1, PartlyIs DEF Subscription
<1>. DEFINE x == live.service
            old == live.previous
<1>5. run' = [target |-> t, detected |-> d, results |-> Put(old, x, v)]  BY <1>1 DEF Show
<1>. HIDE DEF v, x, old
<1>. DEFINE all == Put(old, x, v)
<1>6. /\ DOMAIN all = DOMAIN old \cup {x}
      /\ all \in [DOMAIN all -> Result] /\ DOMAIN all \subseteq Services
      /\ all[x] = v
      /\ \A s \in DOMAIN old : s # x => all[s] = old[s]
  <2>1. old \in [DOMAIN old -> Result] /\ DOMAIN old \subseteq Services /\ x \in Services
    BY <1>4 DEF old, x
  <2>. QED  BY <1>3, <2>1 DEF Put
<1>7. all \in Partly(Services, Result)  BY <1>6, PartlyIs
<1>. HIDE DEF all
<1>8. run' \in Run /\ run'.results = all /\ run'.target = t  BY <1>5, <1>7 DEF Run, all
<1>9. run' # None  BY <1>8, NoneAssumption
<1>. QED  BY <1>6, <1>8, <1>9 DEF v, x, old

\* Cancelling leaves what it leaves of its types.
LEMMA CancelTyped ==
    ASSUME TypeOK, Cancel
    PROVE  /\ live' = None /\ waiting' \subseteq 1 .. MaxSubmits /\ submitting' = FALSE
           /\ run = None <=> run' = None
           /\ run # None => /\ Alike(run, run')
                            /\ \A s \in DOMAIN run.results :
                                  run'.results[s].status # "translating"
<1>1. live' = None /\ waiting' \subseteq 1 .. MaxSubmits /\ submitting' = FALSE
  BY DEF Cancel, TypeOK
<1>2. run = None => run' = None  BY DEF Cancel, Stopped
<1>3. run # None => /\ Alike(run, run')
                    /\ \A s \in DOMAIN run.results : run'.results[s].status # "translating"
  BY StoppedRun DEF Cancel, TypeOK
<1>4. run # None => run' # None  BY <1>3, NoneAssumption DEF Alike
<1>. QED  BY <1>1, <1>2, <1>3, <1>4

\* What a submission starts from.
LEMMA SubmitTyped ==
    ASSUME SessionInv, NEW reuse \in BOOLEAN, NEW s \in Services, Submit(reuse, s)
    PROVE  /\ requests' = requests + 1 /\ requests' \in 1 .. MaxSubmits
           /\ session' \in 1 .. MaxSubmits /\ key' = query /\ key' \in Query
           /\ run' # None => run' \in Run
           /\ live' \in Subscription
<1>. DEFINE keep == Keeps(reuse)
<1>1. requests' = requests + 1 /\ requests' \in 1 .. MaxSubmits
  <2>1. requests' = requests + 1 /\ requests < MaxSubmits  BY DEF Submit
  <2>2. requests \in 0 .. MaxSubmits  BY DEF SessionInv, TypeOK
  <2>. QED  BY <2>1, <2>2, Bounded
<1>2. session' = SessionOf(keep) /\ key' = query /\ query \in Query
  BY DEF Submit, SessionInv, TypeOK
<1>3. session' \in 1 .. MaxSubmits  BY <1>1, <1>2 DEF SessionOf, SessionInv, TypeOK
<1>4. run' = IF keep THEN Stopped(run) ELSE None  BY DEF Submit
<1>5. run = None => Stopped(run) = None  BY DEF Stopped
<1>6. run # None => run \in Run /\ Stopped(run) \in Run
  BY StoppedRun DEF SessionInv, TypeOK, Alike
<1>7. run' # None => run' \in Run  BY <1>4, <1>5, <1>6
<1>. DEFINE target == IF query.target # "auto" THEN query.target ELSE ComparisonTarget(keep)
            previous == IF run' = None THEN <<>> ELSE run'.results
<1>8. target \in Languages \cup {None}
  BY <1>2, <1>6 DEF Query, Choice, ComparisonTarget, Run
<1>9. previous \in Partly(Services, Result)
  <2>1. <<>> \in [{} -> Result]  OBVIOUS
  <2>2. DOMAIN <<>> = {}  OBVIOUS
  <2>3. <<>> \in Partly(Services, Result)  BY <2>1, <2>2, PartlyIs
  <2>. QED  BY <1>7, <2>3 DEF Run
<1>10. live' = [phase |-> "starting", request |-> requests', session |-> session',
                service |-> s, query |-> query, target |-> target, detected |-> None,
                previous |-> previous]
  BY <1>2 DEF Submit
<1>. HIDE DEF target, previous
<1>11. live' \in Subscription  BY <1>1, <1>2, <1>3, <1>8, <1>9, <1>10 DEF Subscription
<1>. QED  BY <1>1, <1>2, <1>3, <1>7, <1>11

-----------------------------------------------------------------------------
(* The session: what it says fits together                                 *)

LEMMA ClaimsTyped ==
    ASSUME TypeOK
    PROVE  \A c \in Claims :
              /\ c = [session |-> c.session, text |-> c.text, target |-> c.target]
              /\ c.session \in 1 .. MaxSubmits
<1>1. \A id \in DOMAIN rows : id[1] \in 1 .. MaxSubmits  BY DEF TypeOK
<1>2. \A r \in saving : r.session \in 1 .. MaxSubmits  BY DEF TypeOK, Record
<1>. QED  BY <1>1, <1>2 DEF Claims, Recorded

LEMMA ClaimsStay ==
    ASSUME ClaimsInv, Claims' \subseteq Claims, \A c \in Claims : c.session <= requests',
           \/ /\ session' = session /\ key' = key
              /\ run # None => run' # None /\ run'.target = run.target
           \/ \A c \in Claims : c.session # session'
    PROVE  ClaimsInv'
BY DEF ClaimsInv

LEMMA NothingMoves ==
    ASSUME Agreed, UNCHANGED <<run, key, requests, session, live, waiting, records>>,
           submitting' = submitting
    PROVE  Agreed'
<1>. USE DEF Agreed, records
<1>1. LiveInv'  BY DEF LiveInv
<1>2. SessionsInv'  BY DEF SessionsInv
<1>3. Claims' = Claims  BY DEF Claims, Recorded
<1>4. ClaimsInv'  BY <1>3 DEF ClaimsInv
<1>5. Comparable'  BY DEF Comparable
<1>6. NothingHangs'  BY DEF NothingHangs
<1>7. Starred' /\ HistoryOwned'  BY DEF Starred, HistoryOwned, Toggled
<1>. QED  BY <1>1, <1>2, <1>4, <1>5, <1>6, <1>7

\* No submission is under way any more, and the run is as it was but stopped.
LEMMA CancelAgreed ==
    ASSUME SessionInv, Cancel, UNCHANGED <<key, requests, session, records>>
    PROVE  Agreed'
<1>. USE DEF records
<1>1. Agreed /\ TypeOK  BY DEF SessionInv
<1>2. /\ live' = None /\ submitting' = FALSE /\ (run = None <=> run' = None)
      /\ run # None => /\ Alike(run, run')
                       /\ \A s \in DOMAIN run.results :
                             run'.results[s].status # "translating"
  BY <1>1, CancelTyped
<1>3. LiveInv'  BY <1>2 DEF LiveInv
<1>4. SessionsInv'  BY <1>1 DEF SessionsInv, Agreed
<1>5. ClaimsInv'
  <2>1. Claims' = Claims  BY DEF Claims, Recorded
  <2>2. ClaimsInv /\ \A c \in Claims : c.session <= requests'  BY <1>1 DEF Agreed, ClaimsInv
  <2>. QED  BY <1>2, <2>1, <2>2, ClaimsStay DEF Alike
<1>6. Comparable'  BY <1>1, <1>2 DEF Agreed, Comparable, Alike
<1>7. waiting' = {}
  <2>1. waiting' = waiting \ {requests}  BY DEF Cancel
  <2>. QED  BY <1>1, <2>1 DEF Agreed, NothingHangs, LiveInv
<1>8. NothingHangs'  BY <1>2, <1>7 DEF NothingHangs, Alike
<1>9. Starred' /\ HistoryOwned'  BY <1>1 DEF Agreed, Starred, HistoryOwned, Toggled
<1>. QED  BY <1>3, <1>4, <1>5, <1>6, <1>8, <1>9 DEF Agreed

\* Nothing is shown any more.
LEMMA ClearAgreed ==
    ASSUME SessionInv, ClearSourceText
    PROVE  Agreed'
<1>1. Agreed /\ TypeOK  BY DEF SessionInv
<1>2. /\ live' = None /\ submitting' = FALSE /\ run' = None /\ key' = None /\ session' = None
      /\ history' = <<>> /\ UNCHANGED <<requests, saving, toggle, rows, stale>>
      /\ waiting' = waiting \ {requests}
  BY DEF ClearSourceText
<1>3. DOMAIN history' = {}  BY <1>2
<1>4. LiveInv'  BY <1>2 DEF LiveInv
<1>5. SessionsInv'  BY <1>2 DEF SessionsInv
<1>6. ClaimsInv'
  <2>1. Claims' = Claims  BY <1>2 DEF Claims, Recorded
  <2>2. ClaimsInv /\ \A c \in Claims : c.session <= requests'
    BY <1>1, <1>2 DEF Agreed, ClaimsInv
  <2>3. \A c \in Claims : c.session # session'
    BY <1>1, <1>2, ClaimsTyped, NoneAssumption
  <2>. QED  BY <2>1, <2>2, <2>3, ClaimsStay
<1>7. Comparable'  BY <1>2 DEF Comparable
<1>8. waiting' = {}  BY <1>1, <1>2 DEF Agreed, NothingHangs, LiveInv
<1>9. NothingHangs'  BY <1>2, <1>8 DEF NothingHangs
<1>10. Starred'  BY <1>1, <1>2, <1>3 DEF Agreed, Starred, Toggled
<1>11. HistoryOwned'  BY <1>3 DEF HistoryOwned
<1>. QED  BY <1>4, <1>5, <1>6, <1>7, <1>9, <1>10, <1>11 DEF Agreed

\* A submission goes on with the run of the same query, or starts anew.
LEMMA SubmitAgreed ==
    ASSUME SessionInv, NEW reuse \in BOOLEAN, NEW s \in Services, Submit(reuse, s)
    PROVE  Agreed'
<1>. DEFINE keep == Keeps(reuse)
<1>1. Agreed /\ TypeOK  BY DEF SessionInv
<1>2. /\ requests' = requests + 1 /\ requests' \in 1 .. MaxSubmits
      /\ session' \in 1 .. MaxSubmits /\ key' = query /\ key' \in Query
      /\ live' \in Subscription
  BY SubmitTyped
<1>3. live' # None /\ session' # None /\ key' # None  BY <1>2, NoneAssumption
<1>4. /\ query.text # "" /\ session' = SessionOf(keep)
      /\ run' = (IF keep THEN Stopped(run) ELSE None)
      /\ history' = (IF keep THEN history ELSE <<>>)
      /\ strayed' = (IF keep THEN strayed ELSE {})
      /\ waiting' = (waiting \ {requests}) \cup {requests'}
      /\ UNCHANGED <<saving, toggle, rows, stale>>
  BY DEF Submit
<1>5. /\ live'.phase = "starting" /\ live'.request = requests' /\ live'.session = session'
      /\ live'.query = query
      /\ live'.target = (IF query.target # "auto" THEN query.target ELSE ComparisonTarget(keep))
      /\ live'.previous = (IF run' = None THEN <<>> ELSE run'.results)
  BY DEF Submit
<1>6. keep => key = query /\ key # None /\ session # None /\ session' = session
  BY <1>1, <1>4, NoneAssumption DEF Keeps, TypeOK, Agreed, SessionsInv, SessionOf
<1>7. ~keep => session' = requests + 1
  <2>1. CASE session = None  BY <1>4, <2>1 DEF SessionOf
  <2>. QED  BY <1>4 DEF SessionOf
<1>8. run' # None =>
         /\ keep /\ run # None /\ Alike(run, run')
         /\ \A x \in DOMAIN run'.results : run'.results[x].status # "translating"
  <2>1. run = None => Stopped(run) = None  BY DEF Stopped
  <2>2. run # None => run \in Run  BY <1>1 DEF TypeOK
  <2>. QED  BY <1>4, <2>1, <2>2, StoppedRun DEF Alike
<1>9. keep /\ run # None => run' # None /\ Alike(run, run')
  <2>1. run # None => run \in Run  BY <1>1 DEF TypeOK
  <2>2. run # None => Alike(run, Stopped(run)) /\ Stopped(run) # None
    BY <2>1, StoppedRun, NoneAssumption DEF Alike
  <2>. QED  BY <1>4, <2>2
<1>10. Comparable'
  BY <1>1, <1>2, <1>3, <1>6, <1>8 DEF Agreed, Comparable, Alike
<1>11. LiveInv'
  <2>1. run' # None => live'.target = run'.target
    <3>1. run' # None /\ query.target # "auto" => run'.target = query.target
      BY <1>2, <1>10 DEF Comparable
    <3>2. run' # None => ComparisonTarget(keep) = run'.target
      BY <1>8 DEF ComparisonTarget, Alike
    <3>. QED  BY <1>5, <3>1, <3>2
  <2>2. key'.target # "auto" => live'.target = key'.target  BY <1>2, <1>5
  <2>3. \A x \in DOMAIN live'.previous :
           /\ live'.previous[x].status # "translating"
           /\ live'.previous[x].text = key'.text /\ live'.previous[x].target = live'.target
    <3>1. CASE run' = None
      <4>1. DOMAIN live'.previous = {}  BY <1>5, <3>1
      <4>. QED  BY <4>1
    <3>2. CASE run' # None
      BY <1>5, <1>8, <1>10, <2>1, <3>2 DEF Comparable
    <3>. QED  BY <3>1, <3>2
  <2>. QED  BY <1>2, <1>4, <1>5, <2>1, <2>2, <2>3 DEF LiveInv
<1>12. SessionsInv'
  <2>1. session' <= requests'
    <3>1. requests \in Nat  BY <1>1, Bounded DEF TypeOK
    <3>2. session # None => session <= requests /\ session \in Nat
      BY <1>1, Bounded DEF Agreed, SessionsInv, TypeOK
    <3>. QED  BY <1>2, <1>6, <1>7, <3>1, <3>2
  <2>. QED  BY <1>3, <2>1 DEF SessionsInv
<1>13. ClaimsInv'
  <2>1. Claims' = Claims  BY <1>4 DEF Claims, Recorded
  <2>2. ClaimsInv  BY <1>1 DEF Agreed
  <2>3. requests \in Nat  BY <1>1, Bounded DEF TypeOK
  <2>4. \A c \in Claims : c.session \in Nat /\ c.session <= requests
    BY <1>1, <2>2, ClaimsTyped, Bounded DEF ClaimsInv
  <2>5. \A c \in Claims : c.session <= requests' /\ c.session # requests + 1
    BY <1>2, <2>3, <2>4
  <2>6. CASE keep  BY <1>2, <1>6, <1>9, <2>1, <2>2, <2>5, <2>6, ClaimsStay DEF Alike
  <2>7. CASE ~keep  BY <1>7, <2>1, <2>2, <2>5, <2>7, ClaimsStay
  <2>. QED  BY <2>6, <2>7
<1>14. waiting' = {requests'}
  <2>1. waiting \subseteq {requests}  BY <1>1 DEF Agreed, NothingHangs, LiveInv
  <2>. QED  BY <1>4, <2>1
<1>15. NothingHangs'  BY <1>3, <1>5, <1>14 DEF NothingHangs
<1>16. Starred' /\ HistoryOwned'
  <2>1. CASE keep  BY <1>1, <1>4, <1>6, <2>1 DEF Agreed, Starred, HistoryOwned, Toggled
  <2>2. CASE ~keep
    <3>1. history' = <<>>  BY <1>4, <2>2
    <3>2. DOMAIN history' = {}  BY <3>1
    <3>. QED  BY <1>1, <1>4, <3>2 DEF Agreed, Starred, HistoryOwned, Toggled
  <2>. QED  BY <2>1, <2>2
<1>. QED  BY <1>10, <1>11, <1>12, <1>13, <1>15, <1>16 DEF Agreed

\* The service's own result is shown beside those of the others.
LEMMA ShowAgreed ==
    ASSUME SessionInv, live # None, live' # None, submitting' = TRUE,
           NEW t \in Languages, live.target \in {None, t},
           key.target # "auto" => t = key.target,
           NEW d \in Languages \cup {None}, NEW st \in Status, Show(t, d, st),
           live'.phase = "finished" => st # "translating",
           live'.phase \in {"running", "finished"},
           live'.request = live.request, live'.session = live.session,
           live'.service = live.service, live'.query = live.query,
           live'.previous = live.previous, live'.target = t,
           UNCHANGED <<key, requests, session, waiting, records>>
    PROVE  Agreed'
<1>. USE DEF records
<1>1. Agreed /\ TypeOK  BY DEF SessionInv
<1>2. /\ run' \in Run /\ run' # None /\ run'.target = t
      /\ DOMAIN run'.results = DOMAIN live.previous \cup {live.service}
      /\ run'.results[live.service] = [status |-> st, text |-> key.text, target |-> t]
      /\ \A s \in DOMAIN live.previous :
            s # live.service => run'.results[s] = live.previous[s]
  BY ShownRun
<1>3. \A s \in DOMAIN live.previous :
         /\ live.previous[s].status # "translating"
         /\ live.previous[s].text = key.text /\ live.previous[s].target = live.target
  BY <1>1 DEF Agreed, LiveInv
<1>4. live.target # None => live.target = t  OBVIOUS
<1>5. \A s \in DOMAIN live.previous : live.target = t
  <2>1. \A s \in DOMAIN live.previous : live.previous[s].target \in Languages
    <3>1. live \in Subscription  BY <1>1 DEF TypeOK
    <3>2. /\ live.previous \in [DOMAIN live.previous -> Result]
          /\ DOMAIN live.previous \subseteq Services
      BY <3>1, PartlyIs DEF Subscription
    <3>. QED  BY <3>2 DEF Result
  <2>. QED  BY <1>3, <1>4, <2>1, SessionAssumption
<1>6. \A s \in DOMAIN run'.results :
         run'.results[s].text = key.text /\ run'.results[s].target = t
  BY <1>2, <1>3, <1>5
<1>7. st # "translating" =>
         \A s \in DOMAIN run'.results : run'.results[s].status # "translating"
  BY <1>2, <1>3
<1>8. key # None /\ key.text # ""
  BY <1>1, NoneAssumption DEF Agreed, LiveInv, TypeOK, Subscription
<1>9. Comparable'  BY <1>2, <1>6, <1>8 DEF Comparable
<1>10. LiveInv'  BY <1>1, <1>2, <1>3, <1>5, <1>7 DEF Agreed, LiveInv
<1>11. SessionsInv'  BY <1>1 DEF Agreed, SessionsInv
<1>12. ClaimsInv'
  <2>1. Claims' = Claims  BY DEF Claims, Recorded
  <2>2. ClaimsInv /\ \A c \in Claims : c.session <= requests'  BY <1>1 DEF Agreed, ClaimsInv
  <2>3. run # None => run.target = t
    BY <1>1, SessionAssumption DEF Agreed, LiveInv, TypeOK, Run
  <2>. QED  BY <1>2, <2>1, <2>2, <2>3, ClaimsStay
<1>13. NothingHangs'  BY <1>1 DEF Agreed, NothingHangs
<1>14. Starred' /\ HistoryOwned'  BY <1>1 DEF Agreed, Starred, HistoryOwned, Toggled
<1>. QED  BY <1>9, <1>10, <1>11, <1>12, <1>13, <1>14 DEF Agreed

LEMMA StartsAgreed ==
    ASSUME SessionInv, Starts
    PROVE  Agreed' /\ live' \in Subscription /\ run' \in Run
<1>1. Agreed /\ TypeOK /\ live # None /\ live \in Subscription
  BY DEF SessionInv, TypeOK, Starts
<1>2. PICK d \in Languages \cup {None}, t \in IF live.target = None THEN Languages ELSE {live.target} :
         /\ live' = [live EXCEPT !.phase = "running", !.target = t, !.detected = d]
         /\ Show(t, d, "translating")
  BY DEF Starts
<1>3. t \in Languages /\ live.target \in {None, t}
  BY <1>1, <1>2 DEF Subscription
<1>4. live' \in Subscription  BY <1>1, <1>2, <1>3 DEF Subscription
<1>5. /\ live'.request = live.request /\ live'.session = live.session
      /\ live'.service = live.service /\ live'.query = live.query
      /\ live'.previous = live.previous /\ live'.target = t /\ live'.phase = "running"
  BY <1>1, <1>2 DEF Subscription
<1>6. key.target # "auto" => t = key.target
  <2>1. key \in Query /\ (key.target # "auto" => live.target = key.target)
    BY <1>1 DEF Agreed, LiveInv, Subscription
  <2>2. key.target # "auto" => key.target \in Languages  BY <2>1 DEF Query, Choice
  <2>. QED  BY <1>3, <2>1, <2>2, SessionAssumption
<1>7. submitting' = TRUE /\ UNCHANGED <<key, requests, session, waiting, records>>
  BY DEF Starts
<1>8. live' # None  BY <1>4, NoneAssumption
<1>9. "translating" \in Status  BY DEF Status
<1>10. Agreed'  BY <1>1, <1>2, <1>3, <1>5, <1>6, <1>7, <1>8, <1>9, ShowAgreed
<1>11. run' \in Run  BY <1>1, <1>2, <1>3, <1>9, ShownRun
<1>. QED  BY <1>4, <1>10, <1>11

LEMMA FinishesAgreed ==
    ASSUME SessionInv, Finishes
    PROVE  Agreed' /\ live' \in Subscription /\ run' \in Run
<1>1. Agreed /\ TypeOK /\ live # None /\ live \in Subscription /\ live.phase = "running"
  BY DEF SessionInv, TypeOK, Finishes
<1>2. PICK st \in {"completed", "failed"} : Show(live.target, live.detected, st)
  BY DEF Finishes
<1>3. live' = [live EXCEPT !.phase = "finished"]  BY DEF Finishes
<1>4. live' \in Subscription  BY <1>1, <1>3 DEF Subscription
<1>5. /\ live'.request = live.request /\ live'.session = live.session
      /\ live'.service = live.service /\ live'.query = live.query
      /\ live'.previous = live.previous /\ live'.target = live.target
      /\ live'.phase = "finished"
  BY <1>1, <1>3 DEF Subscription
<1>6. key.target # "auto" => live.target = key.target  BY <1>1 DEF Agreed, LiveInv
<1>7. live.target \in Languages /\ live.detected \in Languages \cup {None}
  BY <1>1 DEF Agreed, LiveInv, Subscription, TypeOK, Run
<1>8. submitting' = TRUE /\ UNCHANGED <<key, requests, session, waiting, records>>
  BY DEF Finishes
<1>9. live' # None  BY <1>4, NoneAssumption
<1>10. st \in Status /\ st # "translating"  BY DEF Status
<1>11. Agreed'  BY <1>1, <1>2, <1>5, <1>6, <1>7, <1>8, <1>9, <1>10, ShowAgreed
<1>12. run' \in Run  BY <1>1, <1>2, <1>7, <1>10, ShownRun
<1>. QED  BY <1>4, <1>11, <1>12

\* The record that is saved says of its session what the view shows.
LEMMA CompletesAgreed ==
    ASSUME SessionInv, Completes
    PROVE  Agreed' /\ live' \in Subscription /\ saving' \subseteq Record
<1>1. Agreed /\ TypeOK /\ live # None /\ live \in Subscription /\ live.phase = "finished"
  BY DEF SessionInv, TypeOK, Completes
<1>2. /\ live' = [live EXCEPT !.phase = "completed"] /\ submitting' = FALSE
      /\ UNCHANGED <<run, key, requests, session, waiting, toggle, history, rows, stale, strayed>>
  BY DEF Completes
<1>. DEFINE rec == [session |-> live.session, service |-> live.service,
                    text |-> live.query.text, target |-> live.target]
            new == [session |-> live.session, text |-> live.query.text, target |-> live.target]
<1>3. saving' \subseteq saving \cup {rec}  BY DEF Completes
<1>4. live' \in Subscription  BY <1>1, <1>2 DEF Subscription
<1>5. /\ live'.request = live.request /\ live'.session = live.session
      /\ live'.service = live.service /\ live'.query = live.query
      /\ live'.previous = live.previous /\ live'.target = live.target
      /\ live'.phase = "completed"
  BY <1>1, <1>2 DEF Subscription
<1>6. live' # None  BY <1>4, NoneAssumption
<1>7. /\ live.session = session /\ live.query = key /\ key.text # "" /\ run # None
      /\ live.target = run.target /\ key \in Query /\ key # None
      /\ live.session \in 1 .. MaxSubmits
  BY <1>1, NoneAssumption DEF Agreed, LiveInv, Subscription
<1>8. saving' \subseteq Record
  <2>1. rec \in Record
    <3>1. key.text \in Texts  BY <1>7 DEF Query
    <3>2. run.target \in Languages  BY <1>1, <1>7 DEF TypeOK, Run
    <3>3. live.service \in Services  BY <1>1 DEF Subscription
    <3>. QED  BY <1>7, <3>1, <3>2, <3>3 DEF Record
  <2>. QED  BY <1>1, <1>3, <2>1 DEF TypeOK
<1>9. LiveInv'  BY ZenonT(40), <1>1, <1>2, <1>5 DEF Agreed, LiveInv
<1>10. SessionsInv'  BY <1>1, <1>2 DEF Agreed, SessionsInv
<1>11. ClaimsInv'
  <2>1. Claims' \subseteq Claims \cup {new}  BY <1>2, <1>3 DEF Claims, Recorded
  <2>2. new.session = session /\ new.text = key.text /\ new.target = run.target
    BY <1>7
  <2>3. \A c \in Claims : c.session = session => c = new
    BY ZenonT(40), <1>1, <1>7, ClaimsTyped DEF Agreed, ClaimsInv
  <2>4. session <= requests
    BY <1>1, <1>7, NoneAssumption, Bounded DEF Agreed, SessionsInv
  <2>. HIDE DEF new
  <2>5. \A c \in Claims' : c \in Claims \/ c = new  BY <2>1
  <2>6. ClaimsInv  BY <1>1 DEF Agreed
  <2>. QED  BY <1>2, <1>7, <2>2, <2>3, <2>4, <2>5, <2>6 DEF ClaimsInv
<1>12. Comparable'  BY <1>1, <1>2 DEF Agreed, Comparable
<1>13. NothingHangs'  BY <1>1, <1>2, <1>5, <1>6 DEF Agreed, NothingHangs
<1>14. Starred' /\ HistoryOwned'  BY <1>1, <1>2 DEF Agreed, Starred, HistoryOwned, Toggled
<1>. QED  BY <1>4, <1>8, <1>9, <1>10, <1>11, <1>12, <1>13, <1>14 DEF Agreed

LEMMA DoneAgreed ==
    ASSUME SessionInv, Done
    PROVE  Agreed'
<1>1. Agreed /\ live # None /\ live.phase = "completed"  BY DEF SessionInv, Done
<1>2. /\ live' = None /\ submitting' = FALSE /\ waiting' = waiting \ {live.request}
      /\ UNCHANGED <<run, key, requests, session, saving, toggle, history, rows, stale, strayed>>
  BY DEF Done, records
<1>3. Claims' = Claims  BY <1>2 DEF Claims, Recorded
<1>4. LiveInv'  BY <1>2 DEF LiveInv
<1>5. SessionsInv' /\ ClaimsInv'  BY <1>1, <1>2, <1>3 DEF Agreed, SessionsInv, ClaimsInv
<1>6. Comparable'  BY <1>1, <1>2 DEF Agreed, Comparable
<1>7. waiting' = {}  BY <1>1, <1>2 DEF Agreed, NothingHangs
<1>8. NothingHangs'  BY <1>1, <1>2, <1>7 DEF Agreed, LiveInv, NothingHangs
<1>9. Starred' /\ HistoryOwned'  BY <1>1, <1>2 DEF Agreed, Starred, HistoryOwned, Toggled
<1>. QED  BY <1>4, <1>5, <1>6, <1>8, <1>9 DEF Agreed

\* What an upsert writes is what was saved, and its row keeps its star.
LEMMA UpsertedRows ==
    ASSUME SessionInv, NEW r \in saving
    PROVE  LET id == <<r.session, r.service>>
               all == Upserted(r)
           IN  /\ DOMAIN all = DOMAIN rows \cup {id}
               /\ all \in [DOMAIN all -> Row] /\ DOMAIN all \subseteq (1 .. MaxSubmits) \X Services
               /\ all[id].text = r.text /\ all[id].target = r.target
               /\ id \in DOMAIN rows => all[id].favorite = rows[id].favorite
               /\ \A i \in DOMAIN rows : i # id => all[i] = rows[i]
<1>1. TypeOK /\ r \in Record  BY DEF SessionInv, TypeOK
<1>2. /\ r.session \in 1 .. MaxSubmits /\ r.service \in Services /\ r.text \in Texts
      /\ r.target \in Languages
  BY <1>1 DEF Record
<1>. DEFINE id == <<r.session, r.service>>
            star == id \in DOMAIN rows /\ rows[id].favorite
            row == [text |-> r.text, target |-> r.target, edited |-> FALSE, favorite |-> star]
<1>3. rows \in [DOMAIN rows -> Row] /\ DOMAIN rows \subseteq (1 .. MaxSubmits) \X Services
  BY <1>1 DEF TypeOK
<1>4. star \in BOOLEAN  BY <1>3 DEF Row
<1>5. id \in DOMAIN rows => star = rows[id].favorite  BY <1>3 DEF Row
<1>6. id \in (1 .. MaxSubmits) \X Services  BY <1>2
<1>. HIDE DEF star
<1>7. row \in Row /\ row.text = r.text /\ row.target = r.target /\ row.favorite = star
  BY <1>2, <1>4 DEF Row
<1>8. Upserted(r) = Put(rows, id, row)  BY DEF Upserted, star
<1>. HIDE DEF row, id
<1>9. LET all == Put(rows, id, row)
      IN  /\ DOMAIN all = DOMAIN rows \cup {id} /\ all[id] = row
          /\ all \in [DOMAIN all -> Row] /\ DOMAIN all \subseteq (1 .. MaxSubmits) \X Services
          /\ \A i \in DOMAIN rows : i # id => all[i] = rows[i]
  BY <1>3, <1>6, <1>7 DEF Put
<1>. QED  BY <1>5, <1>7, <1>8, <1>9 DEF id

\* A row that is written claims what the record under way did.
LEMMA UpsertClaims ==
    ASSUME SessionInv, NEW r \in saving, rows' \in {rows, Upserted(r)}, saving' = saving \ {r}
    PROVE  Claims' \subseteq Claims
<1>. DEFINE id == <<r.session, r.service>>
<1>1. id[1] = r.session  OBVIOUS
<1>2. CASE rows' = rows  BY <1>2 DEF Claims, Recorded
<1>3. CASE rows' = Upserted(r)
  <2>1. /\ DOMAIN rows' = DOMAIN rows \cup {id}
        /\ rows'[id].text = r.text /\ rows'[id].target = r.target
        /\ \A i \in DOMAIN rows : i # id => rows'[i] = rows[i]
    BY <1>3, UpsertedRows
  <2>2. SUFFICES ASSUME NEW c \in Claims' PROVE c \in Claims  OBVIOUS
  <2>3. CASE \E i \in Recorded' :
                c = [session |-> i[1], text |-> rows'[i].text, target |-> rows'[i].target]
    <3>1. PICK i \in Recorded' :
                c = [session |-> i[1], text |-> rows'[i].text, target |-> rows'[i].target]
      BY <2>3
    <3>2. CASE i = id
      <4>1. c = [session |-> r.session, text |-> r.text, target |-> r.target]
        BY <1>1, <2>1, <3>1, <3>2
      <4>. QED  BY <4>1 DEF Claims
    <3>3. CASE i # id
      <4>1. i \in Recorded /\ rows'[i] = rows[i]  BY <2>1, <3>1, <3>3 DEF Recorded
      <4>. QED  BY <3>1, <4>1 DEF Claims
    <3>. QED  BY <3>2, <3>3
  <2>4. CASE \E q \in saving' : c = [session |-> q.session, text |-> q.text, target |-> q.target]
    BY <2>4 DEF Claims
  <2>. QED  BY <2>2, <2>3, <2>4 DEF Claims
<1>. QED  BY <1>2, <1>3

\* Stars that are shown or set stay what they are of rows that keep theirs.
LEMMA StarsStay ==
    ASSUME Starred, HistoryOwned, UNCHANGED <<toggle, stale>>,
           DOMAIN rows \subseteq DOMAIN rows',
           \A i \in DOMAIN rows : rows'[i].favorite = rows[i].favorite
    PROVE  /\ Starred'
           /\ \A s \in DOMAIN history :
                 LET id == <<history[s].session, s>>
                 IN  \/ id \in stale'
                     \/ toggle' # None /\ toggle'.set /\ Toggled' = id
                     \/ id \in DOMAIN rows' /\ rows'[id].favorite = history[s].favorite
BY DEF Starred, HistoryOwned, Toggled

LEMMA RecordSavedAgreed ==
    ASSUME SessionInv, NEW r \in saving, RecordSaved(r)
    PROVE  /\ Agreed'
           /\ DOMAIN rows' \subseteq (1 .. MaxSubmits) \X Services
           /\ rows' \in [DOMAIN rows' -> Row]
           /\ DOMAIN history' \subseteq Services /\ history' \in [DOMAIN history' -> Shown]
<1>1. Agreed /\ TypeOK /\ r \in Record  BY DEF SessionInv, TypeOK
<1>2. r.session \in 1 .. MaxSubmits /\ r.service \in Services  BY <1>1 DEF Record
<1>. DEFINE id == <<r.session, r.service>>
            shown == [session |-> r.session, favorite |-> rows'[id].favorite]
<1>3. /\ rows' = Upserted(r) /\ saving' = saving \ {r}
      /\ history' = (IF Lands(r) THEN Put(history, r.service, shown) ELSE history)
      /\ strayed' = (IF Lands(r) THEN strayed \ {r.service} ELSE strayed)
      /\ UNCHANGED <<run, key, requests, session, live, waiting, toggle, stale>>
      /\ submitting' = submitting
  BY DEF RecordSaved, view
<1>4. /\ DOMAIN rows' = DOMAIN rows \cup {id}
      /\ rows' \in [DOMAIN rows' -> Row] /\ DOMAIN rows' \subseteq (1 .. MaxSubmits) \X Services
      /\ \A i \in DOMAIN rows : rows'[i].favorite = rows[i].favorite
  <2>1. /\ DOMAIN rows' = DOMAIN rows \cup {id}
        /\ rows' \in [DOMAIN rows' -> Row] /\ DOMAIN rows' \subseteq (1 .. MaxSubmits) \X Services
        /\ id \in DOMAIN rows => rows'[id].favorite = rows[id].favorite
        /\ \A i \in DOMAIN rows : i # id => rows'[i] = rows[i]
    BY <1>3, UpsertedRows
  <2>. QED  BY <2>1
<1>5. rows'[id].favorite \in BOOLEAN  BY <1>4 DEF Row
<1>6. shown \in Shown /\ shown.session = r.session /\ shown.favorite = rows'[id].favorite
  BY <1>2, <1>5 DEF Shown
<1>. HIDE DEF shown
<1>7. /\ DOMAIN history' \subseteq Services /\ history' \in [DOMAIN history' -> Shown]
      /\ \A s \in DOMAIN history' :
            \/ Lands(r) /\ s = r.service /\ history'[s] = shown
            \/ s \in DOMAIN history /\ history'[s] = history[s] /\ (Lands(r) => s # r.service)
  <2>1. history \in [DOMAIN history -> Shown] /\ DOMAIN history \subseteq Services
    BY <1>1 DEF TypeOK
  <2>2. CASE Lands(r)  BY <1>2, <1>3, <1>6, <2>1, <2>2 DEF Put
  <2>3. CASE ~Lands(r)  BY <1>3, <2>1, <2>3
  <2>. QED  BY <2>2, <2>3
<1>8. LiveInv' /\ SessionsInv'  BY <1>1, <1>3 DEF Agreed, LiveInv, SessionsInv
<1>9. ClaimsInv'
  <2>1. Claims' \subseteq Claims  BY <1>3, UpsertClaims
  <2>2. ClaimsInv /\ \A c \in Claims : c.session <= requests'
    BY <1>1, <1>3 DEF Agreed, ClaimsInv
  <2>. QED  BY <1>3, <2>1, <2>2, ClaimsStay
<1>10. Comparable' /\ NothingHangs'  BY <1>1, <1>3 DEF Agreed, Comparable, NothingHangs
<1>11. /\ Starred'
       /\ \A s \in DOMAIN history :
             LET i == <<history[s].session, s>>
             IN  \/ i \in stale'
                 \/ toggle' # None /\ toggle'.set /\ Toggled' = i
                 \/ i \in DOMAIN rows' /\ rows'[i].favorite = history[s].favorite
  BY <1>1, <1>3, <1>4, StarsStay DEF Agreed
<1>12. HistoryOwned'
  <2>1. ASSUME NEW s \in DOMAIN history'
        PROVE  LET i == <<history'[s].session, s>>
               IN  /\ s \in strayed' \/ history'[s].session = session'
                   /\ \/ i \in stale'
                      \/ toggle' # None /\ toggle'.set /\ Toggled' = i
                      \/ i \in DOMAIN rows' /\ rows'[i].favorite = history'[s].favorite
    <3>1. CASE Lands(r) /\ s = r.service /\ history'[s] = shown
      <4>1. history'[s].session = session'  BY <1>3, <1>6, <3>1 DEF Lands
      <4>2. <<history'[s].session, s>> = id  BY <1>6, <3>1
      <4>3. id \in DOMAIN rows' /\ rows'[id].favorite = history'[s].favorite
        BY <1>4, <1>6, <3>1
      <4>. QED  BY <4>1, <4>2, <4>3
    <3>2. CASE s \in DOMAIN history /\ history'[s] = history[s] /\ (Lands(r) => s # r.service)
      <4>1. s \in strayed' \/ history'[s].session = session'
        BY <1>1, <1>3, <3>2 DEF Agreed, HistoryOwned
      <4>. QED  BY <1>11, <3>2, <4>1
    <3>. QED  BY <1>7, <3>1, <3>2
  <2>. QED  BY <2>1 DEF HistoryOwned
<1>. QED  BY <1>4, <1>7, <1>8, <1>9, <1>10, <1>11, <1>12 DEF Agreed

LEMMA RecordFailsAgreed ==
    ASSUME SessionInv, NEW r \in saving, RecordFails(r)
    PROVE  /\ Agreed'
           /\ DOMAIN rows' \subseteq (1 .. MaxSubmits) \X Services
           /\ rows' \in [DOMAIN rows' -> Row]
<1>1. Agreed /\ TypeOK  BY DEF SessionInv
<1>2. /\ rows' \in {rows, Upserted(r)} /\ saving' = saving \ {r} /\ submitting' = submitting
      /\ UNCHANGED <<run, key, requests, session, live, waiting, toggle, history, stale, strayed>>
  BY DEF RecordFails, view
<1>3. /\ DOMAIN rows \subseteq DOMAIN rows' /\ DOMAIN rows' \subseteq (1 .. MaxSubmits) \X Services
      /\ rows' \in [DOMAIN rows' -> Row]
      /\ \A i \in DOMAIN rows : rows'[i].favorite = rows[i].favorite
  <2>1. CASE rows' = rows  BY <1>1, <2>1 DEF TypeOK
  <2>2. CASE rows' = Upserted(r)
    <3>. DEFINE id == <<r.session, r.service>>
    <3>1. /\ DOMAIN rows' = DOMAIN rows \cup {id}
          /\ rows' \in [DOMAIN rows' -> Row] /\ DOMAIN rows' \subseteq (1 .. MaxSubmits) \X Services
          /\ id \in DOMAIN rows => rows'[id].favorite = rows[id].favorite
          /\ \A i \in DOMAIN rows : i # id => rows'[i] = rows[i]
      BY <2>2, UpsertedRows
    <3>. HIDE DEF id
    <3>. QED  BY <3>1
  <2>. QED  BY <1>2, <2>1, <2>2
<1>4. ClaimsInv'
  <2>1. ClaimsInv /\ \A c \in Claims : c.session <= requests'
    BY <1>1, <1>2 DEF Agreed, ClaimsInv
  <2>2. Claims' \subseteq Claims  BY <1>2, UpsertClaims
  <2>. QED  BY <1>2, <2>1, <2>2, ClaimsStay
<1>5. LiveInv' /\ SessionsInv'  BY <1>1, <1>2 DEF Agreed, LiveInv, SessionsInv
<1>6. Comparable' /\ NothingHangs'  BY <1>1, <1>2 DEF Agreed, Comparable, NothingHangs
<1>7. /\ Starred'
      /\ \A s \in DOMAIN history :
            LET i == <<history[s].session, s>>
            IN  \/ i \in stale'
                \/ toggle' # None /\ toggle'.set /\ Toggled' = i
                \/ i \in DOMAIN rows' /\ rows'[i].favorite = history[s].favorite
  BY <1>1, <1>2, <1>3, StarsStay DEF Agreed
<1>8. HistoryOwned'  BY <1>1, <1>2, <1>7 DEF Agreed, HistoryOwned
<1>. QED  BY <1>3, <1>4, <1>5, <1>6, <1>7, <1>8 DEF Agreed

LEMMA ToggleAgreed ==
    ASSUME SessionInv, Toggle
    PROVE  Agreed' /\ toggle' \in Star
<1>1. Agreed /\ TypeOK  BY DEF SessionInv
<1>2. /\ selected \in DOMAIN history /\ selected \in Services /\ toggle = None
      /\ toggle' = [session |-> history[selected].session, service |-> selected,
                    favorite |-> ~history[selected].favorite, set |-> FALSE]
      /\ UNCHANGED <<run, key, requests, session, live, waiting, saving, history, rows, stale, strayed>>
      /\ submitting' = submitting
  BY <1>1 DEF Toggle, view, TypeOK
<1>3. history[selected] \in Shown  BY <1>1, <1>2 DEF TypeOK
<1>4. toggle' \in Star /\ ~toggle'.set  BY <1>2, <1>3 DEF Star, Shown
<1>5. Claims' = Claims  BY <1>2 DEF Claims, Recorded
<1>6. ClaimsInv' /\ SessionsInv'  BY <1>1, <1>2, <1>5 DEF Agreed, ClaimsInv, SessionsInv
<1>7. LiveInv'  BY <1>1, <1>2 DEF Agreed, LiveInv
<1>8. Comparable' /\ NothingHangs'  BY <1>1, <1>2 DEF Agreed, Comparable, NothingHangs
<1>9. Starred'  BY <1>4 DEF Starred
<1>10. HistoryOwned'  BY <1>1, <1>2 DEF Agreed, HistoryOwned
<1>. QED  BY <1>4, <1>6, <1>7, <1>8, <1>9, <1>10 DEF Agreed

\* Rows of which only stars are changed, or that go, or are edited, claim no
\* more.
LEMMA ClaimsLess ==
    ASSUME saving' = saving, DOMAIN rows' \subseteq DOMAIN rows,
           \A i \in DOMAIN rows' : ~rows'[i].edited =>
              ~rows[i].edited /\ rows'[i].text = rows[i].text /\ rows'[i].target = rows[i].target
    PROVE  Claims' \subseteq Claims
<1>1. SUFFICES ASSUME NEW c \in Claims' PROVE c \in Claims  OBVIOUS
<1>2. CASE \E i \in Recorded' :
              c = [session |-> i[1], text |-> rows'[i].text, target |-> rows'[i].target]
  <2>1. PICK i \in Recorded' :
              c = [session |-> i[1], text |-> rows'[i].text, target |-> rows'[i].target]
    BY <1>2
  <2>2. i \in Recorded /\ rows'[i].text = rows[i].text /\ rows'[i].target = rows[i].target
    BY <2>1 DEF Recorded
  <2>. QED  BY <2>1, <2>2 DEF Claims
<1>3. CASE \E q \in saving' : c = [session |-> q.session, text |-> q.text, target |-> q.target]
  BY <1>3 DEF Claims
<1>. QED  BY <1>1, <1>2, <1>3 DEF Claims

\* The star lands on its row, and its answer is still to come.
LEMMA ToggleSetsAgreed ==
    ASSUME SessionInv, ToggleSets
    PROVE  /\ Agreed' /\ toggle' \in Star
           /\ DOMAIN rows' = DOMAIN rows /\ rows' \in [DOMAIN rows' -> Row]
<1>1. Agreed /\ TypeOK /\ toggle # None /\ toggle \in Star
  BY DEF SessionInv, TypeOK, ToggleSets
<1>2. /\ Toggled \in DOMAIN rows
      /\ rows' = [rows EXCEPT ![Toggled].favorite = toggle.favorite]
      /\ stale' = stale \ {Toggled} /\ toggle' = [toggle EXCEPT !.set = TRUE]
      /\ submitting' = submitting /\ ~toggle.set
      /\ UNCHANGED <<run, key, requests, session, live, waiting, saving, history, strayed>>
  BY DEF ToggleSets, view
<1>3. /\ toggle' \in Star /\ toggle'.set /\ toggle'.session = toggle.session
      /\ toggle'.service = toggle.service /\ toggle'.favorite = toggle.favorite
      /\ toggle.favorite \in BOOLEAN
  BY <1>1, <1>2 DEF Star
<1>4. Toggled' = Toggled  BY <1>3 DEF Toggled
<1>. DEFINE id == Toggled
            star == toggle.favorite
<1>. HIDE DEF id, star
<1>5. id \in DOMAIN rows /\ rows' = [rows EXCEPT ![id].favorite = star] /\ star \in BOOLEAN
  BY <1>2, <1>3 DEF id, star
<1>6. rows \in [DOMAIN rows -> Row]  BY <1>1 DEF TypeOK
<1>7. rows[id] \in Row  BY <1>5, <1>6
<1>. DEFINE row == [rows[id] EXCEPT !.favorite = star]
<1>8. /\ row \in Row /\ row.text = rows[id].text /\ row.target = rows[id].target
      /\ row.edited = rows[id].edited /\ row.favorite = star
  BY <1>5, <1>7 DEF Row
<1>9. rows' = [rows EXCEPT ![id] = row]  BY <1>5
<1>. HIDE DEF row
<1>10. /\ DOMAIN rows' = DOMAIN rows /\ rows' \in [DOMAIN rows' -> Row] /\ rows'[id] = row
       /\ \A i \in DOMAIN rows : i # id => rows'[i] = rows[i]
  BY <1>5, <1>6, <1>8, <1>9
<1>11. LiveInv' /\ SessionsInv'  BY <1>1, <1>2 DEF Agreed, LiveInv, SessionsInv
<1>12. ClaimsInv'
  <2>1. \A i \in DOMAIN rows' :
            /\ rows'[i].edited = rows[i].edited
            /\ rows'[i].text = rows[i].text /\ rows'[i].target = rows[i].target
    BY <1>8, <1>10
  <2>2. Claims' \subseteq Claims  BY <1>2, <1>10, <2>1, ClaimsLess
  <2>3. ClaimsInv /\ \A c \in Claims : c.session <= requests'
    BY <1>1, <1>2 DEF Agreed, ClaimsInv
  <2>. QED  BY <1>2, <2>2, <2>3, ClaimsStay
<1>13. Comparable' /\ NothingHangs'  BY <1>1, <1>2 DEF Agreed, Comparable, NothingHangs
<1>14. Starred'
  BY <1>3, <1>4, <1>5, <1>8, <1>10 DEF Starred, id, star
<1>15. HistoryOwned'
  <2>1. ASSUME NEW s \in DOMAIN history
        PROVE  LET i == <<history[s].session, s>>
               IN  /\ s \in strayed' \/ history[s].session = session'
                   /\ \/ i \in stale'
                      \/ toggle' # None /\ toggle'.set /\ Toggled' = i
                      \/ i \in DOMAIN rows' /\ rows'[i].favorite = history[s].favorite
    <3>. DEFINE i == <<history[s].session, s>>
    <3>1. s \in strayed' \/ history[s].session = session'
      BY <1>1, <1>2 DEF Agreed, HistoryOwned
    <3>2. i \in stale \/ (i \in DOMAIN rows /\ rows[i].favorite = history[s].favorite)
      BY <1>1, <1>2 DEF Agreed, HistoryOwned
    <3>3. toggle' # None  BY <1>2, <1>3, NoneAssumption
    <3>. HIDE DEF i
    <3>4. CASE i = id  BY <1>3, <1>4, <3>1, <3>3, <3>4 DEF id, i
    <3>5. CASE i # id  BY <1>2, <1>10, <3>1, <3>2, <3>5 DEF id, i
    <3>. QED  BY <3>4, <3>5
  <2>. QED  BY <1>2, <2>1 DEF HistoryOwned
<1>. QED  BY <1>3, <1>10, <1>11, <1>12, <1>13, <1>14, <1>15 DEF Agreed

\* The star that was set is shown for its service.
LEMMA ToggleSavedAgreed ==
    ASSUME SessionInv, ToggleSaved
    PROVE  /\ Agreed'
           /\ DOMAIN history' \subseteq Services /\ history' \in [DOMAIN history' -> Shown]
<1>1. Agreed /\ TypeOK /\ toggle # None /\ toggle.set /\ toggle \in Star
  BY DEF SessionInv, TypeOK, ToggleSaved
<1>. DEFINE shown == [session |-> toggle.session, favorite |-> toggle.favorite]
<1>2. /\ toggle.service \in Services /\ shown \in Shown
      /\ shown.session = toggle.session /\ shown.favorite = toggle.favorite
  BY <1>1 DEF Star, Shown
<1>3. /\ history' = Put(history, toggle.service, shown)
      /\ strayed' = (IF toggle.session = session THEN strayed \ {toggle.service}
                     ELSE strayed \cup {toggle.service})
      /\ toggle' = None /\ submitting' = submitting
      /\ UNCHANGED <<run, key, requests, session, live, waiting, saving, rows, stale>>
  BY DEF ToggleSaved, view
<1>. HIDE DEF shown
<1>4. /\ DOMAIN history' \subseteq Services /\ history' \in [DOMAIN history' -> Shown]
      /\ \A s \in DOMAIN history' :
            \/ s = toggle.service /\ history'[s] = shown
            \/ s \in DOMAIN history /\ history'[s] = history[s] /\ s # toggle.service
  <2>1. history \in [DOMAIN history -> Shown] /\ DOMAIN history \subseteq Services
    BY <1>1 DEF TypeOK
  <2>. QED  BY <1>2, <1>3, <2>1 DEF Put
<1>5. Claims' = Claims  BY <1>3 DEF Claims, Recorded
<1>6. ClaimsInv' /\ SessionsInv'  BY <1>1, <1>3, <1>5 DEF Agreed, ClaimsInv, SessionsInv
<1>7. LiveInv'  BY <1>1, <1>3 DEF Agreed, LiveInv
<1>8. Comparable' /\ NothingHangs'  BY <1>1, <1>3 DEF Agreed, Comparable, NothingHangs
<1>9. Starred'  BY <1>3 DEF Starred
<1>10. HistoryOwned'
  <2>1. ASSUME NEW s \in DOMAIN history'
        PROVE  LET i == <<history'[s].session, s>>
               IN  /\ s \in strayed' \/ history'[s].session = session'
                   /\ i \in stale' \/ (i \in DOMAIN rows' /\ rows'[i].favorite = history'[s].favorite)
    <3>1. CASE s = toggle.service /\ history'[s] = shown
      <4>1. s \in strayed' \/ history'[s].session = session'  BY <1>2, <1>3, <3>1
      <4>2. <<history'[s].session, s>> = Toggled  BY <1>2, <3>1 DEF Toggled
      <4>3. Toggled \in stale \/ (Toggled \in DOMAIN rows /\ rows[Toggled].favorite = toggle.favorite)
        BY <1>1 DEF Agreed, Starred
      <4>. QED  BY <1>2, <1>3, <3>1, <4>1, <4>2, <4>3
    <3>2. CASE s \in DOMAIN history /\ history'[s] = history[s] /\ s # toggle.service
      <4>. DEFINE i == <<history[s].session, s>>
      <4>1. s \in strayed' \/ history'[s].session = session'
        BY <1>1, <1>3, <3>2 DEF Agreed, HistoryOwned
      <4>2. Toggled # i  BY <3>2 DEF Toggled
      <4>3. i \in stale \/ (i \in DOMAIN rows /\ rows[i].favorite = history[s].favorite)
        BY <1>1, <3>2, <4>2 DEF Agreed, HistoryOwned
      <4>. QED  BY <1>3, <3>2, <4>1, <4>3
    <3>. QED  BY <1>4, <3>1, <3>2
  <2>. QED  BY <2>1 DEF HistoryOwned
<1>. QED  BY <1>4, <1>6, <1>7, <1>8, <1>9, <1>10 DEF Agreed

\* A star that was set and is not shown leaves its row stale.
LEMMA ToggleFailsAgreed ==
    ASSUME SessionInv, ToggleFails
    PROVE  Agreed' /\ stale' \subseteq (1 .. MaxSubmits) \X Services
<1>1. Agreed /\ TypeOK /\ toggle # None /\ toggle \in Star
  BY DEF SessionInv, TypeOK, ToggleFails
<1>2. /\ toggle' = None /\ submitting' = submitting
      /\ stale' = (IF toggle.set THEN stale \cup {Toggled} ELSE stale)
      /\ UNCHANGED <<run, key, requests, session, live, waiting, saving, history, rows, strayed>>
  BY DEF ToggleFails, view
<1>3. Claims' = Claims  BY <1>2 DEF Claims, Recorded
<1>4. ClaimsInv' /\ SessionsInv'  BY <1>1, <1>2, <1>3 DEF Agreed, ClaimsInv, SessionsInv
<1>5. LiveInv'  BY <1>1, <1>2 DEF Agreed, LiveInv
<1>6. Comparable' /\ NothingHangs'  BY <1>1, <1>2 DEF Agreed, Comparable, NothingHangs
<1>7. Starred' /\ HistoryOwned'  BY <1>1, <1>2 DEF Agreed, Starred, HistoryOwned
<1>8. Toggled \in (1 .. MaxSubmits) \X Services  BY <1>1 DEF Star, Toggled
<1>9. stale' \subseteq (1 .. MaxSubmits) \X Services  BY <1>1, <1>2, <1>8 DEF TypeOK
<1>. QED  BY <1>4, <1>5, <1>6, <1>7, <1>9 DEF Agreed

\* What another window does to a row leaves it stale, or its star as it was.
LEMMA ElsewhereAgreed ==
    ASSUME SessionInv, Elsewhere
    PROVE  /\ Agreed'
           /\ DOMAIN rows' \subseteq (1 .. MaxSubmits) \X Services
           /\ rows' \in [DOMAIN rows' -> Row]
           /\ stale' \subseteq (1 .. MaxSubmits) \X Services
<1>1. Agreed /\ TypeOK  BY DEF SessionInv
<1>2. /\ submitting' = submitting
      /\ UNCHANGED <<run, key, requests, session, live, waiting, saving, toggle, history, strayed>>
  BY DEF Elsewhere, view
<1>3. /\ rows \in [DOMAIN rows -> Row] /\ DOMAIN rows \subseteq (1 .. MaxSubmits) \X Services
      /\ stale \subseteq (1 .. MaxSubmits) \X Services
  BY <1>1 DEF TypeOK
<1>4. PICK id \in DOMAIN rows :
         \/ /\ \E t \in Texts : rows' = [rows EXCEPT ![id].text = t, ![id].edited = TRUE]
            /\ UNCHANGED stale
         \/ /\ \/ rows' = [rows EXCEPT ![id].favorite = ~@]
               \/ rows' = Restrict(rows, DOMAIN rows \ {id})
            /\ stale' = stale \cup {id}
  BY DEF Elsewhere
<1>5. rows[id] \in Row  BY <1>3
<1>6. /\ rows' \in [DOMAIN rows' -> Row] /\ DOMAIN rows' \subseteq DOMAIN rows
      /\ stale \subseteq stale' /\ stale' \subseteq stale \cup {id}
      /\ \A i \in DOMAIN rows' : ~rows'[i].edited =>
            ~rows[i].edited /\ rows'[i].text = rows[i].text /\ rows'[i].target = rows[i].target
      /\ \A i \in DOMAIN rows :
            i \in stale' \/ (i \in DOMAIN rows' /\ rows'[i].favorite = rows[i].favorite)
  <2>1. CASE /\ \E t \in Texts : rows' = [rows EXCEPT ![id].text = t, ![id].edited = TRUE]
             /\ UNCHANGED stale
    <3>1. PICK t \in Texts : rows' = [rows EXCEPT ![id].text = t, ![id].edited = TRUE]
      BY <2>1
    <3>. DEFINE row == [rows[id] EXCEPT !.text = t, !.edited = TRUE]
    <3>2. row \in Row /\ row.edited /\ row.favorite = rows[id].favorite
      BY <1>5 DEF Row
    <3>3. rows' = [rows EXCEPT ![id] = row]  BY <1>3, <1>5, <3>1 DEF Row
    <3>. HIDE DEF row
    <3>4. DOMAIN rows' = DOMAIN rows /\ rows' \in [DOMAIN rows' -> Row] /\ rows'[id] = row
          /\ \A i \in DOMAIN rows : i # id => rows'[i] = rows[i]
      BY <1>3, <3>2, <3>3
    <3>. QED  BY <2>1, <3>2, <3>4
  <2>2. CASE rows' = [rows EXCEPT ![id].favorite = ~@] /\ stale' = stale \cup {id}
    <3>. DEFINE row == [rows[id] EXCEPT !.favorite = ~rows[id].favorite]
    <3>1. /\ row \in Row /\ row.text = rows[id].text /\ row.target = rows[id].target
          /\ row.edited = rows[id].edited
      BY <1>5 DEF Row
    <3>2. rows' = [rows EXCEPT ![id] = row]  BY <2>2
    <3>. HIDE DEF row
    <3>3. DOMAIN rows' = DOMAIN rows /\ rows' \in [DOMAIN rows' -> Row] /\ rows'[id] = row
          /\ \A i \in DOMAIN rows : i # id => rows'[i] = rows[i]
      BY <1>3, <3>1, <3>2
    <3>. QED  BY <2>2, <3>1, <3>3
  <2>3. CASE rows' = Restrict(rows, DOMAIN rows \ {id}) /\ stale' = stale \cup {id}
    BY <1>3, <2>3 DEF Restrict
  <2>. QED  BY <1>4, <2>1, <2>2, <2>3
<1>7. ClaimsInv'
  <2>1. Claims' \subseteq Claims  BY <1>2, <1>6, ClaimsLess
  <2>2. ClaimsInv /\ \A c \in Claims : c.session <= requests'
    BY <1>1, <1>2 DEF Agreed, ClaimsInv
  <2>. QED  BY <1>2, <2>1, <2>2, ClaimsStay
<1>8. LiveInv' /\ SessionsInv'  BY <1>1, <1>2 DEF Agreed, LiveInv, SessionsInv
<1>9. Comparable' /\ NothingHangs'  BY <1>1, <1>2 DEF Agreed, Comparable, NothingHangs
<1>10. Toggled' = Toggled  BY <1>2 DEF Toggled
<1>11. Starred'  BY <1>1, <1>2, <1>6, <1>10 DEF Agreed, Starred
<1>12. HistoryOwned'  BY <1>1, <1>2, <1>6, <1>10 DEF Agreed, HistoryOwned
<1>. QED  BY <1>3, <1>6, <1>7, <1>8, <1>9, <1>11, <1>12 DEF Agreed

-----------------------------------------------------------------------------
(* The session: every step keeps it                                        *)

LEMMA NothingYet == ASSUME NEW Y PROVE <<>> \in [DOMAIN <<>> -> Y] /\ DOMAIN <<>> = {}
OBVIOUS

LEMMA SessionBegins ==
    ASSUME Init
    PROVE  SessionInv
<1>1. /\ catalog = "loading" /\ query = [text |-> "", source |-> "auto", target |-> "auto"]
      /\ selected = None /\ run = None /\ key = None /\ requests = 0 /\ session = None
      /\ live = None /\ waiting = {} /\ saving = {} /\ toggle = None /\ stale = {}
      /\ history = <<>> /\ rows = <<>> /\ strayed = {} /\ ops = 0
  BY DEF Init
<1>2. submitting = FALSE  BY DEF Init
<1>3. query \in Query  BY <1>1 DEF Query, Choice
<1>4. rows \in [DOMAIN rows -> Row] /\ DOMAIN rows = {}  BY <1>1, NothingYet
<1>5. history \in [DOMAIN history -> Shown] /\ DOMAIN history = {}  BY <1>1, NothingYet
<1>6. requests \in 0 .. MaxSubmits /\ ops \in 0 .. MaxOps
  <2>1. requests = 0 /\ ops = 0  BY <1>1
  <2>. QED  BY <2>1, Bounded
<1>7. submitting \in BOOLEAN  BY <1>2
<1>8. TypeOK  BY <1>1, <1>3, <1>4, <1>5, <1>6, <1>7 DEF TypeOK
<1>9. Claims = {}  BY <1>1, <1>4 DEF Claims, Recorded
<1>10. ClaimsInv  BY <1>9 DEF ClaimsInv
<1>11. LiveInv /\ SessionsInv /\ Comparable  BY <1>1 DEF LiveInv, SessionsInv, Comparable
<1>12. NothingHangs  BY <1>1, <1>2 DEF NothingHangs
<1>13. Starred /\ HistoryOwned  BY <1>1, <1>5 DEF Starred, HistoryOwned, Toggled
<1>. QED  BY <1>8, <1>10, <1>11, <1>12, <1>13 DEF SessionInv, Agreed

\* An action of the user is counted.
LEMMA ActTyped ==
    ASSUME TypeOK, Act
    PROVE  ops' \in 0 .. MaxOps
<1>1. ops \in 0 .. MaxOps /\ ops < MaxOps /\ ops' = ops + 1  BY DEF TypeOK, Act
<1>. QED  BY <1>1, Bounded

\* What the user chooses in the view is a query.
LEMMA ChangedQuery ==
    ASSUME query \in Query, NEW x \in Choice, NEW y \in Choice, NEW t \in Texts \cup {""}
    PROVE  /\ [query EXCEPT !.text = t] \in Query
           /\ [query EXCEPT !.source = x] \in Query
           /\ [query EXCEPT !.target = x] \in Query
           /\ [query EXCEPT !.source = x, !.target = y] \in Query
BY DEF Query

LEMMA EditKept ==
    ASSUME SessionInv, NEW q \in Query, Edit(q)
    PROVE  SessionInv'
<1>1. TypeOK /\ Agreed  BY DEF SessionInv
<1>2. ops' \in 0 .. MaxOps  BY <1>1, ActTyped DEF Edit
<1>3. /\ query' = q
      /\ UNCHANGED <<catalog, selected, key, requests, session, records>>
  BY DEF Edit
<1>4. CASE submitting
  <2>1. Cancel  BY <1>4 DEF Edit
  <2>2. Agreed'  BY <1>3, <2>1, CancelAgreed
  <2>3. /\ live' = None /\ waiting' \subseteq 1 .. MaxSubmits /\ submitting' = FALSE
        /\ run' # None => run' \in Run
    BY <1>1, <2>1, CancelTyped DEF Alike
  <2>4. submitting' \in BOOLEAN  BY <2>3
  <2>5. TypeOK'  BY <1>1, <1>2, <1>3, <2>3, <2>4 DEF TypeOK, records
  <2>. QED  BY <2>2, <2>5 DEF SessionInv
<1>5. CASE ~submitting
  <2>1. UNCHANGED <<live, waiting, run>>  BY <1>5 DEF Edit
  <2>2. submitting' = submitting  BY <1>5 DEF Edit
  <2>3. Agreed'  BY <1>1, <1>3, <2>1, <2>2, NothingMoves
  <2>4. submitting' \in BOOLEAN  BY <1>1, <2>2 DEF TypeOK
  <2>5. TypeOK'  BY <1>1, <1>2, <1>3, <2>1, <2>4 DEF TypeOK, records
  <2>. QED  BY <2>3, <2>5 DEF SessionInv
<1>. QED  BY <1>4, <1>5

LEMMA SubmitKept ==
    ASSUME SessionInv, NEW reuse \in BOOLEAN, NEW s \in Services, Submit(reuse, s), Act,
           selected' \in Services
    PROVE  SessionInv'
<1>1. TypeOK  BY DEF SessionInv
<1>2. /\ requests' \in 1 .. MaxSubmits /\ session' \in 1 .. MaxSubmits /\ key' \in Query
      /\ run' # None => run' \in Run
      /\ live' \in Subscription
  BY SubmitTyped
<1>3. /\ UNCHANGED <<catalog, query, saving, toggle, rows, stale>>
      /\ history' = (IF Keeps(reuse) THEN history ELSE <<>>)
      /\ strayed' = (IF Keeps(reuse) THEN strayed ELSE {})
      /\ waiting' = (waiting \ {requests}) \cup {requests'}
  BY DEF Submit
<1>4. submitting' = TRUE  BY DEF Submit
<1>5. submitting' \in BOOLEAN  BY <1>4
<1>6. DOMAIN history' \subseteq Services /\ history' \in [DOMAIN history' -> Shown]
  <2>1. CASE Keeps(reuse)  BY <1>1, <1>3, <2>1 DEF TypeOK
  <2>2. CASE ~Keeps(reuse)
    <3>1. history' = <<>>  BY <1>3, <2>2
    <3>. QED  BY <3>1
  <2>. QED  BY <2>1, <2>2
<1>7. waiting' \subseteq 1 .. MaxSubmits /\ strayed' \subseteq Services
  BY <1>1, <1>2, <1>3 DEF TypeOK
<1>8. ops' \in 0 .. MaxOps  BY <1>1, ActTyped
<1>9. requests' \in 0 .. MaxSubmits  BY <1>2, Bounded
<1>10. selected' # None /\ catalog' = "ready"  BY <1>3, SessionAssumption DEF Submit
<1>11. TypeOK'  BY <1>1, <1>2, <1>3, <1>5, <1>6, <1>7, <1>8, <1>9, <1>10 DEF TypeOK
<1>12. Agreed'  BY SubmitAgreed
<1>. QED  BY <1>11, <1>12 DEF SessionInv

LEMMA UserKept ==
    ASSUME SessionInv, User
    PROVE  SessionInv'
<1>1. TypeOK /\ Agreed /\ query \in Query  BY DEF SessionInv, TypeOK
<1>2. CASE Edits
  <2>1. PICK q \in Query : Edit(q)
    <3>1. "auto" \in Choice  BY DEF Choice
    <3>. QED  BY <1>1, <1>2, <3>1, ChangedQuery DEF Edits
  <2>. QED  BY <2>1, EditKept
<1>3. CASE Stop
  <2>1. Cancel /\ UNCHANGED <<catalog, query, selected, key, requests, session, records>>
    BY <1>3 DEF Stop
  <2>2. Agreed'  BY <2>1, CancelAgreed
  <2>3. /\ live' = None /\ waiting' \subseteq 1 .. MaxSubmits /\ submitting' = FALSE
        /\ run' # None => run' \in Run
    BY <1>1, <2>1, CancelTyped DEF Alike
  <2>4. submitting' \in BOOLEAN  BY <2>3
  <2>5. ops' \in 0 .. MaxOps  BY <1>1, <1>3, ActTyped DEF Stop
  <2>6. TypeOK'  BY <1>1, <2>1, <2>3, <2>4, <2>5 DEF TypeOK, records
  <2>. QED  BY <2>2, <2>6 DEF SessionInv
<1>4. CASE ClearSourceText
  <2>1. Agreed'  BY <1>4, ClearAgreed
  <2>2. /\ live' = None /\ run' = None /\ key' = None /\ session' = None /\ history' = <<>>
        /\ strayed' = {} /\ waiting' = waiting \ {requests}
        /\ query' = [query EXCEPT !.text = ""]
        /\ UNCHANGED <<catalog, selected, requests, saving, toggle, rows, stale>>
    BY <1>4 DEF ClearSourceText
  <2>3. submitting' \in BOOLEAN  BY <1>4 DEF ClearSourceText
  <2>4. ops' \in 0 .. MaxOps  BY <1>1, <1>4, ActTyped DEF ClearSourceText
  <2>5. query' \in Query  BY <1>1, <2>2 DEF Query
  <2>6. history' \in [DOMAIN history' -> Shown] /\ DOMAIN history' = {}
    BY <2>2, NothingYet
  <2>7. TypeOK'  BY <1>1, <2>2, <2>3, <2>4, <2>5, <2>6 DEF TypeOK
  <2>. QED  BY <2>1, <2>7 DEF SessionInv
<1>5. CASE SwapLanguages
  <2>1. /\ UNCHANGED <<catalog, selected, run, key, requests, session, live, waiting, records>>
        /\ \E x, y \in Choice : query' = [query EXCEPT !.source = x, !.target = y]
    <3>1. run # None => run.target \in Choice /\ run.detected \in Choice \cup {None}
      BY <1>1 DEF TypeOK, Run, Choice
    <3>2. query.source \in Choice /\ query.target \in Choice /\ DefaultTarget \in Choice
      BY <1>1, SessionAssumption DEF Query, Choice
    <3>. DEFINE detected == IF run = None THEN None ELSE run.detected
                old == IF query.target # "auto" THEN query.target
                       ELSE IF run = None THEN DefaultTarget ELSE run.target
                new == IF query.source # "auto" THEN query.source
                       ELSE IF detected = None THEN DefaultTarget ELSE detected
    <3>3. old \in Choice /\ new \in Choice  BY <3>1, <3>2
    <3>4. query' = [query EXCEPT !.source = old, !.target = new]
      BY <1>5 DEF SwapLanguages
    <3>. HIDE DEF old, new
    <3>5. UNCHANGED <<catalog, selected, run, key, requests, session, live, waiting, records>>
      BY <1>5 DEF SwapLanguages
    <3>. QED  BY <3>3, <3>4, <3>5
  <2>2. submitting' = submitting  BY <1>5 DEF SwapLanguages
  <2>3. query' \in Query  BY <1>1, <2>1 DEF Query
  <2>4. ops' \in 0 .. MaxOps  BY <1>1, <1>5, ActTyped DEF SwapLanguages
  <2>5. Agreed'  BY <1>1, <2>1, <2>2, NothingMoves
  <2>6. submitting' \in BOOLEAN  BY <1>1, <2>2 DEF TypeOK
  <2>7. TypeOK'  BY <1>1, <2>1, <2>3, <2>4, <2>6 DEF TypeOK, records
  <2>. QED  BY <2>5, <2>7 DEF SessionInv
<1>6. CASE Translate
  <2>1. Submit(FALSE, selected) /\ Act /\ selected' = selected  BY <1>6 DEF Translate
  <2>2. selected \in Services  BY <1>1, <2>1 DEF TypeOK, Submit
  <2>. QED  BY <2>1, <2>2, SubmitKept
<1>7. CASE Toggle
  <2>1. Agreed' /\ toggle' \in Star  BY <1>7, ToggleAgreed
  <2>2. UNCHANGED <<view, saving, history, rows, stale, strayed>>  BY <1>7 DEF Toggle
  <2>3. ops' \in 0 .. MaxOps  BY <1>1, <1>7, ActTyped DEF Toggle
  <2>4. submitting' \in BOOLEAN  BY <1>1, <2>2 DEF TypeOK, view
  <2>5. TypeOK'  BY <1>1, <2>1, <2>2, <2>3, <2>4 DEF TypeOK, view
  <2>. QED  BY <2>1, <2>5 DEF SessionInv
<1>8. CASE \E s \in Services : SelectCached(s)
  <2>1. PICK s \in Services : SelectCached(s)  BY <1>8
  <2>2. /\ selected' = s
        /\ UNCHANGED <<catalog, query, run, key, requests, session, live, waiting, records>>
    BY <2>1 DEF SelectCached
  <2>3. submitting' = submitting  BY <2>1 DEF SelectCached
  <2>4. ops' \in 0 .. MaxOps  BY <1>1, <2>1, ActTyped DEF SelectCached
  <2>5. Agreed'  BY <1>1, <2>2, <2>3, NothingMoves
  <2>6. submitting' \in BOOLEAN  BY <1>1, <2>3 DEF TypeOK
  <2>7. selected' # None /\ catalog' = "ready"  BY <2>1, <2>2, SessionAssumption DEF SelectCached
  <2>8. TypeOK'  BY <1>1, <2>2, <2>4, <2>6, <2>7 DEF TypeOK, records
  <2>. QED  BY <2>5, <2>8 DEF SessionInv
<1>9. CASE \E s \in Services : SelectAsks(s)
  <2>1. PICK s \in Services : SelectAsks(s)  BY <1>9
  <2>2. Submit(TRUE, s) /\ Act /\ selected' = s  BY <2>1 DEF SelectAsks
  <2>. QED  BY <2>2, SubmitKept
<1>10. CASE Elsewhere
  <2>1. /\ Agreed'
        /\ DOMAIN rows' \subseteq (1 .. MaxSubmits) \X Services
        /\ rows' \in [DOMAIN rows' -> Row]
        /\ stale' \subseteq (1 .. MaxSubmits) \X Services
    BY <1>10, ElsewhereAgreed
  <2>2. UNCHANGED <<view, saving, toggle, history, strayed>>  BY <1>10 DEF Elsewhere
  <2>3. ops' \in 0 .. MaxOps  BY <1>1, <1>10, ActTyped DEF Elsewhere
  <2>4. submitting' \in BOOLEAN  BY <1>1, <2>2 DEF TypeOK, view
  <2>5. TypeOK'  BY <1>1, <2>1, <2>2, <2>3, <2>4 DEF TypeOK, view
  <2>. QED  BY <2>1, <2>5 DEF SessionInv
<1>. QED  BY <1>2, <1>3, <1>4, <1>5, <1>6, <1>7, <1>8, <1>9, <1>10 DEF User

LEMMA TranslationKept ==
    ASSUME SessionInv, Translation
    PROVE  SessionInv'
<1>1. TypeOK  BY DEF SessionInv
<1>2. CASE Starts
  <2>1. Agreed' /\ live' \in Subscription /\ run' \in Run  BY <1>2, StartsAgreed
  <2>2. UNCHANGED <<catalog, query, selected, key, requests, session, waiting, records, ops>>
    BY <1>2 DEF Starts
  <2>3. submitting' \in BOOLEAN  BY <1>2 DEF Starts
  <2>4. TypeOK'  BY <1>1, <2>1, <2>2, <2>3 DEF TypeOK, records
  <2>. QED  BY <2>1, <2>4 DEF SessionInv
<1>3. CASE Finishes
  <2>1. Agreed' /\ live' \in Subscription /\ run' \in Run  BY <1>3, FinishesAgreed
  <2>2. UNCHANGED <<catalog, query, selected, key, requests, session, waiting, records, ops>>
    BY <1>3 DEF Finishes
  <2>3. submitting' \in BOOLEAN  BY <1>3 DEF Finishes
  <2>4. TypeOK'  BY <1>1, <2>1, <2>2, <2>3 DEF TypeOK, records
  <2>. QED  BY <2>1, <2>4 DEF SessionInv
<1>4. CASE Completes
  <2>1. Agreed' /\ live' \in Subscription /\ saving' \subseteq Record
    BY <1>4, CompletesAgreed
  <2>2. UNCHANGED <<catalog, query, selected, run, key, requests, session, waiting,
                    toggle, history, rows, stale, strayed, ops>>
    BY <1>4 DEF Completes
  <2>3. submitting' \in BOOLEAN  BY <1>4 DEF Completes
  <2>4. TypeOK'  BY <1>1, <2>1, <2>2, <2>3 DEF TypeOK
  <2>. QED  BY <2>1, <2>4 DEF SessionInv
<1>5. CASE Done
  <2>1. Agreed'  BY <1>5, DoneAgreed
  <2>2. /\ live' = None /\ waiting' \subseteq waiting
        /\ UNCHANGED <<catalog, query, selected, run, key, requests, session, records, ops>>
    BY <1>5 DEF Done
  <2>3. submitting' \in BOOLEAN  BY <1>5 DEF Done
  <2>4. TypeOK'  BY <1>1, <2>2, <2>3 DEF TypeOK, records
  <2>. QED  BY <2>1, <2>4 DEF SessionInv
<1>. QED  BY <1>2, <1>3, <1>4, <1>5 DEF Translation

LEMMA RecordsKept ==
    ASSUME SessionInv,
           \/ \E r \in saving : RecordSaved(r) \/ RecordFails(r)
           \/ ToggleSets \/ ToggleSaved \/ ToggleFails
    PROVE  SessionInv'
<1>1. TypeOK  BY DEF SessionInv
<1>2. CASE \E r \in saving : RecordSaved(r)
  <2>1. PICK r \in saving : RecordSaved(r)  BY <1>2
  <2>2. /\ Agreed'
        /\ DOMAIN rows' \subseteq (1 .. MaxSubmits) \X Services
        /\ rows' \in [DOMAIN rows' -> Row]
        /\ DOMAIN history' \subseteq Services /\ history' \in [DOMAIN history' -> Shown]
    BY <2>1, RecordSavedAgreed
  <2>3. /\ UNCHANGED <<view, toggle, stale, ops>> /\ saving' \subseteq saving
        /\ strayed' \subseteq strayed
    BY <2>1 DEF RecordSaved
  <2>4. submitting' \in BOOLEAN  BY <1>1, <2>3 DEF TypeOK, view
  <2>5. TypeOK'  BY <1>1, <2>2, <2>3, <2>4 DEF TypeOK, view
  <2>. QED  BY <2>2, <2>5 DEF SessionInv
<1>3. CASE \E r \in saving : RecordFails(r)
  <2>1. PICK r \in saving : RecordFails(r)  BY <1>3
  <2>2. /\ Agreed'
        /\ DOMAIN rows' \subseteq (1 .. MaxSubmits) \X Services
        /\ rows' \in [DOMAIN rows' -> Row]
    BY <2>1, RecordFailsAgreed
  <2>3. UNCHANGED <<view, toggle, history, stale, strayed, ops>> /\ saving' \subseteq saving
    BY <2>1 DEF RecordFails
  <2>4. submitting' \in BOOLEAN  BY <1>1, <2>3 DEF TypeOK, view
  <2>5. TypeOK'  BY <1>1, <2>2, <2>3, <2>4 DEF TypeOK, view
  <2>. QED  BY <2>2, <2>5 DEF SessionInv
<1>4. CASE ToggleSets
  <2>1. Agreed' /\ toggle' \in Star /\ DOMAIN rows' = DOMAIN rows /\ rows' \in [DOMAIN rows' -> Row]
    BY <1>4, ToggleSetsAgreed
  <2>2. UNCHANGED <<view, saving, history, strayed, ops>> /\ stale' \subseteq stale
    BY <1>4 DEF ToggleSets
  <2>3. submitting' \in BOOLEAN  BY <1>1, <2>2 DEF TypeOK, view
  <2>4. TypeOK'  BY <1>1, <2>1, <2>2, <2>3 DEF TypeOK, view
  <2>. QED  BY <2>1, <2>4 DEF SessionInv
<1>5. CASE ToggleSaved
  <2>1. /\ Agreed'
        /\ DOMAIN history' \subseteq Services /\ history' \in [DOMAIN history' -> Shown]
    BY <1>5, ToggleSavedAgreed
  <2>2. UNCHANGED <<view, saving, rows, stale, ops>> /\ toggle' = None  BY <1>5 DEF ToggleSaved
  <2>3. strayed' \subseteq Services  BY <1>1, <1>5 DEF TypeOK, ToggleSaved, Star
  <2>4. submitting' \in BOOLEAN  BY <1>1, <2>2 DEF TypeOK, view
  <2>5. TypeOK'  BY <1>1, <2>1, <2>2, <2>3, <2>4 DEF TypeOK, view
  <2>. QED  BY <2>1, <2>5 DEF SessionInv
<1>6. CASE ToggleFails
  <2>1. Agreed' /\ stale' \subseteq (1 .. MaxSubmits) \X Services  BY <1>6, ToggleFailsAgreed
  <2>2. UNCHANGED <<view, saving, history, rows, strayed, ops>> /\ toggle' = None
    BY <1>6 DEF ToggleFails
  <2>3. submitting' \in BOOLEAN  BY <1>1, <2>2 DEF TypeOK, view
  <2>4. TypeOK'  BY <1>1, <2>1, <2>2, <2>3 DEF TypeOK, view
  <2>. QED  BY <2>1, <2>4 DEF SessionInv
<1>. QED  BY <1>2, <1>3, <1>4, <1>5, <1>6

LEMMA SessionKept == SessionInv /\ [Next]_vars => SessionInv'
<1>1. ASSUME SessionInv, [Next]_vars  PROVE SessionInv'
  <2>1. TypeOK /\ Agreed  BY <1>1 DEF SessionInv
  <2>2. CASE Initialize
    <3>1. /\ query' = [query EXCEPT !.source = "auto", !.target = "auto"]
          /\ selected' = (IF catalog' = "ready" THEN FirstService ELSE None)
          /\ catalog' \in {"ready", "empty"}
          /\ UNCHANGED <<run, key, requests, session, live, waiting, records, ops>>
      BY <2>2 DEF Initialize
    <3>2. submitting' = submitting  BY <2>2 DEF Initialize
    <3>3. "auto" \in Choice  BY DEF Choice
    <3>4. query' \in Query  BY <2>1, <3>1, <3>3 DEF TypeOK, Query
    <3>5. selected' \in Services \cup {None} /\ (catalog' = "ready" <=> selected' # None)
      BY <3>1, SessionAssumption
    <3>6. submitting' \in BOOLEAN  BY <2>1, <3>2 DEF TypeOK
    <3>7. TypeOK'  BY <2>1, <3>1, <3>4, <3>5, <3>6 DEF TypeOK, records
    <3>8. Agreed'  BY <2>1, <3>1, <3>2, NothingMoves
    <3>. QED  BY <3>7, <3>8 DEF SessionInv
  <2>3. CASE InitializeFails
    <3>1. /\ catalog' = "failed" /\ catalog = "loading"
          /\ UNCHANGED <<query, selected, run, key, requests, session, live, waiting, records, ops>>
      BY <2>3 DEF InitializeFails
    <3>2. submitting' = submitting  BY <2>3 DEF InitializeFails
    <3>3. submitting' \in BOOLEAN  BY <2>1, <3>2 DEF TypeOK
    <3>4. TypeOK'  BY <2>1, <3>1, <3>3 DEF TypeOK, records
    <3>5. Agreed'  BY <2>1, <3>1, <3>2, NothingMoves
    <3>. QED  BY <3>4, <3>5 DEF SessionInv
  <2>4. CASE UNCHANGED vars
    <3>1. UNCHANGED <<catalog, query, selected, run, key, requests, session, live, waiting,
                      records, ops>>
      BY <2>4 DEF vars, view
    <3>2. submitting' = submitting  BY <2>4 DEF vars, view
    <3>3. submitting' \in BOOLEAN  BY <2>1, <3>2 DEF TypeOK
    <3>4. TypeOK'  BY <2>1, <3>1, <3>3 DEF TypeOK, records
    <3>5. Agreed'  BY <2>1, <3>1, <3>2, NothingMoves
    <3>. QED  BY <3>4, <3>5 DEF SessionInv
  <2>. QED  BY <1>1, <2>2, <2>3, <2>4, UserKept, TranslationKept, RecordsKept DEF Next
<1>. QED  BY <1>1

-----------------------------------------------------------------------------
(* The decoder: what it makes of lines                                     *)

\* Induction over the numbers, said of a set of them.
LEMMA AllNumbers ==
    ASSUME NEW N, 0 \in N, \A n \in Nat : n \in N => n + 1 \in N PROVE \A n \in Nat : n \in N
<1>. SUFFICES ASSUME Nat \ N # {} PROVE FALSE
  OBVIOUS
<1>1. PICK m \in Nat \ N : \A n \in Nat \ N : ~(<<n, m>> \in OpToRel(<, Nat))
  BY NatLessThanWellFounded, WFMin
<1>2. \A n \in Nat \ N : ~(n < m)  BY <1>1 DEF OpToRel
<1>3. m - 1 \in Nat /\ (m - 1) + 1 = m /\ m - 1 < m  OBVIOUS
<1>. QED  BY <1>2, <1>3

AnyLine == Lines \cup {"garbage", "comment", "mangled"}

Decoding ==
    [data : Seq(AnyLine), chunks : Seq(AnyLine), lines : Nat, finished : BOOLEAN,
     error : {"none", "failed", "lost"}]

Started(pending) ==
    [data |-> pending, chunks |-> <<>>, lines |-> 0, finished |-> FALSE, error |-> "none"]

\* What is decoded of the lines before the n-th, one after the other.
Decodes(f, d, lines) ==
    /\ f \in [0 .. Len(lines) -> Decoding]
    /\ f[0] = d
    /\ \A n \in 1 .. Len(lines) : f[n] = D!Step(f[n - 1], lines[n])

LEMMA TakeTypes ==
    ASSUME NEW d \in Decoding, NEW record \in AnyLine
    PROVE  D!Take(d, record) \in Decoding
<1>1. Append(d.chunks, record) \in Seq(AnyLine)  BY DEF Decoding
<1>2. CASE record \in D!Failing  BY <1>2 DEF D!Take, D!Failing, Decoding
<1>3. CASE record = "note"  BY <1>3 DEF D!Take, D!Failing, Decoding
<1>4. CASE record \notin D!Failing /\ record # "note"
  <2>1. D!Take(d, record) = [d EXCEPT !.chunks = Append(d.chunks, record),
                                       !.finished = record \in D!Finishing]
    BY <1>4 DEF D!Take
  <2>2. (record \in D!Finishing) \in BOOLEAN  OBVIOUS
  <2>. QED  BY <1>1, <2>1, <2>2 DEF Decoding
<1>. QED  BY <1>2, <1>3, <1>4

LEMMA FlushTypes == ASSUME NEW d \in Decoding PROVE D!Flush(d) \in Decoding
<1>1. CASE d.data = <<>>  BY <1>1 DEF D!Flush
<1>2. CASE d.data # <<>>
  <2> DEFINE e == [d EXCEPT !.data = <<>>]
             record == IF Len(d.data) = 1 THEN Head(d.data) ELSE "garbage"
  <2>0. <<>> \in Seq(AnyLine)  OBVIOUS
  <2>1. e \in Decoding  BY <2>0 DEF Decoding
  <2>2. record \in AnyLine  BY <1>2 DEF Decoding, AnyLine
  <2>3. D!Flush(d) = D!Take(e, record)  BY <1>2 DEF D!Flush
  <2>. HIDE DEF e, record
  <2>. QED  BY <2>1, <2>2, <2>3, TakeTypes
<1>. QED  BY <1>1, <1>2

LEMMA LineTypes ==
    ASSUME NEW d \in Decoding, NEW line \in AnyLine PROVE D!Line(d, line) \in Decoding
<1>1. D!Line(d, line) \in {d, D!Flush(d), D!Take(d, "garbage"), D!Take(d, line),
                           [d EXCEPT !.data = Append(d.data, line)]}
  BY DEF D!Line
<1>2. [d EXCEPT !.data = Append(d.data, line)] \in Decoding
  <2>1. Append(d.data, line) \in Seq(AnyLine)  BY DEF Decoding
  <2>. QED  BY <2>1 DEF Decoding
<1>3. "garbage" \in AnyLine  BY DEF AnyLine
<1>. QED  BY <1>1, <1>2, <1>3, FlushTypes, TakeTypes

LEMMA StepTypes ==
    ASSUME NEW d \in Decoding, NEW line \in AnyLine PROVE D!Step(d, line) \in Decoding
<1>1. CASE d.finished \/ d.error # "none"  BY <1>1 DEF D!Step
<1>2. CASE ~(d.finished \/ d.error # "none")
  <2> DEFINE e == IF line = "mangled" THEN [d EXCEPT !.error = "lost"] ELSE D!Line(d, line)
  <2>1. e \in Decoding
    <3>1. [d EXCEPT !.error = "lost"] \in Decoding  BY DEF Decoding
    <3>. QED  BY <3>1, LineTypes
  <2>2. D!Step(d, line) = [e EXCEPT !.lines = e.lines + 1]  BY <1>2 DEF D!Step
  <2>. HIDE DEF e
  <2>3. e.lines + 1 \in Nat  BY <2>1 DEF Decoding
  <2>. QED  BY <2>1, <2>2, <2>3 DEF Decoding
<1>. QED  BY <1>1, <1>2

LEMMA StartTypes == ASSUME NEW p \in Seq(AnyLine) PROVE Started(p) \in Decoding
BY DEF Started, Decoding

\* Decoding goes on from line to line, so the recursion defines something.
LEMMA Runs ==
    ASSUME NEW p \in Seq(AnyLine), NEW lines \in Seq(AnyLine)
    PROVE  \E f : Decodes(f, Started(p), lines) /\ D!Decode(p, lines) = f[Len(lines)]
<1> DEFINE d == Started(p)
           Chain(f, m) == f = [n \in 0 .. m |-> IF n = 0 THEN d ELSE D!Step(f[n - 1], lines[n])]
           N == {m \in Nat : \E f : Chain(f, m)}
<1>1. 0 \in N
  <2>1. Chain([n \in 0 .. 0 |-> d], 0)  OBVIOUS
  <2>. QED  BY <2>1
<1>2. ASSUME NEW m \in Nat, m \in N PROVE m + 1 \in N
  <2>1. PICK f : Chain(f, m)  BY <1>2
  <2> DEFINE g == [n \in 0 .. m + 1 |-> IF n = m + 1 THEN D!Step(f[m], lines[m + 1]) ELSE f[n]]
  <2>2. \A n \in 0 .. m : f[n] = IF n = 0 THEN d ELSE D!Step(f[n - 1], lines[n])  BY <2>1
  <2>3. \A n \in 0 .. m + 1 : g[n] = IF n = 0 THEN d ELSE D!Step(g[n - 1], lines[n])
    <3>. HIDE DEF d
    <3>. TAKE n \in 0 .. m + 1
    <3>1. CASE n = m + 1
      <4>1. g[m] = f[m] /\ g[n] = D!Step(f[m], lines[m + 1]) /\ n - 1 = m /\ n # 0  BY <3>1
      <4>. QED  BY <3>1, <4>1
    <3>2. CASE n # m + 1 /\ n # 0
      <4>1. n \in 0 .. m /\ n - 1 \in 0 .. m /\ n - 1 # m + 1  BY <3>2
      <4>2. g[n] = f[n] /\ g[n - 1] = f[n - 1]  BY <3>2, <4>1
      <4>. QED  BY <2>2, <3>2, <4>1, <4>2
    <3>3. CASE n = 0
      <4>1. g[n] = f[0] /\ f[0] = d  BY <2>2, <3>3
      <4>. QED  BY <3>3, <4>1
    <3>. QED  BY <3>1, <3>2, <3>3
  <2>4. Chain(g, m + 1)
    <3>1. g = [n \in 0 .. m + 1 |-> g[n]]  OBVIOUS
    <3>. HIDE DEF g, d
    <3>. QED  BY <2>3, <3>1
  <2>6. \E f_1 : Chain(f_1, m + 1)
    <3>. HIDE DEF g, Chain
    <3>. QED  BY <2>4
  <2>. HIDE DEF Chain
  <2>. QED  BY <2>6
<1>3. \A m \in Nat : m \in N
  <2>. HIDE DEF N
  <2>. QED  BY <1>1, <1>2, AllNumbers
<1>4. PICK f : Chain(f, Len(lines))
  <2>1. Len(lines) \in N
    <3>. HIDE DEF N
    <3>. QED  BY <1>3
  <2>. HIDE DEF Chain
  <2>. QED  BY <2>1
<1> DEFINE h == CHOOSE h : h = [n \in 0 .. Len(lines) |-> IF n = 0 THEN d ELSE D!Step(h[n - 1], lines[n])]
<1>5. h = [n \in 0 .. Len(lines) |-> IF n = 0 THEN d ELSE D!Step(h[n - 1], lines[n])]
  BY <1>4
<1>6. D!Decode(p, lines) = h[Len(lines)]  BY DEF D!Decode, Started
<1>. HIDE DEF h
<1>7. h[0] = d /\ \A n \in 1 .. Len(lines) : h[n] = D!Step(h[n - 1], lines[n])
  <2>. HIDE DEF d
  <2>1. \A n \in 0 .. Len(lines) : h[n] = IF n = 0 THEN d ELSE D!Step(h[n - 1], lines[n])
    BY <1>5
  <2>. QED  BY <2>1
<1>. DEFINE M == {m \in Nat : m <= Len(lines) => h[m] \in Decoding}
<1>8. \A m \in Nat : m \in M
  <2>1. 0 \in M  BY <1>7, StartTypes
  <2>2. ASSUME NEW m \in Nat, m \in M PROVE m + 1 \in M
    <3>1. CASE m + 1 <= Len(lines)
      <4>1. h[m] \in Decoding /\ lines[m + 1] \in AnyLine  BY <2>2, <3>1
      <4>2. m + 1 \in 1 .. Len(lines) /\ (m + 1) - 1 = m  BY <3>1
      <4>3. h[m + 1] = D!Step(h[m], lines[m + 1])  BY <1>7, <4>2
      <4>. QED  BY <4>1, <4>3, StepTypes
    <3>. QED  BY <3>1
  <2>. HIDE DEF M
  <2>. QED  BY <2>1, <2>2, AllNumbers
<1>9. \A m \in 0 .. Len(lines) : h[m] \in Decoding  BY <1>8
<1>10. h \in [0 .. Len(lines) -> Decoding]
  <2>1. h = [n \in 0 .. Len(lines) |-> h[n]]  BY <1>5
  <2>. QED  BY <1>9, <2>1
<1>. HIDE DEF d
<1>11. Decodes(h, d, lines)  BY <1>7, <1>10 DEF Decodes
<1>. QED  BY <1>6, <1>11 DEF d

-----------------------------------------------------------------------------
(* The decoder: its end                                                    *)

\* A finishing piece is the last one, and whoever finished has not failed.
Sound(d) ==
    /\ \A i \in 1 .. Len(d.chunks) :
          d.chunks[i] \in D!Finishing => i = Len(d.chunks) /\ d.finished
    /\ d.finished => /\ d.error = "none" /\ d.chunks # <<>>
                     /\ d.chunks[Len(d.chunks)] \in D!Finishing

Going(d) == ~d.finished /\ d.error = "none"

LEMMA TakeSound ==
    ASSUME NEW d \in Decoding, Sound(d), Going(d), NEW record \in AnyLine
    PROVE  /\ Sound(D!Take(d, record))
           /\ D!Take(d, record).data = d.data /\ D!Take(d, record).lines = d.lines
<1>1. CASE record \in D!Failing
  <2>1. D!Take(d, record) = [d EXCEPT !.error = "failed"]  BY <1>1 DEF D!Take, D!Failing
  <2>. QED  BY <2>1 DEF Decoding, Sound, Going
<1>2. CASE record = "note"
  <2>1. D!Take(d, record) = d  BY <1>2 DEF D!Take, D!Failing
  <2>. QED  BY <2>1
<1>3. CASE record \notin D!Failing /\ record # "note"
  <2>1. D!Take(d, record) = [d EXCEPT !.chunks = Append(d.chunks, record),
                                       !.finished = record \in D!Finishing]
    BY <1>3 DEF D!Take
  <2> DEFINE e == D!Take(d, record)
             c == Append(d.chunks, record)
  <2>2. e.chunks = c /\ (e.finished <=> record \in D!Finishing) /\ e.error = "none"
        /\ e.data = d.data /\ e.lines = d.lines
    BY <2>1 DEF Decoding, Going
  <2>3. /\ c \in Seq(AnyLine) /\ c # <<>> /\ Len(c) = Len(d.chunks) + 1 /\ Len(d.chunks) \in Nat
        /\ \A i \in 1 .. Len(d.chunks) : c[i] = d.chunks[i]
        /\ c[Len(c)] = record
    <3>1. d.chunks \in Seq(AnyLine)  BY DEF Decoding
    <3>. QED  BY <3>1, AppendProperties, LenProperties
  <2>4. \A i \in 1 .. Len(d.chunks) : d.chunks[i] \notin D!Finishing  BY DEF Sound, Going
  <2>. HIDE DEF e, c
  <2>5. \A i \in 1 .. Len(c) : c[i] \in D!Finishing => i = Len(c) /\ e.finished
    <3>. TAKE i \in 1 .. Len(c)
    <3>1. i \in 1 .. Len(d.chunks) \/ i = Len(c)  BY <2>3
    <3>. QED  BY <2>2, <2>3, <2>4, <3>1
  <2>6. Sound(e)  BY <2>2, <2>3, <2>5 DEF Sound
  <2>. QED  BY <2>2, <2>6 DEF e
<1>. QED  BY <1>1, <1>2, <1>3

LEMMA FlushSound ==
    ASSUME NEW d \in Decoding, Sound(d), Going(d)
    PROVE  /\ Sound(D!Flush(d)) /\ D!Flush(d).lines = d.lines /\ D!Flush(d).data = <<>>
<1>1. CASE d.data = <<>>  BY <1>1 DEF D!Flush
<1>2. CASE d.data # <<>>
  <2> DEFINE e == [d EXCEPT !.data = <<>>]
             record == IF Len(d.data) = 1 THEN Head(d.data) ELSE "garbage"
  <2>0. <<>> \in Seq(AnyLine)  OBVIOUS
  <2>1. e \in Decoding /\ Sound(e) /\ Going(e) /\ e.lines = d.lines /\ e.data = <<>>
    BY <2>0 DEF Decoding, Sound, Going
  <2>2. record \in AnyLine  BY <1>2 DEF Decoding, AnyLine
  <2>3. D!Flush(d) = D!Take(e, record)  BY <1>2 DEF D!Flush
  <2>. HIDE DEF e, record
  <2>. QED  BY <2>1, <2>2, <2>3, TakeSound
<1>. QED  BY <1>1, <1>2

LEMMA LineSound ==
    ASSUME NEW d \in Decoding, Sound(d), Going(d), NEW line \in AnyLine
    PROVE  /\ Sound(D!Line(d, line)) /\ D!Line(d, line).lines = d.lines
           /\ format = "lines" => D!Line(d, line).data = d.data
<1> DEFINE e == [d EXCEPT !.data = Append(d.data, line)]
<1>1. D!Line(d, line) \in {d, D!Flush(d), D!Take(d, "garbage"), D!Take(d, line), e}
      /\ (format = "lines" => D!Line(d, line) \in {d, D!Take(d, "garbage"), D!Take(d, line)})
  BY DEF D!Line
<1>2. Sound(e) /\ e.lines = d.lines  BY DEF Decoding, Sound
<1>3. "garbage" \in AnyLine  BY DEF AnyLine
<1>. HIDE DEF e
<1>. QED  BY <1>1, <1>2, <1>3, FlushSound, TakeSound

LEMMA StepSound ==
    ASSUME NEW d \in Decoding, Sound(d), NEW line \in AnyLine
    PROVE  /\ Sound(D!Step(d, line))
           /\ ~Going(d) => D!Step(d, line) = d
           /\ Going(d) => D!Step(d, line).lines = d.lines + 1
           /\ format = "lines" => D!Step(d, line).data = d.data
<1>1. CASE ~Going(d)
  <2>1. D!Step(d, line) = d  BY <1>1 DEF D!Step, Going
  <2>. QED  BY <1>1, <2>1
<1>2. CASE Going(d)
  <2> DEFINE e == IF line = "mangled" THEN [d EXCEPT !.error = "lost"] ELSE D!Line(d, line)
  <2>1. e \in Decoding /\ Sound(e) /\ e.lines = d.lines /\ (format = "lines" => e.data = d.data)
    <3>1. CASE line = "mangled"
      <4>1. e = [d EXCEPT !.error = "lost"]  BY <3>1
      <4>. HIDE DEF e
      <4>. QED  BY <1>2, <4>1 DEF Decoding, Sound, Going
    <3>2. CASE line # "mangled"
      <4>1. e = D!Line(d, line)  BY <3>2
      <4>. HIDE DEF e
      <4>. QED  BY <1>2, <4>1, LineSound, LineTypes
    <3>. QED  BY <3>1, <3>2
  <2>2. D!Step(d, line) = [e EXCEPT !.lines = e.lines + 1]  BY <1>2 DEF D!Step, Going
  <2>. HIDE DEF e
  <2> DEFINE g == D!Step(d, line)
  <2>3. g.lines = d.lines + 1 /\ g.chunks = e.chunks /\ g.finished = e.finished
        /\ g.error = e.error /\ g.data = e.data
    BY <2>1, <2>2 DEF Decoding
  <2>. HIDE DEF g
  <2>4. Sound(g)  BY <2>1, <2>3 DEF Sound
  <2>. QED  BY <1>2, <2>1, <2>3, <2>4 DEF g
<1>. QED  BY <1>1, <1>2

\* What n lines make of a decoder that had p of a record.
Shaped(d, n, p) ==
    /\ d \in Decoding /\ Sound(d)
    /\ d.lines <= n /\ (Going(d) => d.lines = n)
    /\ format = "lines" => d.data = p

LEMMA RunShaped ==
    ASSUME NEW p \in Seq(AnyLine), NEW lines \in Seq(AnyLine), NEW f, Decodes(f, Started(p), lines)
    PROVE  \A n \in 0 .. Len(lines) : Shaped(f[n], n, p)
<1> DEFINE N == {n \in Nat : n <= Len(lines) => Shaped(f[n], n, p)}
<1>1. 0 \in N
  <2>1. Sound(Started(p)) /\ Started(p).lines = 0 /\ Started(p).data = p
    BY DEF Sound, Started
  <2>2. f[0] = Started(p)  BY DEF Decodes
  <2>. QED  BY <2>1, <2>2, StartTypes DEF Shaped
<1>2. ASSUME NEW n \in Nat, n \in N PROVE n + 1 \in N
  <2>. SUFFICES ASSUME n + 1 <= Len(lines) PROVE Shaped(f[n + 1], n + 1, p)
    OBVIOUS
  <2>1. Shaped(f[n], n, p) /\ lines[n + 1] \in AnyLine  BY <1>2
  <2>2. n + 1 \in 1 .. Len(lines) /\ (n + 1) - 1 = n /\ n + 1 \in 0 .. Len(lines)
    OBVIOUS
  <2>3. f[n + 1] = D!Step(f[n], lines[n + 1]) /\ f[n + 1] \in Decoding  BY <2>2 DEF Decodes
  <2>4. f[n] \in Decoding /\ Sound(f[n])  BY <2>1 DEF Shaped
  <2>5. /\ Sound(f[n + 1])
        /\ ~Going(f[n]) => f[n + 1] = f[n]
        /\ Going(f[n]) => f[n + 1].lines = f[n].lines + 1
        /\ format = "lines" => f[n + 1].data = f[n].data
    BY <2>1, <2>3, <2>4, StepSound
  <2>6. f[n].lines \in Nat  BY <2>4 DEF Decoding
  <2>. QED  BY <2>1, <2>3, <2>5, <2>6 DEF Shaped
<1>3. \A n \in Nat : n \in N
  <2>. HIDE DEF N
  <2>. QED  BY <1>1, <1>2, AllNumbers
<1>. QED  BY <1>3

LEMMA DecodeShaped ==
    ASSUME NEW p \in Seq(AnyLine), NEW lines \in Seq(AnyLine)
    PROVE  Shaped(D!Decode(p, lines), Len(lines), p)
<1>1. PICK f : Decodes(f, Started(p), lines) /\ D!Decode(p, lines) = f[Len(lines)]  BY Runs
<1>2. Len(lines) \in 0 .. Len(lines)  BY LenProperties
<1>. QED  BY <1>1, <1>2, RunShaped

-----------------------------------------------------------------------------
(* The decoder: lines that come in pushes                                  *)

\* The decoder b that went on where a stood, with what a has sent before it.
Joined(a, b) ==
    [data |-> b.data, chunks |-> a.chunks \o b.chunks, lines |-> a.lines + b.lines,
     finished |-> b.finished, error |-> b.error]

LEMMA JoinedTypes ==
    ASSUME NEW a \in Decoding, NEW b \in Decoding
    PROVE  Joined(a, b) \in Decoding /\ (Going(Joined(a, b)) <=> Going(b))
<1>1. a.chunks \o b.chunks \in Seq(AnyLine)  BY DEF Decoding
<1>2. a.lines + b.lines \in Nat  BY DEF Decoding
<1>. QED  BY <1>1, <1>2 DEF Joined, Decoding, Going

\* Decoders with the same fields are the same.
LEMMA SameDecoder ==
    ASSUME NEW d \in Decoding, NEW e \in Decoding, d.data = e.data, d.chunks = e.chunks,
           d.lines = e.lines, d.finished = e.finished, d.error = e.error
    PROVE  d = e
<1> DEFINE p == d.data
           c == d.chunks
           n == d.lines
           f == d.finished
           r == d.error
<1>1. d = [data |-> p, chunks |-> c, lines |-> n, finished |-> f, error |-> r]
  BY DEF Decoding
<1>2. e = [data |-> e.data, chunks |-> e.chunks, lines |-> e.lines, finished |-> e.finished,
           error |-> e.error]
  BY DEF Decoding
<1>3. e.data = p /\ e.chunks = c /\ e.lines = n /\ e.finished = f /\ e.error = r  OBVIOUS
<1>. HIDE DEF p, c, n, f, r
<1>4. [data |-> e.data, chunks |-> e.chunks, lines |-> e.lines, finished |-> e.finished,
       error |-> e.error]
          = [data |-> p, chunks |-> c, lines |-> n, finished |-> f, error |-> r]
  BY <1>3
<1>. QED  BY <1>1, <1>2, <1>4

\* A decoder with other data or another error, a line or a chunk further.
Pending(d, x) == [d EXCEPT !.data = x]
Erring(d, x) == [d EXCEPT !.error = x]
Further(d) == [d EXCEPT !.lines = d.lines + 1]
Telling(d, x, y) == [d EXCEPT !.chunks = Append(d.chunks, x), !.finished = y]

\* What changes in the one that goes on changes in both.
LEMMA PendingJoined ==
    ASSUME NEW a \in Decoding, NEW b \in Decoding, NEW x \in Seq(AnyLine)
    PROVE  Pending(b, x) \in Decoding /\ Pending(Joined(a, b), x) = Joined(a, Pending(b, x))
<1> DEFINE j == Joined(a, b)
           e == Pending(b, x)
           d == Pending(j, x)
           g == Joined(a, e)
<1>1. j \in Decoding  BY JoinedTypes
<1>2. /\ j.data = b.data /\ j.chunks = a.chunks \o b.chunks /\ j.lines = a.lines + b.lines
      /\ j.finished = b.finished /\ j.error = b.error
  BY DEF Joined
<1>3. /\ e \in Decoding
      /\ e.data = x /\ e.chunks = b.chunks /\ e.lines = b.lines /\ e.finished = b.finished /\ e.error = b.error
  BY DEF Decoding, Pending
<1>. HIDE DEF j
<1>4. /\ d \in Decoding
      /\ d.data = x /\ d.chunks = j.chunks /\ d.lines = j.lines /\ d.finished = j.finished /\ d.error = j.error
  BY <1>1 DEF Decoding, Pending
<1>. HIDE DEF d, e
<1>5. g \in Decoding  BY <1>3, JoinedTypes
<1>6. /\ g.data = e.data /\ g.chunks = a.chunks \o e.chunks /\ g.lines = a.lines + e.lines
      /\ g.finished = e.finished /\ g.error = e.error
  BY DEF Joined
<1>. HIDE DEF g
<1>8. d.data = g.data  BY <1>2, <1>3, <1>4, <1>6
<1>9. d.chunks = g.chunks  BY <1>2, <1>3, <1>4, <1>6
<1>10. d.lines = g.lines  BY <1>2, <1>3, <1>4, <1>6
<1>11. d.finished = g.finished /\ d.error = g.error  BY <1>2, <1>3, <1>4, <1>6
<1>12. d = g  BY <1>4, <1>5, <1>8, <1>9, <1>10, <1>11, SameDecoder
<1>. QED  BY <1>3, <1>12 DEF d, e, g, j

LEMMA ErringJoined ==
    ASSUME NEW a \in Decoding, NEW b \in Decoding, NEW x \in {"none", "failed", "lost"}
    PROVE  Erring(b, x) \in Decoding /\ Erring(Joined(a, b), x) = Joined(a, Erring(b, x))
<1> DEFINE j == Joined(a, b)
           e == Erring(b, x)
           d == Erring(j, x)
           g == Joined(a, e)
<1>1. j \in Decoding  BY JoinedTypes
<1>2. /\ j.data = b.data /\ j.chunks = a.chunks \o b.chunks /\ j.lines = a.lines + b.lines
      /\ j.finished = b.finished /\ j.error = b.error
  BY DEF Joined
<1>3. /\ e \in Decoding
      /\ e.data = b.data /\ e.chunks = b.chunks /\ e.lines = b.lines /\ e.finished = b.finished /\ e.error = x
  BY DEF Decoding, Erring
<1>. HIDE DEF j
<1>4. /\ d \in Decoding
      /\ d.data = j.data /\ d.chunks = j.chunks /\ d.lines = j.lines /\ d.finished = j.finished /\ d.error = x
  BY <1>1 DEF Decoding, Erring
<1>. HIDE DEF d, e
<1>5. g \in Decoding  BY <1>3, JoinedTypes
<1>6. /\ g.data = e.data /\ g.chunks = a.chunks \o e.chunks /\ g.lines = a.lines + e.lines
      /\ g.finished = e.finished /\ g.error = e.error
  BY DEF Joined
<1>. HIDE DEF g
<1>8. d.data = g.data  BY <1>2, <1>3, <1>4, <1>6
<1>9. d.chunks = g.chunks  BY <1>2, <1>3, <1>4, <1>6
<1>10. d.lines = g.lines  BY <1>2, <1>3, <1>4, <1>6
<1>11. d.finished = g.finished /\ d.error = g.error  BY <1>2, <1>3, <1>4, <1>6
<1>12. d = g  BY <1>4, <1>5, <1>8, <1>9, <1>10, <1>11, SameDecoder
<1>. QED  BY <1>3, <1>12 DEF d, e, g, j

LEMMA FurtherJoined ==
    ASSUME NEW a \in Decoding, NEW b \in Decoding
    PROVE  Further(b) \in Decoding /\ Further(Joined(a, b)) = Joined(a, Further(b))
<1> DEFINE j == Joined(a, b)
           e == Further(b)
           d == Further(j)
           g == Joined(a, e)
<1>1. j \in Decoding  BY JoinedTypes
<1>2. /\ j.data = b.data /\ j.chunks = a.chunks \o b.chunks /\ j.lines = a.lines + b.lines
      /\ j.finished = b.finished /\ j.error = b.error
  BY DEF Joined
<1>3. /\ e \in Decoding
      /\ e.data = b.data /\ e.chunks = b.chunks /\ e.lines = b.lines + 1 /\ e.finished = b.finished /\ e.error = b.error
  <2>1. b.lines + 1 \in Nat  BY DEF Decoding
  <2>. QED  BY <2>1 DEF Decoding, Further
<1>. HIDE DEF j
<1>4. /\ d \in Decoding
      /\ d.data = j.data /\ d.chunks = j.chunks /\ d.lines = j.lines + 1 /\ d.finished = j.finished /\ d.error = j.error
  <2>1. j.lines + 1 \in Nat  BY <1>1 DEF Decoding
  <2>. QED  BY <1>1, <2>1 DEF Decoding, Further
<1>. HIDE DEF d, e
<1>5. g \in Decoding  BY <1>3, JoinedTypes
<1>6. /\ g.data = e.data /\ g.chunks = a.chunks \o e.chunks /\ g.lines = a.lines + e.lines
      /\ g.finished = e.finished /\ g.error = e.error
  BY DEF Joined
<1>. HIDE DEF g
<1>7. (a.lines + b.lines) + 1 = a.lines + (b.lines + 1)
  BY DEF Decoding
<1>8. d.data = g.data  BY <1>2, <1>3, <1>4, <1>6, <1>7
<1>9. d.chunks = g.chunks  BY <1>2, <1>3, <1>4, <1>6, <1>7
<1>10. d.lines = g.lines  BY <1>2, <1>3, <1>4, <1>6, <1>7
<1>11. d.finished = g.finished /\ d.error = g.error  BY <1>2, <1>3, <1>4, <1>6, <1>7
<1>12. d = g  BY <1>4, <1>5, <1>8, <1>9, <1>10, <1>11, SameDecoder
<1>. QED  BY <1>3, <1>12 DEF d, e, g, j

LEMMA TellingJoined ==
    ASSUME NEW a \in Decoding, NEW b \in Decoding, NEW x \in AnyLine, NEW y \in BOOLEAN
    PROVE  Telling(b, x, y) \in Decoding /\ Telling(Joined(a, b), x, y) = Joined(a, Telling(b, x, y))
<1> DEFINE j == Joined(a, b)
           e == Telling(b, x, y)
           d == Telling(j, x, y)
           g == Joined(a, e)
<1>1. j \in Decoding  BY JoinedTypes
<1>2. /\ j.data = b.data /\ j.chunks = a.chunks \o b.chunks /\ j.lines = a.lines + b.lines
      /\ j.finished = b.finished /\ j.error = b.error
  BY DEF Joined
<1>3. /\ e \in Decoding
      /\ e.data = b.data /\ e.chunks = Append(b.chunks, x) /\ e.lines = b.lines /\ e.finished = y /\ e.error = b.error
  <2>1. Append(b.chunks, x) \in Seq(AnyLine)  BY DEF Decoding
  <2>. QED  BY <2>1 DEF Decoding, Telling
<1>. HIDE DEF j
<1>4. /\ d \in Decoding
      /\ d.data = j.data /\ d.chunks = Append(j.chunks, x) /\ d.lines = j.lines /\ d.finished = y /\ d.error = j.error
  <2>1. Append(j.chunks, x) \in Seq(AnyLine)  BY <1>1 DEF Decoding
  <2>. QED  BY <1>1, <2>1 DEF Decoding, Telling
<1>. HIDE DEF d, e
<1>5. g \in Decoding  BY <1>3, JoinedTypes
<1>6. /\ g.data = e.data /\ g.chunks = a.chunks \o e.chunks /\ g.lines = a.lines + e.lines
      /\ g.finished = e.finished /\ g.error = e.error
  BY DEF Joined
<1>. HIDE DEF g
<1>7. Append(a.chunks \o b.chunks, x) = a.chunks \o Append(b.chunks, x)
  <2>1. a.chunks \in Seq(AnyLine) /\ b.chunks \in Seq(AnyLine)  BY DEF Decoding
  <2>2. Append(a.chunks \o b.chunks, x) = (a.chunks \o b.chunks) \o <<x>>
    BY <2>1, AppendIsConcat, ConcatProperties
  <2>3. Append(b.chunks, x) = b.chunks \o <<x>>  BY <2>1, AppendIsConcat
  <2>4. <<x>> \in Seq(AnyLine)  OBVIOUS
  <2>5. (a.chunks \o b.chunks) \o <<x>> = a.chunks \o (b.chunks \o <<x>>)
    <3>1. \A p, q, r \in Seq(AnyLine) : (p \o q) \o r = p \o (q \o r)  BY ConcatAssociative
    <3>. QED  BY <2>1, <2>4, <3>1
  <2>. QED  BY <2>2, <2>3, <2>5
<1>8. d.data = g.data  BY <1>2, <1>3, <1>4, <1>6, <1>7
<1>9. d.chunks = g.chunks  BY <1>2, <1>3, <1>4, <1>6, <1>7
<1>10. d.lines = g.lines  BY <1>2, <1>3, <1>4, <1>6, <1>7
<1>11. d.finished = g.finished /\ d.error = g.error  BY <1>2, <1>3, <1>4, <1>6, <1>7
<1>12. d = g  BY <1>4, <1>5, <1>8, <1>9, <1>10, <1>11, SameDecoder
<1>. QED  BY <1>3, <1>12 DEF d, e, g, j

LEMMA TakeJoined ==
    ASSUME NEW a \in Decoding, NEW b \in Decoding, NEW record \in AnyLine
    PROVE  D!Take(Joined(a, b), record) = Joined(a, D!Take(b, record))
<1>1. CASE record \in D!Failing
  <2>1. /\ D!Take(b, record) = Erring(b, "failed")
        /\ D!Take(Joined(a, b), record) = Erring(Joined(a, b), "failed")
    BY <1>1 DEF D!Take, D!Failing, Erring
  <2>2. "failed" \in {"none", "failed", "lost"}  OBVIOUS
  <2>. QED  BY <2>1, <2>2, ErringJoined
<1>2. CASE record = "note"
  <2>1. D!Take(b, record) = b /\ D!Take(Joined(a, b), record) = Joined(a, b)
    BY <1>2 DEF D!Take, D!Failing
  <2>. QED  BY <2>1
<1>3. CASE record \notin D!Failing /\ record # "note"
  <2> DEFINE y == record \in D!Finishing
  <2>1. /\ D!Take(b, record) = Telling(b, record, y)
        /\ D!Take(Joined(a, b), record) = Telling(Joined(a, b), record, y)
    BY <1>3 DEF D!Take, Telling
  <2>2. y \in BOOLEAN  OBVIOUS
  <2>. HIDE DEF y
  <2>. QED  BY <2>1, <2>2, TellingJoined
<1>. QED  BY <1>1, <1>2, <1>3

LEMMA FlushJoined ==
    ASSUME NEW a \in Decoding, NEW b \in Decoding
    PROVE  D!Flush(Joined(a, b)) = Joined(a, D!Flush(b))
<1>0. Joined(a, b).data = b.data  BY DEF Joined
<1>1. CASE b.data = <<>>  BY <1>0, <1>1 DEF D!Flush
<1>2. CASE b.data # <<>>
  <2> DEFINE record == IF Len(b.data) = 1 THEN Head(b.data) ELSE "garbage"
  <2>0. <<>> \in Seq(AnyLine)  OBVIOUS
  <2>2. record \in AnyLine  BY <1>2 DEF Decoding, AnyLine
  <2>3. Pending(b, <<>>) \in Decoding /\ Pending(Joined(a, b), <<>>) = Joined(a, Pending(b, <<>>))
    BY <2>0, PendingJoined
  <2>4. D!Flush(b) = D!Take(Pending(b, <<>>), record)  BY <1>2 DEF D!Flush, Pending
  <2>5. D!Flush(Joined(a, b)) = D!Take(Pending(Joined(a, b), <<>>), record)
    BY <1>0, <1>2 DEF D!Flush, Pending
  <2>. HIDE DEF record
  <2>. QED  BY <2>2, <2>3, <2>4, <2>5, TakeJoined
<1>. QED  BY <1>1, <1>2

LEMMA LineJoined ==
    ASSUME NEW a \in Decoding, NEW b \in Decoding, NEW line \in AnyLine
    PROVE  D!Line(Joined(a, b), line) = Joined(a, D!Line(b, line))
<1>1. D!Take(Joined(a, b), "garbage") = Joined(a, D!Take(b, "garbage"))
  <2>1. "garbage" \in AnyLine  BY DEF AnyLine
  <2>. QED  BY <2>1, TakeJoined
<1>2. D!Take(Joined(a, b), line) = Joined(a, D!Take(b, line))  BY TakeJoined
<1>3. D!Flush(Joined(a, b)) = Joined(a, D!Flush(b))  BY FlushJoined
<1>5. CASE format = "lines" /\ line = "blank"
  <2>1. D!Line(Joined(a, b), line) = Joined(a, b) /\ D!Line(b, line) = b  BY <1>5 DEF D!Line
  <2>. QED  BY <2>1
<1>6. CASE format = "lines" /\ line = "comment"
  <2>1. /\ D!Line(Joined(a, b), line) = D!Take(Joined(a, b), "garbage")
        /\ D!Line(b, line) = D!Take(b, "garbage")
    BY <1>6 DEF D!Line
  <2>. QED  BY <1>1, <2>1
<1>7. CASE format = "lines" /\ line \notin {"blank", "comment"}
  <2>1. D!Line(Joined(a, b), line) = D!Take(Joined(a, b), line) /\ D!Line(b, line) = D!Take(b, line)
    BY <1>7 DEF D!Line
  <2>. QED  BY <1>2, <2>1
<1>8. CASE format # "lines" /\ line = "blank"
  <2>1. D!Line(Joined(a, b), line) = D!Flush(Joined(a, b)) /\ D!Line(b, line) = D!Flush(b)
    BY <1>8 DEF D!Line
  <2>. QED  BY <1>3, <2>1
<1>9. CASE format # "lines" /\ line = "comment"
  <2>1. D!Line(Joined(a, b), line) = Joined(a, b) /\ D!Line(b, line) = b  BY <1>9 DEF D!Line
  <2>. QED  BY <2>1
<1>10. CASE format # "lines" /\ line \notin {"blank", "comment"}
  <2>. DEFINE x == Append(b.data, line)
  <2>1. Joined(a, b).data = b.data  BY DEF Joined
  <2>2. /\ D!Line(Joined(a, b), line) = Pending(Joined(a, b), Append(Joined(a, b).data, line))
        /\ D!Line(b, line) = Pending(b, x)
    BY <1>10 DEF D!Line, Pending
  <2>3. x \in Seq(AnyLine)  BY DEF Decoding
  <2>4. Append(Joined(a, b).data, line) = x  BY <2>1
  <2>. HIDE DEF x
  <2>. QED  BY <2>2, <2>3, <2>4, PendingJoined
<1>. QED  BY <1>5, <1>6, <1>7, <1>8, <1>9, <1>10

LEMMA StepJoined ==
    ASSUME NEW a \in Decoding, NEW b \in Decoding, NEW line \in AnyLine
    PROVE  D!Step(Joined(a, b), line) = Joined(a, D!Step(b, line))
<1>0. Going(Joined(a, b)) <=> Going(b)  BY JoinedTypes
<1>1. CASE ~Going(b)
  <2>1. D!Step(Joined(a, b), line) = Joined(a, b) /\ D!Step(b, line) = b
    BY <1>0, <1>1 DEF D!Step, Going
  <2>. QED  BY <2>1
<1>2. CASE Going(b)
  <2> DEFINE c == IF line = "mangled" THEN Erring(b, "lost") ELSE D!Line(b, line)
             e == IF line = "mangled" THEN Erring(Joined(a, b), "lost")
                  ELSE D!Line(Joined(a, b), line)
  <2>1. c \in Decoding /\ e = Joined(a, c)
    <3>1. "lost" \in {"none", "failed", "lost"}  OBVIOUS
    <3>2. Erring(b, "lost") \in Decoding
          /\ Erring(Joined(a, b), "lost") = Joined(a, Erring(b, "lost"))
      BY <3>1, ErringJoined
    <3>. QED  BY <3>2, LineJoined, LineTypes
  <2>2. D!Step(b, line) = Further(c)  BY <1>2 DEF D!Step, Going, Further, Erring
  <2>3. D!Step(Joined(a, b), line) = Further(e)
    BY <1>0, <1>2 DEF D!Step, Going, Further, Erring
  <2>. HIDE DEF c, e
  <2>. QED  BY <2>1, <2>2, <2>3, FurtherJoined
<1>. QED  BY <1>1, <1>2

\* To decode some lines, and then others with what is left of a record, is to
\* decode them all: how they are cut into pushes makes no difference.
LEMMA DecodeJoined ==
    ASSUME NEW v \in Seq(AnyLine), NEW w \in Seq(AnyLine), Going(D!Decode(<<>>, v))
    PROVE  D!Decode(<<>>, v \o w)
               = Joined(D!Decode(<<>>, v), D!Decode(D!Decode(<<>>, v).data, w))
<1> DEFINE a == D!Decode(<<>>, v)
<1>0. /\ v \o w \in Seq(AnyLine) /\ Len(v \o w) = Len(v) + Len(w)
      /\ \A i \in 1 .. Len(v) + Len(w) : (v \o w)[i] = IF i <= Len(v) THEN v[i] ELSE w[i - Len(v)]
      /\ Len(v) \in Nat /\ Len(w) \in Nat
  BY ConcatProperties, LenProperties
<1>1. <<>> \in Seq(AnyLine)  OBVIOUS
<1>2. a \in Decoding /\ a.data \in Seq(AnyLine)  BY <1>1, DecodeShaped DEF Shaped, Decoding
<1>3. PICK f : Decodes(f, Started(<<>>), v) /\ a = f[Len(v)]  BY <1>1, Runs
<1>4. PICK g : Decodes(g, Started(a.data), w) /\ D!Decode(a.data, w) = g[Len(w)]  BY <1>2, Runs
<1>5. PICK h : Decodes(h, Started(<<>>), v \o w) /\ D!Decode(<<>>, v \o w) = h[Len(v \o w)]
  BY <1>0, <1>1, Runs
<1>6. Going(a)  OBVIOUS
<1>. HIDE DEF a
<1> DEFINE N == {n \in Nat : n <= Len(v) => h[n] = f[n]}
<1>7. \A n \in Nat : n \in N
  <2>1. 0 \in N  BY <1>3, <1>5 DEF Decodes
  <2>2. ASSUME NEW n \in Nat, n \in N PROVE n + 1 \in N
    <3>. SUFFICES ASSUME n + 1 <= Len(v) PROVE h[n + 1] = f[n + 1]
      OBVIOUS
    <3>1. /\ n + 1 \in 1 .. Len(v) /\ n + 1 \in 1 .. Len(v) + Len(w) /\ (n + 1) - 1 = n
          /\ n <= Len(v)
      BY <1>0
    <3>2. (v \o w)[n + 1] = v[n + 1]  BY <1>0, <3>1
    <3>3. h[n] = f[n]  BY <2>2, <3>1
    <3>4. f[n + 1] = D!Step(f[n], v[n + 1])  BY <1>3, <3>1 DEF Decodes
    <3>5. h[n + 1] = D!Step(h[n], (v \o w)[n + 1])  BY <1>0, <1>5, <3>1 DEF Decodes
    <3>. QED  BY <3>2, <3>3, <3>4, <3>5
  <2>. HIDE DEF N
  <2>. QED  BY <2>1, <2>2, AllNumbers
<1>8. h[Len(v)] = a  BY <1>0, <1>3, <1>7
<1> DEFINE M == {n \in Nat : n <= Len(w) => h[Len(v) + n] = Joined(a, g[n])}
<1>9. \A n \in Nat : n \in M
  <2>. HIDE DEF N
  <2>1. 0 \in M
    <3>1. g[0] = Started(a.data)  BY <1>4 DEF Decodes
    <3>2. a.chunks \o <<>> = a.chunks /\ a.lines + 0 = a.lines
      BY <1>2, ConcatEmptySeq DEF Decoding
    <3>3. Joined(a, Started(a.data)) = a
      BY <1>2, <1>6, <3>2 DEF Joined, Started, Decoding, Going
    <3>4. Len(v) + 0 = Len(v)  BY <1>0
    <3>. QED  BY <1>8, <3>1, <3>3, <3>4
  <2>2. ASSUME NEW n \in Nat, n \in M PROVE n + 1 \in M
    <3>. SUFFICES ASSUME n + 1 <= Len(w) PROVE h[Len(v) + (n + 1)] = Joined(a, g[n + 1])
      OBVIOUS
    <3>1. /\ n + 1 \in 1 .. Len(w) /\ (n + 1) - 1 = n /\ n \in 0 .. Len(w) /\ n <= Len(w)
          /\ Len(v) + (n + 1) \in 1 .. Len(v) + Len(w) /\ ~(Len(v) + (n + 1) <= Len(v))
          /\ (Len(v) + (n + 1)) - 1 = Len(v) + n /\ (Len(v) + (n + 1)) - Len(v) = n + 1
      BY <1>0
    <3>2. (v \o w)[Len(v) + (n + 1)] = w[n + 1] /\ w[n + 1] \in AnyLine  BY <1>0, <3>1
    <3>3. h[Len(v) + n] = Joined(a, g[n])  BY <2>2, <3>1
    <3>4. g[n + 1] = D!Step(g[n], w[n + 1]) /\ g[n] \in Decoding  BY <1>4, <3>1 DEF Decodes
    <3>5. h[Len(v) + (n + 1)] = D!Step(h[Len(v) + n], (v \o w)[Len(v) + (n + 1)])
      BY <1>0, <1>5, <3>1 DEF Decodes
    <3>. QED  BY <1>2, <3>2, <3>3, <3>4, <3>5, StepJoined
  <2>. HIDE DEF M
  <2>. QED  BY <2>1, <2>2, AllNumbers
<1>10. h[Len(v) + Len(w)] = Joined(a, g[Len(w)])  BY <1>0, <1>9
<1>. QED  BY <1>0, <1>4, <1>5, <1>10 DEF a

-----------------------------------------------------------------------------
(* The decoder: the end of the connection                                  *)

\* Without lines a decoder stands where it started, and with one a step further.
LEMMA DecodeFew ==
    ASSUME NEW p \in Seq(AnyLine)
    PROVE  /\ D!Decode(p, <<>>) = Started(p)
           /\ \A line \in AnyLine : D!Decode(p, <<line>>) = D!Step(Started(p), line)
<1>1. D!Decode(p, <<>>) = Started(p)
  <2>1. <<>> \in Seq(AnyLine) /\ Len(<<>>) = 0  OBVIOUS
  <2>2. PICK f : Decodes(f, Started(p), <<>>) /\ D!Decode(p, <<>>) = f[Len(<<>>)]  BY <2>1, Runs
  <2>. QED  BY <2>1, <2>2 DEF Decodes
<1>2. ASSUME NEW line \in AnyLine PROVE D!Decode(p, <<line>>) = D!Step(Started(p), line)
  <2>. DEFINE one == <<line>>
  <2>1. one \in Seq(AnyLine) /\ Len(one) = 1 /\ one[1] = line  OBVIOUS
  <2>. HIDE DEF one
  <2>2. PICK f : Decodes(f, Started(p), one) /\ D!Decode(p, one) = f[Len(one)]  BY <2>1, Runs
  <2>3. f[0] = Started(p) /\ f[1] = D!Step(f[1 - 1], one[1])  BY <2>1, <2>2 DEF Decodes
  <2>4. 1 - 1 = 0  OBVIOUS
  <2>5. D!Decode(p, one) = D!Step(Started(p), line)  BY <2>1, <2>2, <2>3, <2>4
  <2>. QED  BY <2>5 DEF one
<1>. QED  BY <1>1, <1>2

\* The data lines of a record were lines of the wire.
LEMMA StepLines ==
    ASSUME NEW d \in Decoding, Sound(d), d.data \in Seq(Lines), NEW line \in Lines
    PROVE  D!Step(d, line).data \in Seq(Lines)
<1>0. line \in AnyLine /\ "garbage" \in AnyLine  BY DEF AnyLine
<1>1. CASE ~Going(d)  BY <1>0, <1>1, StepSound
<1>2. CASE Going(d)
  <2> DEFINE e == IF line = "mangled" THEN Erring(d, "lost") ELSE D!Line(d, line)
  <2>1. e \in Decoding /\ e.data \in Seq(Lines)
    <3>1. CASE line = "mangled"
      <4>1. e = Erring(d, "lost")  BY <3>1
      <4>. HIDE DEF e
      <4>. QED  BY <4>1 DEF Erring, Decoding
    <3>2. CASE line # "mangled"
      <4>1. e = D!Line(d, line)  BY <3>2
      <4>. HIDE DEF e
      <4>2. e \in Decoding  BY <1>0, <4>1, LineTypes
      <4>3. <<>> \in Seq(Lines) /\ Append(d.data, line) \in Seq(Lines)  OBVIOUS
      <4>4. e.data \in {d.data, <<>>, Append(d.data, line)}
        <5>1. D!Flush(d).data = <<>>  BY <1>2, FlushSound
        <5>2. D!Take(d, "garbage").data = d.data /\ D!Take(d, line).data = d.data
          BY <1>0, <1>2, TakeSound
        <5>3. Pending(d, Append(d.data, line)).data = Append(d.data, line)
          BY DEF Pending, Decoding
        <5>4. D!Line(d, line) \in {d, D!Flush(d), D!Take(d, "garbage"), D!Take(d, line),
                                   Pending(d, Append(d.data, line))}
          BY DEF D!Line, Pending
        <5>. QED  BY <4>1, <5>1, <5>2, <5>3, <5>4
      <4>. QED  BY <4>2, <4>3, <4>4
    <3>. QED  BY <3>1, <3>2
  <2>2. D!Step(d, line) = Further(e)  BY <1>2 DEF D!Step, Going, Further, Erring
  <2>. HIDE DEF e
  <2>3. Further(e).data = e.data  BY <2>1 DEF Further, Decoding
  <2>. QED  BY <2>1, <2>2, <2>3
<1>. QED  BY <1>1, <1>2

LEMMA DecodeLines ==
    ASSUME NEW p \in Seq(Lines), NEW lines \in Seq(Lines)
    PROVE  D!Decode(p, lines).data \in Seq(Lines)
<1>0. p \in Seq(AnyLine) /\ lines \in Seq(AnyLine)
  <2>1. Lines \subseteq AnyLine  BY DEF AnyLine
  <2>. QED  BY <2>1, SeqMonotonic
<1>1. PICK f : Decodes(f, Started(p), lines) /\ D!Decode(p, lines) = f[Len(lines)]
  BY <1>0, Runs
<1> DEFINE N == {n \in Nat : n <= Len(lines) => f[n].data \in Seq(Lines)}
<1>2. 0 \in N
  <2>1. f[0] = Started(p) /\ Started(p).data = p  BY <1>1 DEF Decodes, Started
  <2>. QED  BY <2>1
<1>3. ASSUME NEW n \in Nat, n \in N PROVE n + 1 \in N
  <2>. SUFFICES ASSUME n + 1 <= Len(lines) PROVE f[n + 1].data \in Seq(Lines)
    OBVIOUS
  <2>1. n + 1 \in 1 .. Len(lines) /\ (n + 1) - 1 = n /\ n \in 0 .. Len(lines)  OBVIOUS
  <2>2. f[n].data \in Seq(Lines) /\ lines[n + 1] \in Lines  BY <1>3, <2>1
  <2>3. Shaped(f[n], n, p)  BY <1>0, <1>1, <2>1, RunShaped
  <2>4. f[n] \in Decoding /\ Sound(f[n])  BY <2>3 DEF Shaped
  <2>5. f[n + 1] = D!Step(f[n], lines[n + 1])  BY <1>1, <2>1 DEF Decodes
  <2>. QED  BY <2>2, <2>4, <2>5, StepLines
<1>4. \A n \in Nat : n \in N
  <2>. HIDE DEF N
  <2>. QED  BY <1>2, <1>3, AllNumbers
<1>5. Len(lines) \in Nat /\ Len(lines) <= Len(lines)  OBVIOUS
<1>. QED  BY <1>1, <1>4, <1>5

\* What the end of the connection can still make of a record: one chunk.
Few(d) == d.chunks = <<>> \/ (Len(d.chunks) = 1 /\ d.data = <<>>)

LEMMA TakeFew ==
    ASSUME NEW d \in Decoding, d.chunks = <<>>, NEW record \in AnyLine
    PROVE  D!Take(d, record).chunks = <<>> \/ Len(D!Take(d, record).chunks) = 1
<1>1. CASE record \in D!Failing
  <2>1. D!Take(d, record) = Erring(d, "failed")  BY <1>1 DEF D!Take, D!Failing, Erring
  <2>2. Erring(d, "failed").chunks = d.chunks  BY DEF Erring, Decoding
  <2>. QED  BY <2>1, <2>2
<1>2. CASE record = "note"
  <2>1. D!Take(d, record) = d  BY <1>2 DEF D!Take, D!Failing
  <2>. QED  BY <2>1
<1>3. CASE record \notin D!Failing /\ record # "note"
  <2> DEFINE y == record \in D!Finishing
  <2>1. D!Take(d, record) = Telling(d, record, y)  BY <1>3 DEF D!Take, Telling
  <2>. HIDE DEF y
  <2>2. Telling(d, record, y).chunks = Append(d.chunks, record)  BY DEF Telling, Decoding
  <2>3. Len(Append(<<>>, record)) = 1  OBVIOUS
  <2>. QED  BY <2>1, <2>2, <2>3
<1>. QED  BY <1>1, <1>2, <1>3

LEMMA FlushFew ==
    ASSUME NEW d \in Decoding, Sound(d), Going(d), d.chunks = <<>>
    PROVE  Few(D!Flush(d))
<1>1. D!Flush(d).data = <<>>  BY FlushSound
<1>2. CASE d.data = <<>>  BY <1>2 DEF D!Flush, Few
<1>3. CASE d.data # <<>>
  <2> DEFINE e == Pending(d, <<>>)
             record == IF Len(d.data) = 1 THEN Head(d.data) ELSE "garbage"
  <2>0. <<>> \in Seq(AnyLine)  OBVIOUS
  <2>1. e \in Decoding /\ e.chunks = <<>>  BY <2>0 DEF Decoding, Pending
  <2>2. record \in AnyLine  BY <1>3 DEF Decoding, AnyLine
  <2>3. D!Flush(d) = D!Take(e, record)  BY <1>3 DEF D!Flush, Pending
  <2>. HIDE DEF e, record
  <2>. QED  BY <1>1, <2>1, <2>2, <2>3, TakeFew DEF Few
<1>. QED  BY <1>2, <1>3

\* One line, whole or cut, of a record or of none.
LEMMA OneLine ==
    ASSUME NEW p \in Seq(AnyLine), format = "lines" => p = <<>>, NEW line \in AnyLine
    PROVE  LET d == D!Step(Started(p), line)
           IN  d \in Decoding /\ Sound(d) /\ (d.error = "none" => Few(d))
<1> DEFINE s == Started(p)
           d == D!Step(s, line)
<1>1. /\ s \in Decoding /\ Sound(s) /\ Going(s) /\ s.chunks = <<>> /\ s.data = p
  BY StartTypes DEF Started, Sound, Going
<1>. HIDE DEF s
<1>2. d \in Decoding /\ Sound(d)  BY <1>1, StepTypes, StepSound
<1>3. ASSUME d.error = "none" PROVE Few(d)
  <2> DEFINE e == IF line = "mangled" THEN Erring(s, "lost") ELSE D!Line(s, line)
  <2>1. d = Further(e)  BY <1>1 DEF D!Step, Going, Further, Erring
  <2>2. CASE line = "mangled"
    <3>1. Erring(s, "lost") \in Decoding /\ Erring(s, "lost").error = "lost"
      BY <1>1 DEF Decoding, Erring
    <3>2. e = Erring(s, "lost")  BY <2>2
    <3>. HIDE DEF e, d
    <3>3. Further(e).error = "lost"  BY <3>1, <3>2 DEF Further, Decoding
    <3>. QED  BY <1>3, <2>1, <3>3
  <2>3. CASE line # "mangled"
    <3>1. e = D!Line(s, line)  BY <2>3
    <3>. HIDE DEF e, d
    <3>2. e \in Decoding  BY <1>1, <3>1, LineTypes
    <3>3. Few(e)
      <4>0. "garbage" \in AnyLine  BY DEF AnyLine
      <4>1. /\ D!Take(s, "garbage").data = p /\ D!Take(s, line).data = p
            /\ D!Take(s, "garbage").chunks = <<>> \/ Len(D!Take(s, "garbage").chunks) = 1
            /\ D!Take(s, line).chunks = <<>> \/ Len(D!Take(s, line).chunks) = 1
        BY <1>1, <4>0, TakeFew, TakeSound
      <4>2. format = "lines" => e \in {s, D!Take(s, "garbage"), D!Take(s, line)}
        BY <3>1 DEF D!Line
      <4>3. format # "lines" => e \in {s, D!Flush(s), Pending(s, Append(s.data, line))}
        BY <3>1 DEF D!Line, Pending
      <4>4. Pending(s, Append(s.data, line)).chunks = <<>>  BY <1>1 DEF Decoding, Pending
      <4>5. Few(D!Flush(s))  BY <1>1, FlushFew
      <4>. QED  BY <1>1, <4>1, <4>2, <4>3, <4>4, <4>5 DEF Few
    <3>4. Further(e).chunks = e.chunks /\ Further(e).data = e.data
      BY <3>2 DEF Further, Decoding
    <3>. QED  BY <2>1, <3>3, <3>4 DEF Few
  <2>. QED  BY <2>2, <2>3
<1>. QED  BY <1>2, <1>3 DEF s

LEMMA RestFew ==
    ASSUME NEW d \in Decoding, Sound(d), d.error = "none" => Few(d)
    PROVE  LET r == D!Rest(d)
           IN  r \in Decoding /\ Sound(r) /\ (r.error = "none" => r.chunks = <<>> \/ Len(r.chunks) = 1)
<1>1. CASE d.error # "none"  BY <1>1 DEF D!Rest
<1>2. CASE d.error = "none" /\ d.data = <<>>
  <2>1. D!Rest(d) = d  BY <1>2 DEF D!Rest, D!Flush
  <2>2. d.chunks = <<>> \/ Len(d.chunks) = 1  BY <1>2 DEF Few
  <2>. QED  BY <2>1, <2>2
<1>3. CASE d.error = "none" /\ d.data # <<>>
  <2>1. d.chunks = <<>> /\ Going(d)  BY <1>3 DEF Few, Sound, Going
  <2>2. D!Rest(d) = D!Flush(d)  BY <1>3 DEF D!Rest
  <2>3. D!Flush(d) \in Decoding /\ Sound(D!Flush(d)) /\ Few(D!Flush(d))
    BY <2>1, FlushTypes, FlushSound, FlushFew
  <2>4. D!Flush(d).chunks = <<>> \/ Len(D!Flush(d).chunks) = 1  BY <2>3 DEF Few
  <2>. QED  BY <2>2, <2>3, <2>4
<1>. QED  BY <1>1, <1>2, <1>3

-----------------------------------------------------------------------------
(* The decoder: what the receiver hears                                    *)

\* Everything a receiver can be told, and what ends it.
Told == AnyLine \cup {"error"}
Endings == D!Finishing \cup {"error"}

\* What the receiver heard of the lines, and a sequence without an end.
Hears(o) == IF o # <<>> /\ D!Last(o) = "error" THEN D!Front(o) ELSE o
Open(o) == \A i \in 1 .. Len(o) : o[i] \notin Endings

\* One end, and nothing after it.
EndsOnce(o) ==
    /\ o # <<>> /\ D!Last(o) \in Endings
    /\ \A i \in DOMAIN o : o[i] \in Endings => i = Len(o)

\* The lines that arrived, decoded at once.
Whole == D!Decode(<<>>, SubSeq(wire, 1, D!Complete(arrived)))

\* While the task runs, its decoder stands where the lines that arrived would
\* have brought one that got them at once.
InStep ==
    /\ taken = D!Complete(arrived) /\ Going(Whole) /\ data = Whole.data
    /\ Open(out) /\ (listening => out = Whole.chunks)

CutInv ==
    /\ wire \in Seq(Lines) /\ out \in Seq(Told) /\ D!TypeOK
    /\ state = "left" => ~listening
    /\ state = "running" => InStep
    /\ D!EndOnce /\ D!CutsUnheard

\* The decoder's program does not change under it.
LEMMA SameDecode ==
    ASSUME format' = format, NEW p, NEW lines PROVE D!Decode(p, lines)' = D!Decode(p, lines)
BY DEF D!Decode, D!Step, D!Line, D!Take, D!Flush, D!Failing, D!Finishing

LEMMA LineNames == "error" \notin AnyLine /\ AnyLine \subseteq Told
BY DecoderAssumption DEF AnyLine, Told

LEMMA FrontLast ==
    ASSUME NEW X, NEW s \in Seq(X), NEW x \in X
    PROVE  LET r == Append(s, x)
           IN  r \in Seq(X) /\ r # <<>> /\ D!Last(r) = x /\ D!Front(r) = s
<1> DEFINE r == Append(s, x)
<1>1. /\ r \in Seq(X) /\ r # <<>> /\ Len(r) = Len(s) + 1 /\ r[Len(s) + 1] = x
      /\ Len(s) \in Nat /\ \A i \in 1 .. Len(s) : r[i] = s[i]
  BY AppendProperties, LenProperties
<1>. HIDE DEF r
<1>2. D!Last(r) = x  BY <1>1 DEF D!Last
<1>3. Len(r) - 1 = Len(s)  BY <1>1
<1>4. \A i \in 1 .. Len(s) : r[i] \in X  BY <1>1
<1>5. /\ SubSeq(r, 1, Len(s)) \in Seq(X)
      /\ Len(SubSeq(r, 1, Len(s))) = Len(s)
      /\ \A i \in 1 .. Len(s) : SubSeq(r, 1, Len(s))[i] = r[i]
  <2>1. /\ SubSeq(r, 1, Len(s)) \in Seq(X)
        /\ Len(SubSeq(r, 1, Len(s))) = IF 1 <= Len(s) THEN Len(s) - 1 + 1 ELSE 0
        /\ \A i \in 1 .. Len(s) - 1 + 1 : SubSeq(r, 1, Len(s))[i] = r[1 + i - 1]
    BY <1>1, <1>4, SubSeqProperties
  <2>. QED  BY <1>1, <2>1
<1>6. SubSeq(r, 1, Len(s)) = s  BY <1>1, <1>5, SeqEqual
<1>7. D!Front(r) = s  BY <1>3, <1>6 DEF D!Front
<1>. QED  BY <1>1, <1>2, <1>7 DEF r

LEMMA PrefixOf ==
    ASSUME NEW X, NEW s \in Seq(X), NEW t \in Seq(X)
    PROVE  D!IsPrefix(s, s \o t)
<1> DEFINE r == s \o t
<1>1. /\ r \in Seq(X) /\ Len(r) = Len(s) + Len(t)
      /\ \A i \in 1 .. Len(s) + Len(t) : r[i] = IF i <= Len(s) THEN s[i] ELSE t[i - Len(s)]
      /\ Len(s) \in Nat /\ Len(t) \in Nat
  BY ConcatProperties, LenProperties
<1>. HIDE DEF r
<1>2. \A i \in 1 .. Len(s) : s[i] \in X /\ r[i] = s[i]  BY <1>1
<1>3. \A q : (\A i \in 1 .. Len(s) : q[i] \in X)
          => /\ SubSeq(q, 1, Len(s)) \in Seq(X)
             /\ Len(SubSeq(q, 1, Len(s))) = Len(s)
             /\ \A i \in 1 .. Len(s) : SubSeq(q, 1, Len(s))[i] = q[i]
  <2>. TAKE q
  <2>. SUFFICES ASSUME \A i \in 1 .. Len(s) : q[i] \in X
                PROVE  /\ SubSeq(q, 1, Len(s)) \in Seq(X)
                       /\ Len(SubSeq(q, 1, Len(s))) = Len(s)
                       /\ \A i \in 1 .. Len(s) : SubSeq(q, 1, Len(s))[i] = q[i]
    OBVIOUS
  <2>1. /\ SubSeq(q, 1, Len(s)) \in Seq(X)
        /\ Len(SubSeq(q, 1, Len(s))) = IF 1 <= Len(s) THEN Len(s) - 1 + 1 ELSE 0
        /\ \A i \in 1 .. Len(s) - 1 + 1 : SubSeq(q, 1, Len(s))[i] = q[1 + i - 1]
    BY <1>1, SubSeqProperties
  <2>. QED  BY <1>1, <2>1
<1>4. SubSeq(s, 1, Len(s)) = SubSeq(r, 1, Len(s))
  <2> DEFINE u == SubSeq(s, 1, Len(s))
             w == SubSeq(r, 1, Len(s))
  <2>1. u \in Seq(X) /\ Len(u) = Len(s) /\ \A i \in 1 .. Len(s) : u[i] = s[i]
    BY <1>2, <1>3
  <2>2. w \in Seq(X) /\ Len(w) = Len(s) /\ \A i \in 1 .. Len(s) : w[i] = r[i]
    BY <1>2, <1>3
  <2>. HIDE DEF u, w
  <2>3. u = w  BY <1>2, <2>1, <2>2, SeqEqual
  <2>. QED  BY <2>3 DEF u, w
<1>. QED  BY <1>1, <1>4 DEF D!IsPrefix, r

\* An error after pieces: the pieces were heard.
LEMMA ErrorHeard ==
    ASSUME NEW s \in Seq(AnyLine), Open(s)
    PROVE  LET o == Append(s, "error")
           IN  o \in Seq(Told) /\ EndsOnce(o) /\ Hears(o) = s
<1> DEFINE o == Append(s, "error")
<1>1. s \in Seq(Told) /\ "error" \in Told  BY LineNames, SeqMonotonic DEF Told
<1>2. o \in Seq(Told) /\ o # <<>> /\ D!Last(o) = "error" /\ D!Front(o) = s
  BY <1>1, FrontLast
<1>3. Len(o) = Len(s) + 1 /\ Len(s) \in Nat /\ \A i \in 1 .. Len(s) : o[i] = s[i]
  BY <1>1, AppendProperties, LenProperties
<1>. HIDE DEF o
<1>4. DOMAIN o = 1 .. Len(o)  BY <1>2, LenProperties
<1>5. \A i \in DOMAIN o : o[i] \in Endings => i = Len(o)
  <2>. SUFFICES ASSUME NEW i \in 1 .. Len(o), i # Len(o) PROVE o[i] \notin Endings
    BY <1>4
  <2>1. i \in 1 .. Len(s)  BY <1>3
  <2>. QED  BY <1>3, <2>1 DEF Open
<1>6. "error" \in Endings  BY DEF Endings
<1>. QED  BY <1>2, <1>5, <1>6 DEF EndsOnce, Hears, o

\* What a decoder has sent that did not finish, or did, after pieces.
LEMMA SoundOpen ==
    ASSUME NEW d \in Decoding, Sound(d)
    PROVE  ~d.finished => Open(d.chunks)
<1>1. d.chunks \in Seq(AnyLine)  BY DEF Decoding
<1>2. \A i \in 1 .. Len(d.chunks) : d.chunks[i] \in AnyLine  BY <1>1
<1>. QED  BY <1>2, LineNames DEF Sound, Open, Endings

LEMMA OpenJoined ==
    ASSUME NEW s \in Seq(Told), NEW t \in Seq(Told), Open(s), Open(t)
    PROVE  Open(s \o t)
<1>1. /\ Len(s \o t) = Len(s) + Len(t) /\ Len(s) \in Nat /\ Len(t) \in Nat
      /\ \A i \in 1 .. Len(s) + Len(t) : (s \o t)[i] = IF i <= Len(s) THEN s[i] ELSE t[i - Len(s)]
  BY ConcatProperties, LenProperties
<1>. SUFFICES ASSUME NEW i \in 1 .. Len(s) + Len(t) PROVE (s \o t)[i] \notin Endings
  BY <1>1 DEF Open
<1>2. CASE i <= Len(s)
  <2>1. i \in 1 .. Len(s) /\ (s \o t)[i] = s[i]  BY <1>1, <1>2
  <2>. QED  BY <2>1 DEF Open
<1>3. CASE ~(i <= Len(s))
  <2>1. i - Len(s) \in 1 .. Len(t) /\ (s \o t)[i] = t[i - Len(s)]  BY <1>1, <1>3
  <2>. QED  BY <2>1 DEF Open
<1>. QED  BY <1>2, <1>3

LEMMA FinishHeard ==
    ASSUME NEW s \in Seq(AnyLine), Open(s), NEW d \in Decoding, Sound(d), d.finished
    PROVE  LET o == s \o d.chunks
           IN  o \in Seq(Told) /\ EndsOnce(o) /\ Hears(o) = o
<1> DEFINE t == d.chunks
           o == s \o t
<1>1. /\ t \in Seq(AnyLine) /\ t # <<>> /\ t[Len(t)] \in D!Finishing
      /\ \A i \in 1 .. Len(t) : t[i] \in D!Finishing => i = Len(t)
  BY DEF Decoding, Sound
<1>. HIDE DEF t
<1>2. /\ o \in Seq(AnyLine) /\ Len(o) = Len(s) + Len(t) /\ Len(s) \in Nat /\ Len(t) \in Nat
      /\ \A i \in 1 .. Len(s) + Len(t) : o[i] = IF i <= Len(s) THEN s[i] ELSE t[i - Len(s)]
  BY <1>1, ConcatProperties, LenProperties
<1>. HIDE DEF o
<1>3. Len(t) # 0  BY <1>1, <1>2, EmptySeq
<1>4. o[Len(o)] = t[Len(t)]
  <2>1. Len(o) \in 1 .. Len(s) + Len(t) /\ ~(Len(o) <= Len(s)) /\ Len(o) - Len(s) = Len(t)
    BY <1>2, <1>3
  <2>. QED  BY <1>2, <2>1
<1>5. o # <<>>  BY <1>2, <1>3
<1>6. D!Last(o) \in Endings /\ D!Last(o) # "error"
  BY <1>1, <1>4 DEF D!Last, Endings, D!Finishing
<1>7. DOMAIN o = 1 .. Len(o)  BY <1>2, LenProperties
<1>8. ASSUME NEW i \in 1 .. Len(o), o[i] \in Endings PROVE i = Len(o)
  <2>0. o[i] \in AnyLine  BY <1>2
  <2>1. o[i] \in D!Finishing  BY <1>8, <2>0, LineNames DEF Endings
  <2>2. CASE i <= Len(s)
    <3>1. i \in 1 .. Len(s) /\ o[i] = s[i]  BY <1>2, <2>2
    <3>. QED  BY <1>8, <3>1 DEF Open
  <2>3. CASE ~(i <= Len(s))
    <3>1. i - Len(s) \in 1 .. Len(t) /\ o[i] = t[i - Len(s)]  BY <1>2, <2>3
    <3>2. i - Len(s) = Len(t)  BY <1>1, <2>1, <3>1
    <3>3. i \in Nat  BY <1>2
    <3>. QED  BY <1>2, <3>2, <3>3
  <2>. QED  BY <2>2, <2>3
<1>9. o \in Seq(Told)  BY <1>2, LineNames, SeqMonotonic
<1>. QED  BY <1>5, <1>6, <1>7, <1>8, <1>9 DEF EndsOnce, Hears, o, t

LEMMA SeqLines == \A s \in Seq(Lines) : s \in Seq(AnyLine)
<1>1. Lines \subseteq AnyLine  BY DEF AnyLine
<1>. QED  BY <1>1, SeqMonotonic

\* The lines that arrived are decoded, and what is heard of them is typed.
LEMMA WholeShaped ==
    ASSUME CutInv
    PROVE  /\ Whole \in Decoding /\ Sound(Whole) /\ (format = "lines" => Whole.data = <<>>)
           /\ Whole.chunks \in Seq(AnyLine)
<1>1. arrived \in Nat /\ D!Complete(arrived) \in Nat /\ D!Complete(arrived) <= Len(wire)
  BY DEF CutInv, D!TypeOK, D!Complete
<1>2. SubSeq(wire, 1, D!Complete(arrived)) \in Seq(Lines)
  <2>1. \A i \in 1 .. D!Complete(arrived) : wire[i] \in Lines
    <3>1. wire \in Seq(Lines)  BY DEF CutInv
    <3>. QED  BY <1>1, <3>1
  <2>. QED  BY <1>1, <2>1, SubSeqProperties
<1>3. <<>> \in Seq(AnyLine) /\ SubSeq(wire, 1, D!Complete(arrived)) \in Seq(AnyLine)
  <2>1. <<>> \in Seq(AnyLine)  OBVIOUS
  <2>. QED  BY <1>2, <2>1, SeqLines
<1>4. Whole \in Decoding /\ Sound(Whole) /\ (format = "lines" => Whole.data = <<>>)
  BY <1>3, DecodeShaped DEF Whole, Shaped
<1>. QED  BY <1>4 DEF Decoding

\* A task that ends tells its receiver so, and what the lines said.
LEMMA Closed ==
    ASSUME CutInv, state = "running", D!TypeOK', UNCHANGED <<wire, listening>>,
           state' # "running", state' = "left" => ~listening, ~listening => out' = out,
           listening => /\ out' \in Seq(Told) /\ EndsOnce(out')
                        /\ state' \in {"finished", "failed", "broken"} =>
                              Hears(out') = Whole'.chunks
                        /\ state' = "ended" => \/ Hears(out') = Whole'.chunks
                                               \/ D!Front(Hears(out')) = Whole'.chunks
                        /\ state' = "lost" => D!IsPrefix(Hears(out'), Whole'.chunks)
    PROVE  CutInv'
<1>1. wire' \in Seq(Lines)  BY DEF CutInv
<1>2. out' \in Seq(Told)  BY DEF CutInv
<1>3. D!EndOnce'
  <2>1. CASE listening
    <3>1. EndsOnce(out')  BY <2>1
    <3>. QED  BY <3>1 DEF D!EndOnce, EndsOnce, Endings
  <2>2. CASE ~listening
    <3>1. out' = out /\ Open(out) /\ out \in Seq(Told)  BY <2>2 DEF CutInv, InStep
    <3>2. DOMAIN out = 1 .. Len(out)  BY <3>1, LenProperties
    <3>3. \A i \in DOMAIN out' : out'[i] \notin Endings  BY <3>1, <3>2 DEF Open
    <3>. QED  BY <2>2, <3>3 DEF D!EndOnce, Endings
  <2>. QED  BY <2>1, <2>2
<1>4. D!CutsUnheard'  BY DEF D!CutsUnheard, Whole, Hears
<1>. QED  BY <1>1, <1>2, <1>3, <1>4 DEF CutInv

\* What a push decodes goes on where the whole answer stands.
LEMMA PushMeets ==
    ASSUME CutInv, state = "running", NEW n \in arrived + 1 .. 2 * Len(wire),
           NEW d, d = D!Decode(data, SubSeq(wire, taken + 1, D!Complete(n))),
           arrived' = n, UNCHANGED <<format, wire>>
    PROVE  /\ d \in Decoding /\ Sound(d) /\ d.data \in Seq(Lines)
           /\ d.lines <= D!Complete(n) - taken
           /\ Going(d) => d.lines = D!Complete(n) - taken
           /\ Whole' = Joined(Whole, d)
<1>1. InStep /\ D!TypeOK /\ wire \in Seq(Lines)  BY DEF CutInv
<1>2. /\ arrived \in Nat /\ n \in Nat /\ taken \in Nat /\ D!Complete(n) \in Nat
      /\ taken <= D!Complete(n) /\ D!Complete(n) <= Len(wire) /\ Len(wire) \in Nat
      /\ taken = D!Complete(arrived)
  BY <1>1 DEF InStep, D!TypeOK, D!Complete
<1> DEFINE v == SubSeq(wire, 1, taken)
           w == SubSeq(wire, taken + 1, D!Complete(n))
           all == SubSeq(wire, 1, D!Complete(n))
<1>3. v \o w = all
  <2>1. 1 \in 1 .. Len(wire) + 1 /\ taken \in 1 - 1 .. Len(wire)
        /\ D!Complete(n) \in taken .. Len(wire)
    BY <1>2
  <2>. QED  BY <1>1, <2>1, ConcatAdjacentSubSeq
<1>4. v \in Seq(Lines)
  <2>1. \A i \in 1 .. taken : wire[i] \in Lines  BY <1>1, <1>2
  <2>. QED  BY <1>2, <2>1, SubSeqProperties
<1>5. w \in Seq(Lines) /\ Len(w) = D!Complete(n) - taken
  <2>1. \A i \in taken + 1 .. D!Complete(n) : wire[i] \in Lines  BY <1>1, <1>2
  <2>2. taken + 1 \in Int /\ D!Complete(n) \in Int  BY <1>2
  <2>3. w \in Seq(Lines)
        /\ Len(w) = IF taken + 1 <= D!Complete(n) THEN D!Complete(n) - (taken + 1) + 1 ELSE 0
    BY <2>1, <2>2, SubSeqProperties
  <2>. QED  BY <1>2, <2>3
<1>6. Whole = D!Decode(<<>>, v)  BY <1>2 DEF Whole
<1>7. Whole' = D!Decode(<<>>, all)
  BY SameDecode DEF Whole, D!Complete
<1>. HIDE DEF v, w, all
<1>8. v \in Seq(AnyLine) /\ w \in Seq(AnyLine) /\ data \in Seq(AnyLine) /\ data \in Seq(Lines)
  BY <1>1, <1>4, <1>5, SeqLines DEF D!TypeOK
<1>9. d = D!Decode(data, w)  BY DEF w
<1>10. Shaped(d, Len(w), data)  BY <1>8, <1>9, DecodeShaped
<1>11. d.data \in Seq(Lines)  BY <1>5, <1>8, <1>9, DecodeLines
<1>12. Whole' = Joined(Whole, d)
  <2>1. Going(D!Decode(<<>>, v)) /\ D!Decode(<<>>, v).data = data  BY <1>1, <1>6 DEF InStep
  <2>2. D!Decode(<<>>, v \o w) = Joined(D!Decode(<<>>, v), D!Decode(D!Decode(<<>>, v).data, w))
    BY <1>8, <2>1, DecodeJoined
  <2>. QED  BY <1>3, <1>6, <1>7, <1>9, <2>1, <2>2
<1>13. Len(w) = D!Complete(n) - taken /\ d.lines \in Nat
  BY <1>5, <1>10 DEF Shaped, Decoding
<1>. QED  BY <1>10, <1>11, <1>12, <1>13 DEF Shaped

\* One more after two sequences is one more after the second.
LEMMA AppendLast ==
    ASSUME NEW X, NEW s \in Seq(X), NEW t \in Seq(X), NEW x \in X
    PROVE  s \o Append(t, x) = Append(s \o t, x)
<1>1. Append(s \o t, x) = (s \o t) \o <<x>>  BY AppendIsConcat, ConcatProperties
<1>2. Append(t, x) = t \o <<x>>  BY AppendIsConcat
<1>3. <<x>> \in Seq(X)  OBVIOUS
<1>4. (s \o t) \o <<x>> = s \o (t \o <<x>>)
  <2>1. \A p, q, r \in Seq(X) : (p \o q) \o r = p \o (q \o r)  BY ConcatAssociative
  <2>. QED  BY <1>3, <2>1
<1>. QED  BY <1>1, <1>2, <1>4

LEMMA PushCut ==
    ASSUME CutInv, D!Push PROVE CutInv'
<1>0. state = "running"  BY DEF D!Push
<1>1. InStep /\ D!TypeOK /\ out \in Seq(Told) /\ wire \in Seq(Lines)  BY <1>0 DEF CutInv
<1>2. PICK n \in arrived + 1 .. 2 * Len(wire) :
          LET d == D!Decode(data, SubSeq(wire, taken + 1, D!Complete(n)))
          IN  /\ arrived' = n /\ taken' = taken + d.lines /\ data' = d.data
              /\ D!Outcome(d, d.error = "none" /\ D!Oversize(d, n))
  BY DEF D!Push
<1> DEFINE d == D!Decode(data, SubSeq(wire, taken + 1, D!Complete(n)))
           big == d.error = "none" /\ D!Oversize(d, n)
           c == Whole.chunks
<1>3. UNCHANGED <<format, wire, listening>>  BY DEF D!Push
<1>4. arrived' = n /\ taken' = taken + d.lines /\ data' = d.data  BY <1>2
<1>5. D!Outcome(d, big)  BY <1>2
<1>6. big => d.error = "none"  OBVIOUS
<1>7. /\ d \in Decoding /\ Sound(d) /\ d.data \in Seq(Lines)
      /\ d.lines <= D!Complete(n) - taken
      /\ Going(d) => d.lines = D!Complete(n) - taken
      /\ Whole' = Joined(Whole, d)
  BY <1>0, <1>3, <1>4, PushMeets
<1>8. Whole \in Decoding /\ Sound(Whole) /\ c \in Seq(AnyLine)  BY WholeShaped
<1>9. Whole'.chunks = c \o d.chunks  BY <1>7 DEF Joined
<1>10. state' \in {"running", "finished", "failed", "lost", "broken", "ended", "left"}
  BY <1>5 DEF D!Outcome, D!Over
<1>. HIDE DEF d, big
<1>11. D!TypeOK'
  <2>1. /\ n \in Nat /\ arrived \in Nat /\ taken \in Nat /\ d.lines \in Nat /\ Len(wire) \in Nat
        /\ D!Complete(n) \in Nat
    BY <1>1, <1>7 DEF D!TypeOK, D!Complete, Decoding
  <2>2. taken + d.lines \in 0 .. D!Complete(n)  BY <1>7, <2>1
  <2>3. n \in 0 .. 2 * Len(wire)  BY <2>1
  <2>4. arrived' \in 0 .. 2 * Len(wire')  BY <1>3, <1>4, <2>3
  <2>5. taken' \in 0 .. D!Complete(arrived')  BY <1>4, <2>2
  <2>6. data' \in Seq(Lines)  BY <1>4, <1>7
  <2>. QED  BY <1>10, <2>4, <2>5, <2>6 DEF D!TypeOK, D!Complete
<1>12. Going(Whole) /\ Open(c)  BY <1>1, <1>8, SoundOpen DEF InStep, Going
<1>13. /\ d.chunks \in Seq(AnyLine) /\ d.chunks \in Seq(Told) /\ c \in Seq(Told)
       /\ c \o d.chunks \in Seq(AnyLine) /\ "error" \in Told
  <2>1. d.chunks \in Seq(AnyLine)  BY <1>7 DEF Decoding
  <2>2. c \o d.chunks \in Seq(AnyLine)  BY <1>8, <2>1, ConcatProperties
  <2>3. \A s \in Seq(AnyLine) : s \in Seq(Told)  BY LineNames, SeqMonotonic
  <2>. QED  BY <1>8, <2>1, <2>2, <2>3 DEF Told
<1>14. ~d.finished => Open(c \o d.chunks)  BY <1>7, <1>12, <1>13, SoundOpen, OpenJoined
<1>15. listening => out = c  BY <1>1 DEF InStep
<1>. HIDE DEF c
<1>16. CASE d.error = "failed"
  <2>1. state' = "failed" /\ out' = IF listening THEN out \o Append(d.chunks, "error") ELSE out
    BY <1>5, <1>16 DEF D!Outcome, D!Over
  <2>2. ~d.finished  BY <1>7, <1>16 DEF Sound
  <2>3. ASSUME listening
        PROVE  out' \in Seq(Told) /\ EndsOnce(out') /\ Hears(out') = Whole'.chunks
    <3>1. out' = Append(c \o d.chunks, "error")  BY <1>13, <1>15, <2>1, <2>3, AppendLast
    <3>. QED  BY <1>9, <1>13, <1>14, <2>2, <3>1, ErrorHeard
  <2>. QED  BY <1>0, <1>3, <1>11, <2>1, <2>3, Closed
<1>17. CASE d.error # "failed" /\ (d.error = "lost" \/ big)
  <2>1. state' = "lost" /\ out' = IF listening THEN out \o <<"error">> ELSE out
    BY <1>5, <1>17 DEF D!Outcome, D!Over
  <2>2. ASSUME listening
        PROVE  out' \in Seq(Told) /\ EndsOnce(out') /\ D!IsPrefix(Hears(out'), Whole'.chunks)
    <3>1. out' = Append(c, "error")  BY <1>13, <1>15, <2>1, <2>2, AppendIsConcat
    <3>2. out' \in Seq(Told) /\ EndsOnce(out') /\ Hears(out') = c
      BY <1>8, <1>12, <3>1, ErrorHeard DEF c
    <3>3. D!IsPrefix(c, c \o d.chunks)  BY <1>13, PrefixOf
    <3>. QED  BY <1>9, <3>2, <3>3
  <2>. QED  BY <1>0, <1>3, <1>11, <2>1, <2>2, Closed
<1>18. CASE d.error \notin {"failed", "lost"} /\ ~big /\ d.finished
  <2>1. state' = "finished" /\ out' = IF listening THEN out \o d.chunks ELSE out
    BY <1>5, <1>18 DEF D!Outcome, D!Over
  <2>2. ASSUME listening
        PROVE  out' \in Seq(Told) /\ EndsOnce(out') /\ Hears(out') = Whole'.chunks
    <3>1. out' = c \o d.chunks  BY <1>15, <2>1, <2>2
    <3>2. c \in Seq(AnyLine)  BY <1>8 DEF c
    <3>. QED  BY <1>7, <1>9, <1>12, <1>18, <3>1, <3>2, FinishHeard
  <2>. QED  BY <1>0, <1>3, <1>11, <2>1, <2>2, Closed
<1>19. CASE /\ d.error \notin {"failed", "lost"} /\ ~big /\ ~d.finished
            /\ d.chunks # <<>> /\ ~listening
  <2>1. state' = "left" /\ out' = out  BY <1>5, <1>19 DEF D!Outcome, D!Over
  <2>. QED  BY <1>0, <1>3, <1>11, <1>19, <2>1, Closed
<1>20. CASE /\ d.error \notin {"failed", "lost"} /\ ~big /\ ~d.finished
            /\ ~(d.chunks # <<>> /\ ~listening)
  <2>1. state' = "running" /\ out' = IF listening THEN out \o d.chunks ELSE out
    BY <1>5, <1>20 DEF D!Outcome, D!Over
  <2>2. d.error = "none"  BY <1>7, <1>20 DEF Decoding
  <2>3. Going(d)  BY <1>20, <2>2 DEF Going
  <2>4. taken' = D!Complete(arrived')
    <3>1. taken \in Nat /\ D!Complete(n) \in Nat  BY <1>1, <1>4, <1>11 DEF D!TypeOK, D!Complete
    <3>. QED  BY <1>4, <1>7, <2>3, <3>1
  <2>5. Going(Whole') /\ data' = Whole'.data
    BY <1>4, <1>7, <1>8, <2>3, JoinedTypes DEF Joined
  <2>6. listening => out' = Whole'.chunks  BY <1>9, <1>15, <2>1
  <2>7. Open(out') /\ out' \in Seq(Told)
    <3>1. c \o d.chunks \in Seq(Told)  BY <1>13, ConcatProperties
    <3>2. Open(out) /\ out \in Seq(Told)  BY <1>1 DEF InStep
    <3>. QED  BY <1>14, <1>15, <1>20, <2>1, <3>1, <3>2
  <2>8. InStep'  BY <1>3, <2>4, <2>5, <2>6, <2>7 DEF InStep, D!Complete, Going, Open, Endings, D!Finishing
  <2>9. DOMAIN out' = 1 .. Len(out')  BY <2>7, LenProperties
  <2>10. D!EndOnce'
    <3>1. \A i \in DOMAIN out' : out'[i] \notin Endings  BY <2>7, <2>9 DEF Open
    <3>. QED  BY <2>1, <3>1 DEF D!EndOnce, Endings
  <2>11. D!CutsUnheard'
    <3>1. Hears(out') = out'
      <4>1. ASSUME out' # <<>> PROVE D!Last(out') # "error"
        <5>1. Len(out') \in 1 .. Len(out')  BY <2>7, <4>1, EmptySeq, LenProperties
        <5>2. out'[Len(out')] \notin Endings  BY <2>7, <5>1 DEF Open
        <5>. QED  BY <5>2 DEF D!Last, Endings
      <4>. QED  BY <4>1 DEF Hears
    <3>. QED  BY <1>3, <2>1, <2>6, <3>1 DEF D!CutsUnheard, Whole, Hears
  <2>. QED  BY <1>1, <1>3, <1>11, <2>1, <2>7, <2>8, <2>10, <2>11 DEF CutInv
<1>. QED  BY <1>16, <1>17, <1>18, <1>19, <1>20

\* What was decoded does not change while nothing arrives.
LEMMA SameWhole == ASSUME UNCHANGED <<format, wire, arrived>> PROVE Whole' = Whole
BY SameDecode DEF Whole, D!Complete

LEMMA BreakCut ==
    ASSUME CutInv, D!Break PROVE CutInv'
<1>0. /\ state = "running" /\ state' = "broken"
      /\ out' = IF listening THEN out \o <<"error">> ELSE out
      /\ UNCHANGED <<format, wire, arrived, taken, data, listening>>
  BY DEF D!Break, D!Over
<1>1. InStep /\ D!TypeOK  BY <1>0 DEF CutInv
<1>2. D!TypeOK'  BY <1>0, <1>1 DEF D!TypeOK, D!Complete
<1>3. Whole' = Whole  BY <1>0, SameWhole
<1> DEFINE c == Whole.chunks
<1>4. c \in Seq(AnyLine) /\ Open(c)
  BY <1>1, WholeShaped, SoundOpen DEF InStep, Going
<1>5. ASSUME listening
      PROVE  out' \in Seq(Told) /\ EndsOnce(out') /\ Hears(out') = Whole'.chunks
  <2>1. out' = Append(c, "error")  BY <1>0, <1>1, <1>4, <1>5, AppendIsConcat DEF InStep
  <2>2. Whole'.chunks = c  BY <1>3
  <2>. HIDE DEF c
  <2>. QED  BY <1>4, <2>1, <2>2, ErrorHeard
<1>. QED  BY <1>0, <1>2, <1>5, Closed

\* A sequence before one more.
LEMMA FrontOne ==
    ASSUME NEW X, NEW s \in Seq(X), NEW t \in Seq(X), t # <<>>, t = <<>> \/ Len(t) = 1
    PROVE  D!Front(s \o t) = s
<1>1. Len(t) = 1 /\ t[1] \in X  BY LenProperties
<1>2. t = <<t[1]>>  BY <1>1
<1>3. s \o t = Append(s, t[1])  BY <1>1, <1>2, AppendIsConcat
<1>. QED  BY <1>1, <1>3, FrontLast

\* At the end there is one chunk left at most.
LEMMA TailsFew ==
    ASSUME CutInv, state = "running", NEW d \in D!Tails
    PROVE  d \in Decoding /\ Sound(d) /\ (d.error = "none" => d.chunks = <<>> \/ Len(d.chunks) = 1)
<1>1. InStep /\ D!TypeOK /\ wire \in Seq(Lines)  BY DEF CutInv
<1>2. data \in Seq(AnyLine) /\ (format = "lines" => data = <<>>)
  BY <1>1, SeqLines, WholeShaped DEF D!TypeOK, InStep
<1>3. CASE arrived = 2 * taken
  <2>1. d = D!Rest(D!Decode(data, <<>>))  BY <1>3 DEF D!Tails
  <2>2. D!Decode(data, <<>>) = Started(data)  BY <1>2, DecodeFew
  <2>3. Started(data) \in Decoding /\ Sound(Started(data)) /\ Few(Started(data))
    BY <1>2, StartTypes DEF Started, Sound, Few
  <2>. QED  BY <2>1, <2>2, <2>3, RestFew
<1>4. CASE arrived # 2 * taken
  <2>1. PICK line \in {wire[taken + 1], "garbage", "comment", "mangled"} :
            d = D!Rest(D!Decode(data, <<line>>))
    BY <1>4 DEF D!Tails
  <2>2. line \in AnyLine
    <3>1. taken + 1 \in 1 .. Len(wire)
      BY <1>1, <1>4 DEF InStep, D!TypeOK, D!Complete
    <3>2. wire[taken + 1] \in Lines  BY <1>1, <3>1
    <3>. QED  BY <2>1, <3>2 DEF AnyLine
  <2>3. D!Decode(data, <<line>>) = D!Step(Started(data), line)  BY <1>2, <2>2, DecodeFew
  <2> DEFINE e == D!Step(Started(data), line)
  <2>4. e \in Decoding /\ Sound(e) /\ (e.error = "none" => Few(e))  BY <1>2, <2>2, OneLine
  <2>5. d = D!Rest(e)  BY <2>1, <2>3
  <2>. HIDE DEF e
  <2>. QED  BY <2>4, <2>5, RestFew
<1>. QED  BY <1>3, <1>4

LEMMA EndCut ==
    ASSUME CutInv, D!End PROVE CutInv'
<1>0. PICK d \in D!Tails :
          D!Over("ended", IF d.error # "none" THEN <<"error">>
                          ELSE IF d.finished THEN d.chunks ELSE Append(d.chunks, "error"))
  BY DEF D!End
<1>1. state = "running" /\ UNCHANGED <<format, wire, arrived, taken, data, listening>>
  BY DEF D!End
<1>2. /\ state' = "ended"
      /\ ~listening => out' = out
      /\ listening => out' = out \o (IF d.error # "none" THEN <<"error">>
                                     ELSE IF d.finished THEN d.chunks ELSE Append(d.chunks, "error"))
  BY <1>0 DEF D!Over
<1>3. InStep /\ D!TypeOK  BY <1>1 DEF CutInv
<1>4. D!TypeOK'  BY <1>1, <1>2, <1>3 DEF D!TypeOK, D!Complete
<1>5. Whole' = Whole  BY <1>1, SameWhole
<1>6. d \in Decoding /\ Sound(d) /\ (d.error = "none" => d.chunks = <<>> \/ Len(d.chunks) = 1)
  BY <1>1, TailsFew
<1> DEFINE c == Whole.chunks
<1>7. c \in Seq(AnyLine) /\ Open(c)
  BY <1>3, WholeShaped, SoundOpen DEF InStep, Going
<1>8. Whole'.chunks = c /\ (listening => out = c)  BY <1>3, <1>5 DEF InStep
<1>. HIDE DEF c
<1>9. d.chunks \in Seq(AnyLine) /\ "error" \in Told /\ \A s \in Seq(AnyLine) : s \in Seq(Told)
  BY <1>6, LineNames, SeqMonotonic DEF Decoding, Told
<1>10. ASSUME listening
       PROVE  /\ out' \in Seq(Told) /\ EndsOnce(out')
              /\ Hears(out') = Whole'.chunks \/ D!Front(Hears(out')) = Whole'.chunks
  <2>1. CASE d.error # "none"
    <3>1. out' = Append(c, "error")  BY <1>2, <1>7, <1>8, <1>9, <1>10, <2>1, AppendIsConcat
    <3>. QED  BY <1>7, <1>8, <3>1, ErrorHeard
  <2>2. CASE d.error = "none" /\ d.finished
    <3>1. out' = c \o d.chunks  BY <1>2, <1>8, <1>10, <2>2
    <3>2. out' \in Seq(Told) /\ EndsOnce(out') /\ Hears(out') = out'
      BY <1>6, <1>7, <2>2, <3>1, FinishHeard
    <3>3. d.chunks # <<>>  BY <1>6, <2>2 DEF Sound
    <3>4. D!Front(c \o d.chunks) = c  BY <1>6, <1>7, <1>9, <2>2, <3>3, FrontOne
    <3>. QED  BY <1>8, <3>1, <3>2, <3>4
  <2>3. CASE d.error = "none" /\ ~d.finished
    <3>1. c \o d.chunks \in Seq(AnyLine)  BY <1>7, <1>9, ConcatProperties
    <3>2. out' = Append(c \o d.chunks, "error")
      <4>1. out' = c \o Append(d.chunks, "error")  BY <1>2, <1>8, <1>10, <2>3
      <4>2. c \in Seq(Told) /\ d.chunks \in Seq(Told)  BY <1>7, <1>9
      <4>. QED  BY <1>9, <4>1, <4>2, AppendLast
    <3>3. Open(c \o d.chunks)  BY <1>6, <1>7, <1>9, <2>3, SoundOpen, OpenJoined
    <3>4. out' \in Seq(Told) /\ EndsOnce(out') /\ Hears(out') = c \o d.chunks
      BY <3>1, <3>2, <3>3, ErrorHeard
    <3>5. CASE d.chunks = <<>>
      <4>1. c \o d.chunks = c  BY <1>7, <3>5, ConcatEmptySeq
      <4>. QED  BY <1>8, <3>4, <4>1
    <3>6. CASE d.chunks # <<>>
      <4>1. D!Front(c \o d.chunks) = c  BY <1>6, <1>7, <1>9, <2>3, <3>6, FrontOne
      <4>. QED  BY <1>8, <3>4, <4>1
    <3>. QED  BY <3>5, <3>6
  <2>. QED  BY <2>1, <2>2, <2>3
<1>. QED  BY <1>1, <1>2, <1>4, <1>10, Closed

LEMMA LeaveCut ==
    ASSUME CutInv, D!Leave PROVE CutInv'
<1>1. ~listening' /\ UNCHANGED <<format, wire, arrived, taken, data, out, state>>
  BY DEF D!Leave
<1>2. Whole' = Whole  BY <1>1, SameWhole
<1>3. D!TypeOK'  BY <1>1 DEF CutInv, D!TypeOK, D!Complete
<1>4. state = "running" => InStep'
  BY <1>1, <1>2 DEF CutInv, InStep, D!Complete, Going, Open, Endings, D!Finishing
<1>5. D!EndOnce'  BY <1>1 DEF CutInv, D!EndOnce, D!Finishing
<1>6. D!CutsUnheard'  BY <1>1 DEF D!CutsUnheard
<1>. QED  BY <1>1, <1>3, <1>4, <1>5, <1>6 DEF CutInv

LEMMA CutKept == CutInv /\ [D!Next]_D!vars => CutInv'
<1>. SUFFICES ASSUME CutInv, [D!Next]_D!vars PROVE CutInv'
  OBVIOUS
<1>1. CASE UNCHANGED D!vars
  <2>1. UNCHANGED <<format, wire, arrived, taken, data, out, state, listening>>
    BY <1>1 DEF D!vars
  <2>2. Whole' = Whole  BY <2>1, SameWhole
  <2>3. D!TypeOK'  BY <2>1 DEF CutInv, D!TypeOK, D!Complete
  <2>4. state = "running" => InStep'
    BY <2>1, <2>2 DEF CutInv, InStep, D!Complete, Going, Open, Endings, D!Finishing
  <2>5. D!EndOnce'  BY <2>1 DEF CutInv, D!EndOnce, D!Finishing, D!Last
  <2>6. D!CutsUnheard'
    BY <2>1, <2>2 DEF CutInv, D!CutsUnheard, Whole, D!Last, D!Front, D!IsPrefix
  <2>. QED  BY <2>1, <2>3, <2>4, <2>5, <2>6 DEF CutInv
<1>. QED  BY <1>1, PushCut, BreakCut, EndCut, LeaveCut DEF D!Next

LEMMA CutBegins == D!Init => CutInv
<1>. SUFFICES ASSUME D!Init PROVE CutInv
  OBVIOUS
<1>1. /\ arrived = 0 /\ taken = 0 /\ data = <<>> /\ out = <<>>
      /\ state = "running" /\ listening = TRUE
  BY DEF D!Init
<1>2. wire \in Seq(Lines)
  <2>1. PICK n \in 0 .. MaxLines : wire \in [1 .. n -> Lines]  BY DEF D!Init
  <2>2. n \in Nat  BY DecoderAssumption
  <2>. QED  BY <2>1, <2>2
<1>3. D!Complete(arrived) = 0  BY <1>1 DEF D!Complete
<1>4. Whole = Started(<<>>)
  <2>1. SubSeq(wire, 1, 0) = <<>>  BY SubSeqEmpty
  <2>2. <<>> \in Seq(AnyLine)  OBVIOUS
  <2>. QED  BY <1>3, <2>1, <2>2, DecodeFew DEF Whole
<1>5. Len(<<>>) = 0 /\ <<>> \in Seq(Told) /\ <<>> \in Seq(Lines)  OBVIOUS
<1>6. Open(<<>>)  BY <1>5 DEF Open
<1>7. InStep  BY <1>1, <1>3, <1>4, <1>6 DEF InStep, Started, Going
<1>8. D!TypeOK
  <2>1. Len(wire) \in Nat  BY <1>2
  <2>. QED  BY <1>1, <1>3, <1>5, <2>1 DEF D!TypeOK
<1>9. D!EndOnce  BY <1>1 DEF D!EndOnce
<1>10. D!CutsUnheard  BY <1>1, <1>4 DEF D!CutsUnheard, Whole, Started
<1>. QED  BY <1>1, <1>2, <1>5, <1>7, <1>8, <1>9, <1>10 DEF CutInv

-----------------------------------------------------------------------------
(* The levels together                                                     *)

\* A step of the whole is a step of the view's or none, of the task's or none,
\* and of the decoder's or none.
LEMMA StepsApart ==
    ASSUME [SessionNext \/ TaskNext \/ DecoderNext]_<<part, vars, task, decoder>>
    PROVE  [Next]_vars /\ [T!Next]_T!vars /\ [D!Next]_D!vars
<1>1. task' = task => UNCHANGED T!vars
  BY DEF task, T!vars, T!taskVars, T!workVars, T!readVars
<1>2. decoder' = decoder => UNCHANGED D!vars  BY DEF decoder, D!vars
<1>. QED  BY <1>1, <1>2 DEF SessionNext, TaskNext, DecoderNext

\* The inductive invariants of the view, of the task and of the decoder.
THEOREM TranslationInductive == TranslationSpec => [](SessionInv /\ TaskInv /\ CutInv)
<1>1. TranslationInit => SessionInv /\ TaskInv /\ CutInv
  BY SessionBegins, TaskBegins, CutBegins DEF TranslationInit
<1>2. /\ SessionInv /\ TaskInv /\ CutInv
      /\ [SessionNext \/ TaskNext \/ DecoderNext]_<<part, vars, task, decoder>>
      => (SessionInv /\ TaskInv /\ CutInv)'
  BY SessionKept, TaskStays, CutKept, StepsApart
<1>. QED  BY <1>1, <1>2, PTL DEF TranslationSpec

\* The state of all three levels has its types, and the queue between the task
\* and its listener holds no more than one answer's pieces and their end.
THEOREM TranslationTyped == TranslationSpec => []TranslationTypeOK
<1>1. SessionInv => TypeOK  BY DEF SessionInv
<1>2. CutInv => D!TypeOK  BY DEF CutInv
<1>3. TaskInv => T!TypeOK
  <2>. SUFFICES ASSUME TaskInv PROVE T!TypeOK
    OBVIOUS
  <2>1. TaskTypes /\ SaidInv  BY DEF TaskInv
  <2>2. /\ Len(heard) \in Nat /\ Len(queue) \in Nat /\ Held \in Nat /\ sent \in Nat
        /\ MaxPieces \in Nat /\ sent <= MaxPieces
    BY <2>1, TaskAssumption DEF TaskTypes, Held
  <2>3. Count <= sent \/ Count <= sent + 1  BY <2>1 DEF SaidInv, Quiet, Spoken
  <2>4. Len(queue) <= MaxPieces + 1  BY <2>2, <2>3 DEF Count
  <2>. QED  BY <2>1, <2>4 DEF TaskTypes, T!TypeOK
<1>4. SessionInv /\ TaskInv /\ CutInv => TranslationTypeOK
  BY <1>1, <1>2, <1>3 DEF TranslationTypeOK
<1>. QED  BY <1>4, TranslationInductive, PTL

\* An answer is heard in order, up to its first failure and with one end, however
\* the network cut it into pushes; only a line that is not UTF-8 or a record too
\* large costs the pieces that came in its push (push, end and receive).
THEOREM AnswersHeard == TranslationSpec => []AnswerHeard
<1>1. CutInv => AnswerHeard  BY DEF CutInv, AnswerHeard
<1>. QED  BY <1>1, TranslationInductive, PTL

\* Results that are shown side by side answer one query, and so do the rows of
\* one session of the history, whatever is cancelled, edited or asked again
\* while they are under way (submit and selectService).
THEOREM OneQueryAlways == TranslationSpec => []OneQuery
<1>1. SessionInv => Comparable  BY DEF SessionInv, Agreed
<1>2. SessionInv => OneQueryPerSession
  <2>1. SUFFICES ASSUME SessionInv, NEW i \in Recorded, NEW j \in Recorded, i[1] = j[1]
                 PROVE  rows[i].text = rows[j].text /\ rows[i].target = rows[j].target
    BY DEF OneQueryPerSession, Recorded
  <2>. DEFINE c == [session |-> i[1], text |-> rows[i].text, target |-> rows[i].target]
              d == [session |-> j[1], text |-> rows[j].text, target |-> rows[j].target]
  <2>2. c \in Claims /\ d \in Claims  BY DEF Claims
  <2>3. c = d  BY <2>1, <2>2 DEF SessionInv, Agreed, ClaimsInv
  <2>. QED  BY <2>3
<1>3. SessionInv => OneQuery  BY <1>1, <1>2 DEF OneQuery
<1>. QED  BY <1>3, TranslationInductive, PTL

\* The record shown for a service is its row of the active session, unless a
\* toggle of an older one landed, and its star is the row's (_upsertHistory
\* and toggleSelectedFavorite).
THEOREM HistoryStaysOwned == TranslationSpec => []HistoryOwned
<1>1. SessionInv => HistoryOwned  BY DEF SessionInv, Agreed
<1>. QED  BY <1>1, TranslationInductive, PTL

\* The task says one end, last, unless it was cancelled, and nothing in the view
\* waits for another (translate_stream, next and _cancelActive).
THEOREM EndIsSaidAlways == TranslationSpec => []EndIsSaid
<1>1. SessionInv => NothingHangs  BY DEF SessionInv, Agreed
<1>2. TaskInv => T!OneEnd /\ T!EndIsSaid  BY OneEndFollows, EndIsSaidFollows
<1>3. SessionInv /\ TaskInv => EndIsSaid  BY <1>1, <1>2 DEF EndIsSaid
<1>. QED  BY <1>3, TranslationInductive, PTL

\* The task implements the stream a listener is promised: pieces, then one end,
\* and nothing once it cancelled (llm_stream.dart's read).
THEOREM StreamImplemented == TranslationSpec => ImplementsStream
<1>1. TranslationInit => T!Stream!Init  BY StreamBegins DEF TranslationInit
<1>2. /\ SessionInv /\ TaskInv
      /\ [SessionNext \/ TaskNext \/ DecoderNext]_<<part, vars, task, decoder>>
      => [T!Stream!Next]_<<heard, ~stopped>>
  BY StepsApart, StreamKept
<1>. QED  BY <1>1, <1>2, TranslationInductive, PTL
     DEF TranslationSpec, ImplementsStream, T!ImplementsStream, T!Stream!Spec
=============================================================================
