----------------------------- MODULE SystemBridge -----------------------------
(***************************************************************************)
(* Translating and detecting with the services of macOS.  A request is     *)
(* entered in a registry of pending requests under a fresh number, posted  *)
(* as a notification to the native side, and waited for on a thread of its *)
(* own; the native side posts one notification in answer, which a callback *)
(* matches to its entry.  The answer may come within the post, long after, *)
(* after the waiting has ended, or never.                                  *)
(*                                                                         *)
(* The registry is under a lock, which the callback keeps until it has     *)
(* sent the result to the waiting thread and the post does not hold.       *)
(***************************************************************************)
EXTENDS Naturals, FiniteSets

CONSTANTS Requests      \* the requests made, translations or detections

None == [kind |-> "none"]

VARIABLES
    asked,      \* what each request asks for
    step, number,
    next,       \* NEXT_REQ_ID
    registry,   \* numbers to requests, as a set of pairs
    native,     \* numbers the native side still works on
    inflight,   \* the answer the callback is about to send
    channel,    \* what was sent to a waiting thread
    result

vars == <<asked, step, number, next, registry, native, inflight, channel, result>>

Asks == [operation : {"translate"}, whole : BOOLEAN]   \* whole: has a target
        \cup [operation : {"detect"}, whole : BOOLEAN] \* whole: has texts
Error(why) == [kind |-> "error", of |-> why]

Init ==
    /\ asked \in [Requests -> Asks]
    /\ step = [r \in Requests |-> "new"]
    /\ number = [r \in Requests |-> 0]
    /\ next = 1
    /\ registry = {} /\ native = {} /\ inflight = None
    /\ channel = [r \in Requests |-> None]
    /\ result = [r \in Requests |-> None]

Locked == inflight # None
Entry(n) == {e \in registry : e.number = n}

Over(r, outcome) ==
    /\ step' = [step EXCEPT ![r] = "over"]
    /\ result' = [result EXCEPT ![r] = outcome]

-----------------------------------------------------------------------------
(* The caller's side.                                                      *)

\* A detection looks at its texts before it is entered ...
RefuseTexts(r) ==
    /\ step[r] = "new"
    /\ asked[r].operation = "detect" /\ ~asked[r].whole
    /\ Over(r, Error("request"))
    /\ UNCHANGED <<asked, number, next, registry, native, inflight, channel>>

\* Mutant: the number is read, not taken.
EnterSame(r) ==
    /\ step[r] = "new" /\ ~Locked
    /\ ~(asked[r].operation = "detect" /\ ~asked[r].whole)
    /\ number' = [number EXCEPT ![r] = next]
    /\ UNCHANGED next
    /\ registry' = (registry \ Entry(next)) \cup {[number |-> next, request |-> r]}
    /\ step' = [step EXCEPT ![r] = "entered"]
    /\ UNCHANGED <<asked, native, inflight, channel, result>>

Enter(r) ==
    /\ step[r] = "new" /\ ~Locked
    /\ ~(asked[r].operation = "detect" /\ ~asked[r].whole)
    /\ number' = [number EXCEPT ![r] = next]
    /\ next' = next + 1
    /\ registry' = (registry \ Entry(next)) \cup {[number |-> next, request |-> r]}
    /\ step' = [step EXCEPT ![r] = "entered"]
    /\ UNCHANGED <<asked, native, inflight, channel, result>>

\* ... a translation looks at its target after, and leaves its entry.
RefuseTarget(r) ==
    /\ step[r] = "entered"
    /\ asked[r].operation = "translate" /\ ~asked[r].whole
    /\ Over(r, Error("request"))
    /\ UNCHANGED <<asked, number, next, registry, native, inflight, channel>>

\* The notification may not be made, or the native side may make nothing of
\* it: then nobody will answer.
Post(r) ==
    /\ step[r] = "entered" /\ asked[r].whole
    /\ step' = [step EXCEPT ![r] = "waiting"]
    /\ native' \in {native, native \cup {number[r]}}
    /\ UNCHANGED <<asked, number, next, registry, inflight, channel, result>>

\* wait_for_translation_response: an answer of the other operation is an error.
Receive(r) ==
    /\ step[r] = "waiting" /\ channel[r] # None
    /\ Over(r, IF channel[r].kind = "answer" /\ channel[r].operation # asked[r].operation
               THEN Error("operation") ELSE channel[r])
    /\ UNCHANGED <<asked, number, next, registry, native, inflight, channel>>

\* The two minutes are over; then the entry goes, under the lock.
GiveUp(r) ==
    /\ step[r] = "waiting" /\ channel[r] = None
    /\ step' = [step EXCEPT ![r] = "late"]
    /\ UNCHANGED <<asked, number, next, registry, native, inflight, channel, result>>

\* Mutant: the entry of a request given up stays.
ForgetNot(r) ==
    /\ step[r] = "late" /\ ~Locked
    /\ UNCHANGED registry
    /\ Over(r, Error("timeout"))
    /\ UNCHANGED <<asked, number, next, native, inflight, channel>>

Forget(r) ==
    /\ step[r] = "late" /\ ~Locked
    /\ registry' = registry \ Entry(number[r])
    /\ Over(r, Error("timeout"))
    /\ UNCHANGED <<asked, number, next, native, inflight, channel>>

\* The sender of a waiting request is gone without an answer, neither in the
\* registry nor with the callback: the wait would end in an error.
Disconnected(r) ==
    /\ step[r] = "waiting" /\ channel[r] = None
    /\ [number |-> number[r], request |-> r] \notin registry
    /\ inflight = None \/ inflight.to # r

-----------------------------------------------------------------------------
(* on_translation_response                                                 *)

\* The notification that answers n: without an entry it is ignored.
OnResponse(n) ==
    /\ n \in native /\ ~Locked
    /\ native' = native \ {n}
    /\ IF Entry(n) = {} THEN UNCHANGED <<registry, inflight>>
       ELSE LET e == CHOOSE e \in Entry(n) : TRUE
                of == CHOOSE r \in Requests : number[r] = n
            IN  /\ registry' = registry \ {e}
                /\ \E outcome \in {[kind |-> "answer", of |-> of,
                                     operation |-> asked[of].operation],
                                    Error("json"), Error("native")} :
                       /\ outcome = Error("json") => asked[of].operation = "detect"
                       /\ inflight' = [kind |-> "sending", to |-> e.request, outcome |-> outcome]
    /\ UNCHANGED <<asked, step, number, next, channel, result>>

\* Sent, whether or not anyone still listens; the lock is released.
Send ==
    /\ Locked
    /\ channel' = [channel EXCEPT ![inflight.to] = inflight.outcome]
    /\ inflight' = None
    /\ UNCHANGED <<asked, step, number, next, registry, native, result>>

Next ==
    \/ \E r \in Requests :
           \/ RefuseTexts(r) \/ Enter(r) \/ RefuseTarget(r) \/ Post(r)
           \/ Receive(r) \/ GiveUp(r) \/ Forget(r)
    \/ \E n \in native : OnResponse(n)
    \/ Send

Spec == Init /\ [][Next]_vars

-----------------------------------------------------------------------------
TypeOK ==
    /\ asked \in [Requests -> Asks]
    /\ step \in [Requests -> {"new", "entered", "waiting", "late", "over"}]
    /\ number \in [Requests -> 0 .. Cardinality(Requests)]
    /\ next \in 1 .. Cardinality(Requests) + 1
    /\ registry \subseteq [number : 1 .. Cardinality(Requests), request : Requests]
    /\ native \subseteq 1 .. Cardinality(Requests)

\* An answer is the answer to the request that gets it, the channel of no
\* request closes unanswered, and a request that is over has no entry left,
\* except a translation without a target, whose entry nobody removes.
OwnAnswer ==
    \A r \in Requests :
        /\ result[r].kind = "answer" => result[r].of = r
        /\ ~Disconnected(r)
        /\ step[r] = "over" /\ (\E e \in registry : e.request = r)
              => asked[r] = [operation |-> "translate", whole |-> FALSE]
=============================================================================
