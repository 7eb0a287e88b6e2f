------------------------------ MODULE ApiServer ------------------------------
(***************************************************************************)
(* The local API server and the application thread that starts and stops   *)
(* it as the settings say.                                                 *)
(*                                                                         *)
(* Every start makes a listener with an accept loop of its own.  A stop    *)
(* raises the flag, connects to the listener to wake the loop, and joins   *)
(* it.  Each accepted connection is read, dispatched and answered by a     *)
(* thread of its own, which a stop does not wait for.  An accepted action  *)
(* goes into a bounded broadcast to the application.                       *)
(*                                                                         *)
(* A request arrives in two parts, its head and its body; a server is the  *)
(* number of its start; a setting is the wanted port, or Off.              *)
(***************************************************************************)
EXTENDS Naturals, Sequences, FiniteSets

CONSTANTS
    Clients,      \* connections, each used once
    Requests,     \* [route, body, length], the requests clients send
    Ports, Off,
    Wake,         \* the connection a stop makes
    Backlog,      \* capacity of a listener's queue
    Capacity,     \* capacity of the broadcast
    MaxStarts, MaxChanges   \* bounds on the starts and the settings' changes

Starts == 1 .. MaxStarts
None == 0
CallStatuses == {200, 400, 401, 429, 500, 502}
Statuses == CallStatuses \cup {202, 204, 404, 405}

VARIABLES
    wanted,    \* the setting
    app,       \* where the application thread is in applying it
    server,    \* its server, or None
    failed,    \* the last start could not bind
    loop,      \* by start: "unborn", "accepting" or "over"
    port,      \* by start
    stopped,   \* by start: the flag
    backlog,   \* by start: connections waiting to be accepted
    conn,      \* by client
    actions,   \* the broadcast, as the application has yet to take it
    changes

serving == <<loop, port, stopped, backlog>>
vars == <<wanted, app, server, failed, serving, conn, actions, changes>>

Away == [step |-> "away", request |-> None, sent |-> 0, got |-> 0,
         closed |-> FALSE, answer |-> None, emitted |-> 0]

\* A connection that is closed: what was sent and not read is lost.
Shut(d) == [d EXCEPT !.step = "over", !.closed = TRUE, !.sent = d.got]

Init ==
    /\ wanted = Off /\ app = "idle" /\ server = None /\ failed = FALSE
    /\ loop = [i \in Starts |-> "unborn"]
    /\ port = [i \in Starts |-> Off]
    /\ stopped = [i \in Starts |-> FALSE]
    /\ backlog = [i \in Starts |-> <<>>]
    /\ conn = [c \in Clients |-> Away]
    /\ actions = <<>>
    /\ changes = 0

-----------------------------------------------------------------------------
(* The application thread: applyApiServerSettings, as the coordinator runs *)
(* it for every change of the setting.                                     *)

\* A running server is kept when it is what is wanted.
Change(w) ==
    /\ app = "idle"
    /\ changes < MaxChanges
    /\ changes' = changes + 1
    /\ wanted' = w
    /\ app' = IF server = None THEN (IF w # Off THEN "start" ELSE "idle")
              ELSE IF w = port[server] THEN "idle" ELSE "stop"
    /\ UNCHANGED <<server, failed, serving, conn, actions>>

RaiseFlag ==
    /\ app = "stop"
    /\ stopped' = [stopped EXCEPT ![server] = TRUE]
    /\ app' = "wake"
    /\ UNCHANGED <<wanted, server, failed, loop, port, backlog, conn, actions, changes>>

\* Mutant: the loop is trusted to look at the flag by itself.
WakeNobody ==
    /\ app = "wake"
    /\ app' = "join"
    /\ UNCHANGED <<wanted, server, failed, serving, conn, actions, changes>>

\* TcpStream::connect, whose failure on a full queue is ignored.
WakeLoop ==
    /\ app = "wake"
    /\ backlog' = IF Len(backlog[server]) < Backlog
                  THEN [backlog EXCEPT ![server] = Append(@, Wake)] ELSE backlog
    /\ app' = "join"
    /\ UNCHANGED <<wanted, server, failed, loop, port, stopped, conn, actions, changes>>

Join ==
    /\ app = "join"
    /\ loop[server] = "over"
    /\ server' = None
    /\ app' = IF wanted = Off THEN "idle" ELSE "start"
    /\ UNCHANGED <<wanted, failed, serving, conn, actions, changes>>

\* startApiServer binds and spawns, unless something holds the port.
Start ==
    /\ app = "start"
    /\ app' = "idle"
    /\ \/ /\ server' = None /\ failed' = TRUE
          /\ UNCHANGED <<loop, port>>
       \/ \E i \in Starts :
             /\ loop[i] = "unborn" /\ \A j \in Starts : j < i => loop[j] # "unborn"
             /\ \A j \in Starts : loop[j] = "accepting" => port[j] # wanted
             /\ loop' = [loop EXCEPT ![i] = "accepting"]
             /\ port' = [port EXCEPT ![i] = wanted]
             /\ server' = i /\ failed' = FALSE
    /\ UNCHANGED <<wanted, stopped, backlog, conn, actions, changes>>

-----------------------------------------------------------------------------
(* serve                                                                   *)

\* The loop takes the next connection, or ends if the flag is up: what waits
\* with it is closed with the listener.
Accept(i) ==
    /\ loop[i] = "accepting" /\ backlog[i] # <<>>
    /\ IF stopped[i]
       THEN /\ loop' = [loop EXCEPT ![i] = "over"]
            /\ backlog' = [backlog EXCEPT ![i] = <<>>]
            /\ conn' = [c \in Clients |-> IF \E k \in DOMAIN backlog[i] : backlog[i][k] = c
                                          THEN Shut(conn[c]) ELSE conn[c]]
       ELSE /\ loop' = loop
            /\ backlog' = [backlog EXCEPT ![i] = Tail(@)]
            /\ \/ conn' = [conn EXCEPT ![Head(backlog[i])].step = "reading"]
               \/ conn' = [conn EXCEPT ![Head(backlog[i])] = Shut(@)]   \* no thread could be spawned
    /\ UNCHANGED <<wanted, app, server, failed, port, stopped, actions, changes>>

-----------------------------------------------------------------------------
(* handle_stream                                                           *)

\* dispatch: a call into a provider ...
Delegated(r) == r.route = "call" /\ r.body = "good"

\* ... or an answer of its own.
Verdict(r) ==
    CASE r.route = "options" -> 204
      [] r.route = "page" -> 200
      [] r.route = "action" \/ (r.route = "text" /\ r.body = "good") -> 202
      [] (r.route = "text" /\ r.body # "good") \/ r.route = "call" -> 400
      [] r.route = "method" -> 405
      [] OTHER -> 404

\* Where a request ends: with its head, when it declares no body.
Whole(r) == IF r.length = "none" THEN 1 ELSE 2

\* A connection that is answered; an accepted action was emitted before.
Answered(d, got, status) ==
    [Shut([d EXCEPT !.got = got]) EXCEPT
        !.answer = status, !.emitted = d.emitted + (IF status = 202 THEN 1 ELSE 0)]

\* Mutant: the broadcast keeps what nobody has taken.
AnswerUnbounded(c, got, status) ==
    /\ conn' = [conn EXCEPT ![c] = Answered(@, got, status)]
    /\ actions' = IF status = 202 THEN Append(actions, c) ELSE actions

\* write_response; a receiver that falls behind loses the oldest action.
Answer(c, got, status) ==
    /\ conn' = [conn EXCEPT ![c] = Answered(@, got, status)]
    /\ actions' = IF status # 202 THEN actions
                  ELSE Append(IF Len(actions) < Capacity THEN actions ELSE Tail(actions), c)

Dispatch(c, got) ==
    IF Delegated(conn[c].request)
    THEN /\ conn' = [conn EXCEPT ![c].step = "calling", ![c].got = got]
         /\ UNCHANGED actions
    ELSE Answer(c, got, Verdict(conn[c].request))

\* Mutant: a body cut short is taken as it is.
ReadEndsAsIs(c) ==
    /\ conn[c].step = "reading" /\ conn[c].sent = conn[c].got
    /\ IF conn[c].got = 0 THEN Answer(c, 0, 400) ELSE Dispatch(c, conn[c].got)
    /\ UNCHANGED <<wanted, app, server, failed, serving, changes>>

\* read_request: what arrived may be one part or both.
Read(c) ==
    /\ conn[c].step = "reading"
    /\ \E got \in conn[c].got + 1 .. conn[c].sent :
          LET r == conn[c].request
          IN  \/ r.length = "bad" /\ Answer(c, got, 400)
              \/ r.length # "bad" /\ got >= Whole(r) /\ Dispatch(c, got)
              \/ /\ r.length # "bad" /\ got < Whole(r)
                 /\ conn' = [conn EXCEPT ![c].got = got] /\ UNCHANGED actions
    /\ UNCHANGED <<wanted, app, server, failed, serving, changes>>

\* The client closed, or the ten seconds are over.
ReadEnds(c) ==
    /\ conn[c].step = "reading" /\ conn[c].sent = conn[c].got
    /\ Answer(c, conn[c].got, 400)
    /\ UNCHANGED <<wanted, app, server, failed, serving, changes>>

\* block_on_api: a provider's answer or the status of its error.
CallEnds(c) ==
    /\ conn[c].step = "calling"
    /\ \E status \in CallStatuses : Answer(c, conn[c].got, status)
    /\ UNCHANGED <<wanted, app, server, failed, serving, changes>>

-----------------------------------------------------------------------------
(* The clients and the application's listener.                             *)

Connect(c, i, r) ==
    /\ conn[c].step = "away"
    /\ loop[i] = "accepting" /\ Len(backlog[i]) < Backlog
    /\ backlog' = [backlog EXCEPT ![i] = Append(@, c)]
    /\ conn' = [conn EXCEPT ![c] = [Away EXCEPT !.step = "queued", !.request = r]]
    /\ UNCHANGED <<wanted, app, server, failed, loop, port, stopped, actions, changes>>

Send(c) ==
    /\ conn[c].step \in {"queued", "reading"} /\ ~conn[c].closed /\ conn[c].sent < 2
    /\ \/ conn' = [conn EXCEPT ![c].sent = @ + 1]
       \/ conn' = [conn EXCEPT ![c].closed = TRUE]
    /\ UNCHANGED <<wanted, app, server, failed, serving, actions, changes>>

TakeAction ==
    /\ actions # <<>>
    /\ actions' = Tail(actions)
    /\ UNCHANGED <<wanted, app, server, failed, serving, conn, changes>>

AppStep == RaiseFlag \/ WakeLoop \/ Join \/ Start

Next ==
    \/ \E w \in Ports \cup {Off} : Change(w)
    \/ AppStep
    \/ \E i \in Starts : Accept(i)
    \/ \E c \in Clients :
          \/ Read(c) \/ ReadEnds(c) \/ CallEnds(c) \/ Send(c)
          \/ \E i \in Starts, r \in Requests : Connect(c, i, r)
    \/ TakeAction

\* Threads run; calls into providers and clients may take for ever.
Fairness == WF_vars(AppStep) /\ \A i \in Starts : WF_vars(Accept(i))

Spec == Init /\ [][Next]_vars /\ Fairness

-----------------------------------------------------------------------------
TypeOK ==
    /\ wanted \in Ports \cup {Off} /\ server \in Starts \cup {None}
    /\ app \in {"idle", "stop", "wake", "join", "start"}
    /\ failed \in BOOLEAN
    /\ loop \in [Starts -> {"unborn", "accepting", "over"}]
    /\ port \in [Starts -> Ports \cup {Off}]
    /\ stopped \in [Starts -> BOOLEAN]
    /\ \A i \in Starts : backlog[i] \in Seq(Clients \cup {Wake}) /\ Len(backlog[i]) <= Backlog
    /\ \A c \in Clients :
          /\ conn[c].step \in {"away", "queued", "reading", "calling", "over"}
          /\ conn[c].sent \in 0 .. 2 /\ conn[c].got \in 0 .. conn[c].sent
          /\ conn[c].answer \in Statuses \cup {None}
    /\ actions \in Seq(Clients) /\ Len(actions) <= Capacity
    /\ changes \in 0 .. MaxChanges

\* While the application thread rests, the server that accepts is the one the
\* setting asks for - none after a failed start - and no loop of an earlier
\* server is left; so a start never finds its own port taken.
ServerAsWanted ==
    /\ app = "idle" => 
          /\ {i \in Starts : loop[i] = "accepting"} = IF server = None THEN {} ELSE {server}
          /\ IF server = None THEN wanted = Off \/ failed ELSE port[server] = wanted
    /\ app = "start" => \A i \in Starts : loop[i] # "accepting"

\* An action runs at most once for a request, only for one received whole and
\* only when its client is told so; anything cut short is refused.
WholeRequests ==
    \A c \in Clients :
        /\ conn[c].emitted = IF conn[c].answer = 202 THEN 1 ELSE 0
        /\ conn[c].answer \notin {None, 400} \/ conn[c].step = "calling" =>
              conn[c].got >= Whole(conn[c].request) /\ conn[c].request.length # "bad"

\* A stop comes back, whatever clients and their requests do.
StopReturns == (app = "stop") ~> (app \in {"idle", "start"})
=============================================================================
